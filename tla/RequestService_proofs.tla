----------------------- MODULE RequestService_proofs ------------------------
(***************************************************************************)
(* Proofs about RequestService for any number of connections, threads,     *)
(* requests and callers of start() and stop().  The inductive invariant    *)
(* IInv ties each connection to its single owner (an outstanding operation *)
(* or a thread), the owners to the pool, and the running timers to         *)
(* outstanding reads, however the calls overlap.  What holds only while    *)
(* they do not (CallsApart) is SerialInv: a socket that is open wherever   *)
(* m_mutex is held across steps, and a single accept loop.                 *)
(***************************************************************************)
EXTENDS RequestService, TLAPS

\* A thread serves a connection of the pool exactly while it is not idle, alone.
Ownership ==
    /\ \A w \in Worker : pc[w] = "idle" <=> cur[w] = NoConn
    /\ \A w \in Worker : cur[w] # NoConn => op[cur[w]] = "none"
    /\ \A v, w \in Worker : cur[v] = cur[w] /\ cur[w] # NoConn => v = w

\* Whatever is being worked on is in the pool.
Pooled ==
    /\ \A c \in Conn : op[c] # "none" => c \in pool
    /\ \A w \in Worker : cur[w] # NoConn => cur[w] \in pool
    /\ ~listening /\ (\A k \in Caller : ctl[k] \notin {"draining", "closing"}) => pool = {}

\* A timer runs only while a read is outstanding.
TimersGuardReads == \A c \in armed : op[c] \in {"read", "dead"}

\* m_mutex is held across steps only by a thread on the keep-alive path of
\* finishConnection, while the server listens.
LockInv ==
    \A w \in Worker : lock = w =>
        /\ listening
        /\ pc[w] \in {"connect", "consume", "handle", "respond", "report", "finish"}

\* A connection that has not been served yet is not kept alive.
FreshCloses ==
    /\ \A c \in Conn : c \notin pool \/ op[c] = "accept" => life[c] = "CLOSE"
    /\ \A w \in Worker : pc[w] \in {"listenOK", "listenErr"} => life[cur[w]] = "CLOSE"

IInv == /\ TypeOK
        /\ Ownership
        /\ Pooled
        /\ TimersGuardReads
        /\ LockInv
        /\ FreshCloses
        /\ AcceptLoopAlive

\* A start() whose listen() is still to come finds the pool empty, and nobody starts
\* the server while a stop() waits.
CallsEmpty ==
    /\ \A k \in Caller : ctl[k] = "starting" => pool = {}
    /\ \A k \in Caller : ctl[k] \in {"draining", "closing"} => ~listening

\* The connection m_mutex is kept for is open and not being finished.
LockOpen == \A w \in Worker : lock = w => pc[w] # "finish" /\ sock[cur[w]] = "open"

\* While the server listens, a connection that finishConnection would keep alive
\* is open.
KeptIsOpen ==
    listening =>
        /\ \A c \in Conn : op[c] = "write" => sock[c] = "open"
        /\ \A w \in Worker : pc[w] = "finish" /\ life[cur[w]] # "CLOSE" => sock[cur[w]] = "open"

SerialInv == CallsEmpty /\ LockOpen /\ KeptIsOpen /\ AcceptLoopIntact

-----------------------------------------------------------------------------
USE ServiceAssumption

\* A new connection's stream is well typed.
LEMMA NewStreamType == NewStream \in Stream
<1>1. <<>> \in Seq(0..MaxRequests)
  OBVIOUS
<1> QED
  BY <1>1 DEF NewStream, Stream

\* The updates of a connection's stream are well typed.
LEMMA StreamUpdates ==
    ASSUME NEW s \in Stream
    PROVE  /\ s.sent < MaxRequests => [s EXCEPT !.sent = @ + 1] \in Stream
           /\ \A cut \in {"yes", "no"} : [s EXCEPT !.cut = cut] \in Stream
           /\ \A n \in 0..MaxRequests, cut \in {"yes", "no"} :
                Arrived(s, n, cut) =>
                  [s EXCEPT !.pos = s.end, !.end = @ + n, !.cut = cut] \in Stream
           /\ HasMessage(s) \/ HasPiece(s) =>
                /\ [s EXCEPT !.pos = @ + 1, !.last = s.pos + 1] \in Stream
                /\ [s EXCEPT !.pos = @ + 1, !.last = @] \in Stream
           /\ [s EXCEPT !.answered = Append(@, s.pos)] \in Stream
<1>1. /\ s.sent \in 0..MaxRequests /\ s.end \in 0..MaxRequests
      /\ s.pos \in 0..MaxRequests /\ s.last \in 0..MaxRequests
      /\ MaxRequests \in Nat
  BY DEF Stream
<1>2. s.sent < MaxRequests => s.sent + 1 \in 0..MaxRequests
  BY <1>1
<1>3. s.sent < MaxRequests => [s EXCEPT !.sent = @ + 1] \in Stream
  BY <1>2 DEF Stream
<1>4. \A cut \in {"yes", "no"} : [s EXCEPT !.cut = cut] \in Stream
  BY DEF Stream
<1>5. ASSUME NEW n \in 0..MaxRequests, NEW cut \in {"yes", "no"}, Arrived(s, n, cut)
      PROVE  [s EXCEPT !.pos = s.end, !.end = @ + n, !.cut = cut] \in Stream
  <2>1. s.end + n \in 0..MaxRequests
    BY <1>1, <1>5 DEF Arrived
  <2> QED
    BY <2>1 DEF Stream
<1>6. ASSUME HasMessage(s) \/ HasPiece(s)
      PROVE  /\ [s EXCEPT !.pos = @ + 1, !.last = s.pos + 1] \in Stream
             /\ [s EXCEPT !.pos = @ + 1, !.last = @] \in Stream
  <2>1. s.pos + 1 \in 0..MaxRequests
    BY <1>1, <1>6 DEF HasMessage, HasPiece
  <2> QED
    BY <2>1 DEF Stream
<1>7. [s EXCEPT !.answered = Append(@, s.pos)] \in Stream
  <2>1. Append(s.answered, s.pos) \in Seq(0..MaxRequests)
    BY DEF Stream
  <2> QED
    BY <2>1 DEF Stream
<1> QED
  BY <1>3, <1>4, <1>5, <1>6, <1>7

-----------------------------------------------------------------------------
\* Updating one connection's stream, or resetting those of a set, keeps the type.
LEMMA StreamStep ==
    ASSUME stream \in [Conn -> Stream], NEW c \in Conn
    PROVE  /\ stream[c].sent < MaxRequests => [stream EXCEPT ![c].sent = @ + 1] \in [Conn -> Stream]
           /\ [stream EXCEPT ![c].cut = "no"] \in [Conn -> Stream]
           /\ HasMessage(stream[c]) \/ HasPiece(stream[c]) =>
                /\ [stream EXCEPT ![c].pos = @ + 1, ![c].last = stream[c].pos + 1] \in [Conn -> Stream]
                /\ [stream EXCEPT ![c].pos = @ + 1, ![c].last = @] \in [Conn -> Stream]
           /\ [stream EXCEPT ![c].answered = Append(@, stream[c].pos)] \in [Conn -> Stream]
<1>1. stream[c] \in Stream
  OBVIOUS
<1> DEFINE s == stream[c]
<1> HIDE DEF s
<1>2. s \in Stream
  BY <1>1 DEF s
<1>3. s.sent < MaxRequests => [s EXCEPT !.sent = @ + 1] \in Stream
  BY <1>2, StreamUpdates
<1>4. [s EXCEPT !.cut = "no"] \in Stream
  BY <1>2, StreamUpdates
<1>6. HasMessage(s) \/ HasPiece(s) => /\ [s EXCEPT !.pos = @ + 1, !.last = s.pos + 1] \in Stream
                       /\ [s EXCEPT !.pos = @ + 1, !.last = @] \in Stream
  BY <1>2, StreamUpdates
<1>7. [s EXCEPT !.answered = Append(@, s.pos)] \in Stream
  BY <1>2, StreamUpdates
<1>8. \A t \in Stream : [stream EXCEPT ![c] = t] \in [Conn -> Stream]
  OBVIOUS
<1> QED
  BY <1>3, <1>4, <1>6, <1>7, <1>8 DEF s

\* A request sent by a client only extends the stream.
LEMMA ClientSendKeeps ==
    ASSUME IInv, NEW c \in Conn, ClientSend(c)
    PROVE  IInv'
<1> USE DEF IInv
<1>1. TypeOK'
  BY StreamStep, NewStreamType DEF TypeOK, ClientSend
<1>2. Ownership'
  BY DEF TypeOK, Ownership, ClientSend
<1>3. Pooled'
  BY DEF TypeOK, Ownership, Pooled, ClientSend
<1>4. TimersGuardReads'
  BY DEF TypeOK, TimersGuardReads, ClientSend
<1>5. LockInv'
  BY DEF TypeOK, Ownership, LockInv, ClientSend
<1>6. FreshCloses'
  BY DEF TypeOK, Ownership, FreshCloses, ClientSend
<1>7. AcceptLoopAlive'
  BY DEF TypeOK, Ownership, AcceptLoopAlive, Up, Accepting, ClientSend
<1> QED
  BY <1>1, <1>2, <1>3, <1>4, <1>5, <1>6, <1>7

\* The accepted connection passes from the accept to the thread.
LEMMA RunAcceptKeeps ==
    ASSUME IInv, NEW w \in Worker, NEW c \in Conn, RunAccept(w, c)
    PROVE  IInv'
<1> USE DEF IInv
<1>1. TypeOK'
  BY DEF TypeOK, Op, Point, RunAccept, Dispatch
<1>2. Ownership'
  BY DEF TypeOK, Ownership, RunAccept, Dispatch
<1>3. Pooled'
  BY DEF TypeOK, Ownership, Pooled, RunAccept, Dispatch
<1>4. TimersGuardReads'
  BY DEF TypeOK, TimersGuardReads, RunAccept, Dispatch
<1>5. LockInv'
  BY DEF TypeOK, Ownership, LockInv, RunAccept, Dispatch
<1>6. FreshCloses'
  BY DEF TypeOK, Ownership, FreshCloses, Pooled, RunAccept, Dispatch
<1>7. AcceptLoopAlive'
  BY DEF TypeOK, Ownership, AcceptLoopAlive, Up, Accepting, RunAccept, Dispatch
<1> QED
  BY <1>1, <1>2, <1>3, <1>4, <1>5, <1>6, <1>7

\* The failed accept passes its fresh connection to the thread.
LEMMA RunAcceptErrorKeeps ==
    ASSUME IInv, NEW w \in Worker, NEW c \in Conn, RunAcceptError(w, c)
    PROVE  IInv'
<1> USE DEF IInv
<1>1. TypeOK'
  BY DEF TypeOK, Op, Point, RunAcceptError, Dispatch
<1>2. Ownership'
  BY DEF TypeOK, Ownership, RunAcceptError, Dispatch
<1>3. Pooled'
  BY DEF TypeOK, Ownership, Pooled, RunAcceptError, Dispatch
<1>4. TimersGuardReads'
  BY DEF TypeOK, TimersGuardReads, RunAcceptError, Dispatch
<1>5. LockInv'
  BY DEF TypeOK, Ownership, LockInv, RunAcceptError, Dispatch
<1>6. FreshCloses'
  BY DEF TypeOK, Ownership, FreshCloses, Pooled, RunAcceptError, Dispatch
<1>7. AcceptLoopAlive'
  BY DEF TypeOK, Ownership, AcceptLoopAlive, Up, Accepting, RunAcceptError, Dispatch
<1> QED
  BY <1>1, <1>2, <1>3, <1>4, <1>5, <1>6, <1>7

\* The thread keeps its connection while listen() posts the next accept on an unused one.
LEMMA ListenKeeps ==
    ASSUME IInv, NEW w \in Worker, NEW c \in Conn, Listen(w, c)
    PROVE  IInv'
<1> USE DEF IInv
<1>1. TypeOK'
  <2>1. stream' \in [Conn -> Stream]
    BY NewStreamType DEF TypeOK, Ownership, Listen, listen, Goto
  <2> QED
    BY <2>1 DEF TypeOK, Op, Point, Lifecycle, Listen, listen, Goto
<1>2. Ownership'
  BY DEF TypeOK, Ownership, Pooled, Unused, Referenced, Listen, listen, Goto
<1>3. Pooled'
  BY DEF TypeOK, Ownership, Pooled, Orphans, Referenced, Unused, Listen, listen, Goto
<1>4. TimersGuardReads'
  BY DEF TypeOK, Ownership, TimersGuardReads, Unused, Referenced, Listen, listen, Goto
<1>5. LockInv'
  BY DEF TypeOK, Ownership, LockInv, Orphans, Referenced, Listen, listen, Goto
<1>6. FreshCloses'
  BY DEF TypeOK, Ownership, FreshCloses, Pooled, Orphans, Referenced, Unused, Listen, listen, Goto
<1>7. AcceptLoopAlive'
  BY DEF TypeOK, Ownership, Pooled, AcceptLoopAlive, Up, Accepting, Unused, Referenced, Listen, listen, Goto
<1> QED
  BY <1>1, <1>2, <1>3, <1>4, <1>5, <1>6, <1>7

\* A connection is read again, or its buffered request is consumed under m_mutex.
LEMMA handleConnectionKeeps ==
    ASSUME IInv, NEW w \in Worker, handleConnection(w)
    PROVE  IInv'
<1> USE DEF IInv
<1>1. TypeOK'
  <2>1. stream' \in [Conn -> Stream]
    BY DEF TypeOK, Ownership, handleConnection, readBytesWithTimeout, Return, Goto
  <2> QED
    BY <2>1 DEF TypeOK, Ownership, Op, Point, Lifecycle, handleConnection, readBytesWithTimeout, Return, Goto
<1>2. Ownership'
  BY DEF TypeOK, Ownership, handleConnection, readBytesWithTimeout, Return, Goto
<1>3. Pooled'
  BY DEF TypeOK, Ownership, Pooled, handleConnection, readBytesWithTimeout, Return, Goto
<1>4. TimersGuardReads'
  BY DEF TypeOK, Ownership, TimersGuardReads, handleConnection, readBytesWithTimeout, Return, Goto
<1>5. LockInv'
  BY DEF TypeOK, Ownership, LockInv, handleConnection, readBytesWithTimeout, Return, Goto
<1>6. FreshCloses'
  BY DEF TypeOK, Ownership, FreshCloses, handleConnection, readBytesWithTimeout, Return, Goto
<1>7. AcceptLoopAlive'
  BY DEF TypeOK, Ownership, AcceptLoopAlive, Up, Accepting, handleConnection, readBytesWithTimeout, Return, Goto
<1> QED
  BY <1>1, <1>2, <1>3, <1>4, <1>5, <1>6, <1>7

\* The read passes the connection to the thread and cancels the timer.
LEMMA RunReadKeeps ==
    ASSUME IInv, NEW w \in Worker, NEW c \in Conn, NEW n \in 0..MaxRequests, NEW cut \in {"yes", "no"}, RunRead(w, c, n, cut)
    PROVE  IInv'
<1> USE DEF IInv
<1>1. TypeOK'
  <2>1. stream' \in [Conn -> Stream]
    <3>1. /\ Arrived(stream[c], n, cut)
          /\ stream' = [stream EXCEPT ![c].pos = stream[c].end, ![c].end = @ + n, ![c].cut = cut]
      BY DEF RunRead
    <3> DEFINE s == stream[c]
    <3>2. s \in Stream
      BY DEF TypeOK
    <3>3. [s EXCEPT !.pos = s.end, !.end = @ + n, !.cut = cut] \in Stream
      <4> HIDE DEF s
      <4>1. Arrived(s, n, cut)
        BY <3>1 DEF s
      <4> QED
        BY <3>2, <4>1, StreamUpdates
    <3>4. stream' = [stream EXCEPT ![c] = [s EXCEPT !.pos = s.end, !.end = @ + n, !.cut = cut]]
      BY <3>1
    <3> QED
      BY <3>3, <3>4 DEF TypeOK
  <2> QED
    BY <2>1 DEF TypeOK, Op, Point, RunRead, Dispatch, CancelTimer
<1>2. Ownership'
  BY DEF TypeOK, Ownership, RunRead, Dispatch, CancelTimer
<1>3. Pooled'
  BY DEF TypeOK, Ownership, Pooled, RunRead, Dispatch, CancelTimer
<1>4. TimersGuardReads'
  BY DEF TypeOK, TimersGuardReads, RunRead, Dispatch, CancelTimer
<1>5. LockInv'
  BY DEF TypeOK, Ownership, LockInv, RunRead, Dispatch, CancelTimer
<1>6. FreshCloses'
  BY DEF TypeOK, Ownership, FreshCloses, RunRead, Dispatch, CancelTimer
<1>7. AcceptLoopAlive'
  BY DEF TypeOK, Ownership, AcceptLoopAlive, Up, Accepting, RunRead, Dispatch, CancelTimer
<1> QED
  BY <1>1, <1>2, <1>3, <1>4, <1>5, <1>6, <1>7

\* A failed read passes the connection to the thread, to be closed.
LEMMA RunReadErrorKeeps ==
    ASSUME IInv, NEW w \in Worker, NEW c \in Conn, RunReadError(w, c)
    PROVE  IInv'
<1> USE DEF IInv
<1>1. TypeOK'
  BY DEF TypeOK, Op, Point, Lifecycle, RunReadError, Dispatch, CancelTimer
<1>2. Ownership'
  BY DEF TypeOK, Ownership, RunReadError, Dispatch, CancelTimer
<1>3. Pooled'
  BY DEF TypeOK, Ownership, Pooled, RunReadError, Dispatch, CancelTimer
<1>4. TimersGuardReads'
  BY DEF TypeOK, TimersGuardReads, RunReadError, Dispatch, CancelTimer
<1>5. LockInv'
  BY DEF TypeOK, Ownership, LockInv, RunReadError, Dispatch, CancelTimer
<1>6. FreshCloses'
  BY DEF TypeOK, Ownership, FreshCloses, RunReadError, Dispatch, CancelTimer
<1>7. AcceptLoopAlive'
  BY DEF TypeOK, Ownership, AcceptLoopAlive, Up, Accepting, RunReadError, Dispatch, CancelTimer
<1> QED
  BY <1>1, <1>2, <1>3, <1>4, <1>5, <1>6, <1>7

\* A running timer closes a connection that waits for a read, never a kept one.
LEMMA TimerFiresKeeps ==
    ASSUME IInv, NEW c \in Conn, TimerFires(c)
    PROVE  IInv'
<1> USE DEF IInv
<1>1. TypeOK'
  BY DEF TypeOK, TimerFires
<1>2. Ownership'
  BY DEF TypeOK, Ownership, TimerFires
<1>3. Pooled'
  BY DEF TypeOK, Ownership, Pooled, TimerFires
<1>4. TimersGuardReads'
  BY DEF TypeOK, TimersGuardReads, TimerFires
<1>5. LockInv'
  BY DEF TypeOK, Ownership, LockInv, TimersGuardReads, TimerFires
<1>6. FreshCloses'
  BY DEF TypeOK, Ownership, FreshCloses, TimerFires
<1>7. AcceptLoopAlive'
  BY DEF TypeOK, Ownership, AcceptLoopAlive, Up, Accepting, TimerFires
<1> QED
  BY <1>1, <1>2, <1>3, <1>4, <1>5, <1>6, <1>7

\* A cancelled timer only drops its reference.
LEMMA StaleTimerRunsKeeps ==
    ASSUME IInv, NEW c \in Conn, StaleTimerRuns(c)
    PROVE  IInv'
<1> USE DEF IInv
<1>1. TypeOK'
  BY DEF TypeOK, StaleTimerRuns
<1>2. Ownership'
  BY DEF TypeOK, Ownership, StaleTimerRuns
<1>3. Pooled'
  BY DEF TypeOK, Ownership, Pooled, StaleTimerRuns
<1>4. TimersGuardReads'
  BY DEF TypeOK, TimersGuardReads, StaleTimerRuns
<1>5. LockInv'
  BY DEF TypeOK, Ownership, LockInv, StaleTimerRuns
<1>6. FreshCloses'
  BY DEF TypeOK, Ownership, FreshCloses, StaleTimerRuns
<1>7. AcceptLoopAlive'
  BY DEF TypeOK, Ownership, AcceptLoopAlive, Up, Accepting, StaleTimerRuns
<1> QED
  BY <1>1, <1>2, <1>3, <1>4, <1>5, <1>6, <1>7

\* An incomplete request puts the connection back to reading.
LEMMA ConsumePieceKeeps ==
    ASSUME IInv, NEW w \in Worker, ConsumePiece(w)
    PROVE  IInv'
<1> USE DEF IInv
<1>1. TypeOK'
  <2>1. stream' \in [Conn -> Stream]
    BY StreamStep DEF TypeOK, Ownership, ConsumePiece, readBytesWithTimeout, Return
  <2> QED
    BY <2>1 DEF TypeOK, Ownership, Op, Point, ConsumePiece, readBytesWithTimeout, Return
<1>2. Ownership'
  BY DEF TypeOK, Ownership, ConsumePiece, readBytesWithTimeout, Return
<1>3. Pooled'
  BY DEF TypeOK, Ownership, Pooled, ConsumePiece, readBytesWithTimeout, Return
<1>4. TimersGuardReads'
  BY DEF TypeOK, Ownership, TimersGuardReads, ConsumePiece, readBytesWithTimeout, Return
<1>5. LockInv'
  BY DEF TypeOK, Ownership, LockInv, ConsumePiece, readBytesWithTimeout, Return
<1>6. FreshCloses'
  BY DEF TypeOK, Ownership, FreshCloses, ConsumePiece, readBytesWithTimeout, Return
<1>7. AcceptLoopAlive'
  BY DEF TypeOK, Ownership, AcceptLoopAlive, Up, Accepting, ConsumePiece, readBytesWithTimeout, Return
<1> QED
  BY <1>1, <1>2, <1>3, <1>4, <1>5, <1>6, <1>7

\* A parsed request sets the lifecycle of the thread's own connection.
LEMMA ConsumeMessageKeeps ==
    ASSUME IInv, NEW w \in Worker, NEW keepAlive \in BOOLEAN, ConsumeMessage(w, keepAlive)
    PROVE  IInv'
<1> USE DEF IInv
<1>1. TypeOK'
  BY StreamStep, NewStreamType DEF TypeOK, Ownership, Point, Lifecycle, ConsumeMessage, LifecycleAfter, Goto
<1>2. Ownership'
  BY DEF TypeOK, Ownership, ConsumeMessage, LifecycleAfter, Goto
<1>3. Pooled'
  BY DEF TypeOK, Ownership, Pooled, ConsumeMessage, LifecycleAfter, Goto
<1>4. TimersGuardReads'
  BY DEF TypeOK, TimersGuardReads, ConsumeMessage, LifecycleAfter, Goto
<1>5. LockInv'
  BY DEF TypeOK, Ownership, LockInv, ConsumeMessage, LifecycleAfter, Goto
<1>6. FreshCloses'
  BY DEF TypeOK, Ownership, FreshCloses, Pooled, ConsumeMessage, LifecycleAfter, Goto
<1>7. AcceptLoopAlive'
  BY DEF TypeOK, Ownership, AcceptLoopAlive, Up, Accepting, ConsumeMessage, LifecycleAfter, Goto
<1> QED
  BY <1>1, <1>2, <1>3, <1>4, <1>5, <1>6, <1>7

\* A malformed request makes the thread's own connection close.
LEMMA ConsumeBadMessageKeeps ==
    ASSUME IInv, NEW w \in Worker, ConsumeBadMessage(w)
    PROVE  IInv'
<1> USE DEF IInv
<1>1. TypeOK'
  BY StreamStep, NewStreamType DEF TypeOK, Ownership, Point, Lifecycle, ConsumeBadMessage, Goto
<1>2. Ownership'
  BY DEF TypeOK, Ownership, ConsumeBadMessage, Goto
<1>3. Pooled'
  BY DEF TypeOK, Ownership, Pooled, ConsumeBadMessage, Goto
<1>4. TimersGuardReads'
  BY DEF TypeOK, TimersGuardReads, ConsumeBadMessage, Goto
<1>5. LockInv'
  BY DEF TypeOK, Ownership, LockInv, ConsumeBadMessage, Goto
<1>6. FreshCloses'
  BY DEF TypeOK, Ownership, FreshCloses, ConsumeBadMessage, Goto
<1>7. AcceptLoopAlive'
  BY DEF TypeOK, Ownership, AcceptLoopAlive, Up, Accepting, ConsumeBadMessage, Goto
<1> QED
  BY <1>1, <1>2, <1>3, <1>4, <1>5, <1>6, <1>7

\* A handler with an answer only moves on.
LEMMA HandleAnswersKeeps ==
    ASSUME IInv, NEW w \in Worker, HandleAnswers(w)
    PROVE  IInv'
<1> USE DEF IInv
<1>1. TypeOK'
  BY DEF TypeOK, Point, HandleAnswers, Goto
<1>2. Ownership'
  BY DEF TypeOK, Ownership, HandleAnswers, Goto
<1>3. Pooled'
  BY DEF TypeOK, Ownership, Pooled, HandleAnswers, Goto
<1>4. TimersGuardReads'
  BY DEF TypeOK, TimersGuardReads, HandleAnswers, Goto
<1>5. LockInv'
  BY DEF TypeOK, Ownership, LockInv, HandleAnswers, Goto
<1>6. FreshCloses'
  BY DEF TypeOK, Ownership, FreshCloses, HandleAnswers, Goto
<1>7. AcceptLoopAlive'
  BY DEF TypeOK, Ownership, AcceptLoopAlive, Up, Accepting, HandleAnswers, Goto
<1> QED
  BY <1>1, <1>2, <1>3, <1>4, <1>5, <1>6, <1>7

\* A handler without an answer leaves the connection to nobody.
LEMMA HandleIgnoresKeeps ==
    ASSUME IInv, NEW w \in Worker, HandleIgnores(w)
    PROVE  IInv'
<1> USE DEF IInv
<1>1. TypeOK'
  BY DEF TypeOK, Point, HandleIgnores, Return
<1>2. Ownership'
  BY DEF TypeOK, Ownership, HandleIgnores, Return
<1>3. Pooled'
  BY DEF TypeOK, Ownership, Pooled, HandleIgnores, Return
<1>4. TimersGuardReads'
  BY DEF TypeOK, TimersGuardReads, HandleIgnores, Return
<1>5. LockInv'
  BY DEF TypeOK, Ownership, LockInv, HandleIgnores, Return
<1>6. FreshCloses'
  BY DEF TypeOK, Ownership, FreshCloses, HandleIgnores, Return
<1>7. AcceptLoopAlive'
  BY DEF TypeOK, Ownership, AcceptLoopAlive, Up, Accepting, HandleIgnores, Return
<1> QED
  BY <1>1, <1>2, <1>3, <1>4, <1>5, <1>6, <1>7

\* With m_mutex held the connection is open, so the write is posted.
LEMMA RespondKeeps ==
    ASSUME IInv, NEW w \in Worker, Respond(w)
    PROVE  IInv'
<1> USE DEF IInv
<1>1. TypeOK'
  <2>1. stream' \in [Conn -> Stream]
    <3>1. cur[w] \in Conn
      BY DEF TypeOK, Ownership, Respond
    <3>2. \/ stream' = stream
          \/ stream' = [stream EXCEPT ![cur[w]].answered = Append(@, stream[cur[w]].pos)]
      BY DEF Respond, Write
    <3>3. stream \in [Conn -> Stream]
      BY DEF TypeOK
    <3>4. [stream EXCEPT ![cur[w]].answered = Append(@, stream[cur[w]].pos)] \in [Conn -> Stream]
      BY <3>1, <3>3, StreamStep
    <3> QED
      BY <3>2, <3>3, <3>4
  <2> QED
    BY <2>1 DEF TypeOK, Op, Point, Lifecycle, Respond, Write, Return, Goto
<1>2. Ownership'
  BY DEF TypeOK, Ownership, Respond, Write, Return, Goto
<1>3. Pooled'
  BY DEF TypeOK, Ownership, Pooled, Respond, Write, Return, Goto
<1>4. TimersGuardReads'
  BY DEF TypeOK, Ownership, TimersGuardReads, Respond, Write, Return, Goto
<1>5. LockInv'
  BY DEF TypeOK, Ownership, LockInv, Respond, Write, Return, Goto
<1>6. FreshCloses'
  BY DEF TypeOK, Ownership, FreshCloses, Respond, Write, Return, Goto
<1>7. AcceptLoopAlive'
  <2>1. pc[w] \notin {"idle", "listenOK", "listenErr"} /\ cur[w] \in Conn /\ sock \in [Conn -> {"none", "open", "closed"}]
    BY DEF TypeOK, Ownership, Respond
  <2>2. CASE sock[cur[w]] = "open" /\ Write(w)
    BY <2>1, <2>2 DEF TypeOK, Ownership, AcceptLoopAlive, Up, Accepting, Write, Return
  <2>3. CASE life' = [life EXCEPT ![cur[w]] = "CLOSE"] /\ Goto(w, "finish") /\ UNCHANGED <<listening, ctl, lock, pool, sock, op, cur>>
    BY <2>1, <2>3 DEF TypeOK, Ownership, AcceptLoopAlive, Up, Accepting, Goto
  <2> QED
    BY <2>2, <2>3 DEF Respond
<1> QED
  BY <1>1, <1>2, <1>3, <1>4, <1>5, <1>6, <1>7

\* The 400 is posted, or the connection is left to nobody.
LEMMA ReportKeeps ==
    ASSUME IInv, NEW w \in Worker, Report(w)
    PROVE  IInv'
<1> USE DEF IInv
<1>1. TypeOK'
  <2>1. stream' \in [Conn -> Stream]
    <3>1. cur[w] \in Conn
      BY DEF TypeOK, Ownership, Report
    <3>2. \/ stream' = stream
          \/ stream' = [stream EXCEPT ![cur[w]].answered = Append(@, stream[cur[w]].pos)]
      BY DEF Report, Write
    <3>3. stream \in [Conn -> Stream]
      BY DEF TypeOK
    <3>4. [stream EXCEPT ![cur[w]].answered = Append(@, stream[cur[w]].pos)] \in [Conn -> Stream]
      BY <3>1, <3>3, StreamStep
    <3> QED
      BY <3>2, <3>3, <3>4
  <2> QED
    BY <2>1 DEF TypeOK, Op, Point, Report, Write, Return, Goto
<1>2. Ownership'
  BY DEF TypeOK, Ownership, Report, Write, Return, Goto
<1>3. Pooled'
  BY DEF TypeOK, Ownership, Pooled, Report, Write, Return, Goto
<1>4. TimersGuardReads'
  BY DEF TypeOK, Ownership, TimersGuardReads, Report, Write, Return, Goto
<1>5. LockInv'
  BY DEF TypeOK, Ownership, LockInv, Report, Write, Return, Goto
<1>6. FreshCloses'
  BY DEF TypeOK, Ownership, FreshCloses, Report, Write, Return, Goto
<1>7. AcceptLoopAlive'
  <2>1. pc[w] \notin {"idle", "listenOK", "listenErr"} /\ cur[w] \in Conn /\ sock \in [Conn -> {"none", "open", "closed"}]
    BY DEF TypeOK, Ownership, Report
  <2>2. CASE sock[cur[w]] = "open" /\ Write(w)
    BY <2>1, <2>2 DEF TypeOK, Ownership, AcceptLoopAlive, Up, Accepting, Write, Return
  <2>3. CASE Return(w) /\ UNCHANGED <<listening, ctl, pool, sock, life, op>>
    BY <2>1, <2>3 DEF TypeOK, Ownership, AcceptLoopAlive, Up, Accepting, Return
  <2> QED
    BY <2>2, <2>3 DEF Report
<1> QED
  BY <1>1, <1>2, <1>3, <1>4, <1>5, <1>6, <1>7

\* The write passes the connection, open if it is to be kept, to the thread.
LEMMA RunWriteKeeps ==
    ASSUME IInv, NEW w \in Worker, NEW c \in Conn, NEW ok \in BOOLEAN, RunWrite(w, c, ok)
    PROVE  IInv'
<1> USE DEF IInv
<1>1. TypeOK'
  BY DEF TypeOK, Op, Point, Lifecycle, RunWrite, Dispatch
<1>2. Ownership'
  BY DEF TypeOK, Ownership, RunWrite, Dispatch
<1>3. Pooled'
  BY DEF TypeOK, Ownership, Pooled, RunWrite, Dispatch
<1>4. TimersGuardReads'
  BY DEF TypeOK, TimersGuardReads, RunWrite, Dispatch
<1>5. LockInv'
  BY DEF TypeOK, Ownership, LockInv, RunWrite, Dispatch
<1>6. FreshCloses'
  BY DEF TypeOK, Ownership, FreshCloses, RunWrite, Dispatch
<1>7. AcceptLoopAlive'
  BY DEF TypeOK, Ownership, AcceptLoopAlive, Up, Accepting, RunWrite, Dispatch
<1> QED
  BY <1>1, <1>2, <1>3, <1>4, <1>5, <1>6, <1>7

\* finishConnection takes m_mutex for a connection that is open.
LEMMA KeepConnectionKeeps ==
    ASSUME IInv, NEW w \in Worker, KeepConnection(w)
    PROVE  IInv'
<1> USE DEF IInv
<1>1. TypeOK'
  BY DEF TypeOK, Point, KeepConnection, Goto
<1>2. Ownership'
  BY DEF TypeOK, Ownership, KeepConnection, Goto
<1>3. Pooled'
  BY DEF TypeOK, Ownership, Pooled, KeepConnection, Goto
<1>4. TimersGuardReads'
  BY DEF TypeOK, TimersGuardReads, KeepConnection, Goto
<1>5. LockInv'
  BY DEF TypeOK, Ownership, LockInv, KeptIsOpen, KeepConnection, Goto
<1>6. FreshCloses'
  BY DEF TypeOK, Ownership, FreshCloses, KeepConnection, Goto
<1>7. AcceptLoopAlive'
  BY DEF TypeOK, Ownership, AcceptLoopAlive, Up, Accepting, KeepConnection, Goto
<1> QED
  BY <1>1, <1>2, <1>3, <1>4, <1>5, <1>6, <1>7

\* finishConnection erases the thread's own connection.
LEMMA EraseConnectionKeeps ==
    ASSUME IInv, NEW w \in Worker, EraseConnection(w)
    PROVE  IInv'
<1> USE DEF IInv
<1>1. TypeOK'
  BY StreamStep, NewStreamType DEF TypeOK, Point, Lifecycle, EraseConnection, Erase, Return
<1>2. Ownership'
  BY DEF TypeOK, Ownership, EraseConnection, Erase, Return
<1>3. Pooled'
  BY DEF TypeOK, Ownership, Pooled, EraseConnection, Erase, Return
<1>4. TimersGuardReads'
  BY DEF TypeOK, TimersGuardReads, EraseConnection, Erase, Return
<1>5. LockInv'
  BY DEF TypeOK, Ownership, LockInv, EraseConnection, Erase, Return
<1>6. FreshCloses'
  BY DEF TypeOK, Ownership, FreshCloses, Pooled, EraseConnection, Erase, Return
<1>7. AcceptLoopAlive'
  BY DEF TypeOK, Ownership, AcceptLoopAlive, Up, Accepting, EraseConnection, Erase, Return
<1> QED
  BY <1>1, <1>2, <1>3, <1>4, <1>5, <1>6, <1>7

\* Starting only sets the flag.
LEMMA StartKeeps ==
    ASSUME IInv, NEW k \in Caller, Start(k)
    PROVE  IInv'
<1> USE DEF IInv
<1>1. TypeOK'
  BY DEF TypeOK, Ctl, Start
<1>2. Ownership'
  BY DEF TypeOK, Ownership, Start
<1>3. Pooled'
  BY DEF TypeOK, Ownership, Pooled, Start
<1>4. TimersGuardReads'
  BY DEF TypeOK, TimersGuardReads, Start
<1>5. LockInv'
  BY DEF TypeOK, Ownership, LockInv, Start
<1>6. FreshCloses'
  BY DEF TypeOK, Ownership, FreshCloses, Start
<1>7. AcceptLoopAlive'
  BY DEF TypeOK, Ownership, Pooled, AcceptLoopAlive, Up, Accepting, Start
<1> QED
  BY <1>1, <1>2, <1>3, <1>4, <1>5, <1>6, <1>7

\* start() posts an accept, unless it was stopped meanwhile.
LEMMA StartListenKeeps ==
    ASSUME IInv, NEW k \in Caller, NEW c \in Conn, StartListen(k, c)
    PROVE  IInv'
<1> USE DEF IInv
<1>1. TypeOK'
  <2>1. stream' \in [Conn -> Stream]
    BY NewStreamType DEF TypeOK, Ownership, StartListen, listen
  <2> QED
    BY <2>1 DEF TypeOK, Ctl, Op, Lifecycle, StartListen, listen
<1>2. Ownership'
  BY DEF TypeOK, Ownership, Pooled, Unused, Referenced, StartListen, listen
<1>3. Pooled'
  BY DEF TypeOK, Ownership, Pooled, Orphans, Referenced, Unused, StartListen, listen
<1>4. TimersGuardReads'
  BY DEF TypeOK, Ownership, TimersGuardReads, Unused, Referenced, StartListen, listen
<1>5. LockInv'
  BY DEF TypeOK, Ownership, LockInv, Orphans, Referenced, StartListen, listen
<1>6. FreshCloses'
  BY DEF TypeOK, Ownership, FreshCloses, Pooled, Orphans, Referenced, Unused, StartListen, listen
<1>7. AcceptLoopAlive'
  BY DEF TypeOK, Ownership, Pooled, AcceptLoopAlive, Up, Accepting, Unused, Referenced, StartListen, listen
<1> QED
  BY <1>1, <1>2, <1>3, <1>4, <1>5, <1>6, <1>7

\* stop() ends listening and prunes only connections that nobody works on.
LEMMA StopKeeps ==
    ASSUME IInv, NEW k \in Caller, NEW wait \in BOOLEAN, Stop(k, wait)
    PROVE  IInv'
<1> USE DEF IInv
<1>1. TypeOK'
  BY StreamStep, NewStreamType DEF TypeOK, Ctl, Point, Lifecycle, Stop
<1>2. Ownership'
  BY DEF TypeOK, Ownership, Unused, Referenced, Stop
<1>3. Pooled'
  BY DEF TypeOK, Ownership, Pooled, Orphans, Referenced, Unused, Stop
<1>4. TimersGuardReads'
  BY DEF TypeOK, TimersGuardReads, Unused, Referenced, Stop
<1>5. LockInv'
  BY DEF TypeOK, Ownership, LockInv, Orphans, Referenced, Stop
<1>6. FreshCloses'
  BY DEF TypeOK, Ownership, FreshCloses, Orphans, Referenced, Unused, Stop
<1>7. AcceptLoopAlive'
  BY DEF TypeOK, Ownership, Pooled, AcceptLoopAlive, Up, Accepting, Unused, Referenced, Stop
<1> QED
  BY <1>1, <1>2, <1>3, <1>4, <1>5, <1>6, <1>7

\* Pruning erases only connections that nobody works on.
LEMMA StopWakesKeeps ==
    ASSUME IInv, NEW k \in Caller, StopWakes(k)
    PROVE  IInv'
<1> USE DEF IInv
<1>1. TypeOK'
  BY StreamStep, NewStreamType DEF TypeOK, Ctl, Lifecycle, StopWakes, Erase
<1>2. Ownership'
  BY DEF TypeOK, Ownership, Unused, Referenced, StopWakes, Erase
<1>3. Pooled'
  BY DEF TypeOK, Ownership, Pooled, Orphans, Referenced, Unused, StopWakes, Erase
<1>4. TimersGuardReads'
  BY DEF TypeOK, TimersGuardReads, Unused, Referenced, StopWakes, Erase
<1>5. LockInv'
  BY DEF TypeOK, Ownership, LockInv, Orphans, Referenced, StopWakes, Erase
<1>6. FreshCloses'
  BY DEF TypeOK, Ownership, FreshCloses, Orphans, Referenced, Unused, StopWakes, Erase
<1>7. AcceptLoopAlive'
  BY DEF TypeOK, Ownership, Pooled, AcceptLoopAlive, Up, Accepting, Unused, Referenced, StopWakes, Erase
<1> QED
  BY <1>1, <1>2, <1>3, <1>4, <1>5, <1>6, <1>7

-----------------------------------------------------------------------------
\* Every step keeps the inductive invariant.
LEMMA NextKeeps ==
    ASSUME IInv, [Next]_vars
    PROVE  IInv'
<1>1. CASE \E c \in Conn : ClientSend(c)
  BY <1>1, ClientSendKeeps
<1>2. CASE \E w \in Worker, c \in Conn : Pick(w, c)
  <2>1. PICK w \in Worker, c \in Conn : Pick(w, c)
    BY <1>2
  <2>2. CASE RunAccept(w, c)
    BY <2>2, RunAcceptKeeps
  <2>3. CASE RunAcceptError(w, c)
    BY <2>3, RunAcceptErrorKeeps
  <2>4. CASE \E n \in 0..MaxRequests, cut \in {"yes", "no"} : RunRead(w, c, n, cut)
    <3>1. PICK n \in 0..MaxRequests, cut \in {"yes", "no"} : RunRead(w, c, n, cut)
      BY <2>4
    <3> QED
      BY <3>1, RunReadKeeps
  <2>5. CASE RunReadError(w, c)
    BY <2>5, RunReadErrorKeeps
  <2>6. CASE \E ok \in BOOLEAN : RunWrite(w, c, ok)
    BY <2>6, RunWriteKeeps
  <2> QED
    BY <2>1, <2>2, <2>3, <2>4, <2>5, <2>6 DEF Pick
<1>3. CASE \E w \in Worker : Run(w)
  <2>1. PICK w \in Worker : Run(w)
    BY <1>3
  <2>2. CASE \E c \in Conn : Listen(w, c)
    BY <2>2, ListenKeeps
  <2>3. CASE handleConnection(w)
    BY <2>3, handleConnectionKeeps
  <2>4. CASE ConsumePiece(w)
    BY <2>4, ConsumePieceKeeps
  <2>5. CASE \E keepAlive \in BOOLEAN : ConsumeMessage(w, keepAlive)
    BY <2>5, ConsumeMessageKeeps
  <2>6. CASE ConsumeBadMessage(w)
    BY <2>6, ConsumeBadMessageKeeps
  <2>7. CASE HandleAnswers(w)
    BY <2>7, HandleAnswersKeeps
  <2>8. CASE HandleIgnores(w)
    BY <2>8, HandleIgnoresKeeps
  <2>9. CASE Respond(w)
    BY <2>9, RespondKeeps
  <2>10. CASE Report(w)
    BY <2>10, ReportKeeps
  <2>11. CASE KeepConnection(w)
    BY <2>11, KeepConnectionKeeps
  <2>12. CASE EraseConnection(w)
    BY <2>12, EraseConnectionKeeps
  <2> QED
    BY <2>1, <2>2, <2>3, <2>4, <2>5, <2>6, <2>7, <2>8, <2>9, <2>10, <2>11, <2>12 DEF Run
<1>4. CASE \E c \in Conn : Timer(c)
  BY <1>4, TimerFiresKeeps, StaleTimerRunsKeeps DEF Timer
<1>5. CASE \E k \in Caller : Control(k)
  BY <1>5, StartKeeps, StartListenKeeps, StopKeeps, StopWakesKeeps DEF Control
<1>6. CASE UNCHANGED vars
  BY <1>6 DEF vars, IInv, TypeOK, Ownership, Pooled, TimersGuardReads, LockInv,
              FreshCloses, AcceptLoopAlive, Up, Accepting
<1> QED
  BY <1>1, <1>2, <1>3, <1>4, <1>5, <1>6 DEF Next

\* The server starts in a state that satisfies the inductive invariant.
LEMMA InitKeeps == Init => IInv
<1> SUFFICES ASSUME Init
             PROVE  IInv
  OBVIOUS
<1>1. TypeOK
  BY NewStreamType DEF Init, TypeOK, Ctl, Lifecycle, Op, Point
<1>2. Ownership /\ Pooled /\ TimersGuardReads /\ LockInv /\ FreshCloses
  BY DEF Init, Ownership, Pooled, TimersGuardReads, LockInv, FreshCloses
<1>3. AcceptLoopAlive
  BY DEF Init, AcceptLoopAlive, Up
<1> QED
  BY <1>1, <1>2, <1>3 DEF IInv

\* The inductive invariant holds of every behaviour of the server.
THEOREM Inductive == Spec => []IInv
  BY InitKeeps, NextKeeps, PTL DEF Spec

\* Every variable keeps its type.
THEOREM TypeCorrect == Spec => []TypeOK
  BY Inductive, PTL DEF IInv

\* No connection is ever served by two threads, or by a thread while one of its
\* asynchronous operations is outstanding.
THEOREM SingleOwner == Spec => []OneOwner
<1>1. IInv => OneOwner
  BY DEF IInv, Ownership, OneOwner
<1> QED
  BY <1>1, Inductive, PTL

\* When every start() and stop() has returned and the server is down, nothing of it
\* is running.
THEOREM QuietAfterStop == Spec => []QuietWhenDown
<1>1. IInv => QuietWhenDown
  BY DEF IInv, TypeOK, Ownership, Pooled, LockInv, NoCall, QuietWhenDown
<1> QED
  BY <1>1, Inductive, PTL

\* While the server is up its accept loop does not die, however the calls of start()
\* and stop() overlap.
THEOREM AcceptLoopLives == Spec => []AcceptLoopAlive
  BY Inductive, PTL DEF IInv

\* While the server listens no step closes a busy connection.
THEOREM TimersSpareResponses == Spec => BusyStaysOpen
<1> DEFINE Spared == \A c \in Conn :
                listening /\ listening' /\ sock[c] = "open" /\ Busy(c) => sock'[c] = "open"
<1>1. IInv /\ [Next]_vars => [Spared]_vars
  <2> SUFFICES ASSUME IInv, Next, NEW c \in Conn,
                      listening, listening', sock[c] = "open", Busy(c)
               PROVE  sock'[c] = "open"
    OBVIOUS
  <2> USE DEF IInv
  <2>1. c \notin Orphans /\ c \notin armed /\ op[c] # "accept"
    BY DEF Busy, Orphans, Referenced, Ownership, TimersGuardReads
  <2>2. CASE \E d \in Conn : ClientSend(d)
    BY <2>2 DEF ClientSend
  <2>3. CASE \E w \in Worker, d \in Conn : Pick(w, d)
    BY <2>1, <2>3 DEF Pick, RunAccept, RunAcceptError, RunRead, RunReadError, RunWrite, TypeOK
  <2>4. CASE \E w \in Worker : Run(w)
    <3>1. PICK w \in Worker : Run(w)
      BY <2>4
    <3>2. CASE \E d \in Conn : Listen(w, d)
      BY <2>1, <3>2 DEF Listen, listen
    <3>3. CASE EraseConnection(w)
      BY <3>3 DEF EraseConnection, Erase, Busy, TypeOK, Ownership
    <3> QED
      BY <3>1, <3>2, <3>3 DEF Run, handleConnection, ConsumePiece, ConsumeMessage,
         ConsumeBadMessage, HandleAnswers, HandleIgnores, Respond, Report, Write, KeepConnection
  <2>5. CASE \E d \in Conn : Timer(d)
    BY <2>1, <2>5 DEF Timer, TimerFires, StaleTimerRuns, TypeOK
  <2>6. CASE \E k \in Caller : Control(k)
    BY <2>1, <2>6 DEF Control, Start, StartListen, listen, Stop, StopWakes, Erase
  <2> QED
    BY <2>2, <2>3, <2>4, <2>5, <2>6 DEF Next
<1> QED
  BY <1>1, Inductive, PTL DEF Spec, BusyStaysOpen

-----------------------------------------------------------------------------
(* What holds while calls of start() and stop() do not overlap.            *)

\* The same steps once more, for the rest of SerialInv.
LEMMA ClientSendSerial ==
    ASSUME IInv, SerialInv, NEW c \in Conn, ClientSend(c)
    PROVE  SerialInv'
<1> USE DEF IInv, SerialInv
<1>1. CallsEmpty'
  BY DEF TypeOK, Ownership, Pooled, CallsEmpty, CallsApart, ClientSend
<1>2. LockOpen'
  BY DEF TypeOK, Ownership, LockInv, LockOpen, KeptIsOpen, ClientSend
<1>3. KeptIsOpen'
  BY DEF TypeOK, Ownership, KeptIsOpen, ClientSend
<1>4. AcceptLoopIntact'
  BY DEF TypeOK, Ownership, AcceptLoopIntact, Up, Accepting, ClientSend
<1> QED
  BY <1>1, <1>2, <1>3, <1>4

LEMMA RunAcceptSerial ==
    ASSUME IInv, SerialInv, NEW w \in Worker, NEW c \in Conn, RunAccept(w, c)
    PROVE  SerialInv'
<1> USE DEF IInv, SerialInv
<1>1. CallsEmpty'
  BY DEF TypeOK, Ownership, Pooled, CallsEmpty, CallsApart, RunAccept, Dispatch
<1>2. LockOpen'
  BY DEF TypeOK, Ownership, LockInv, LockOpen, KeptIsOpen, RunAccept, Dispatch
<1>3. KeptIsOpen'
  BY DEF TypeOK, Ownership, KeptIsOpen, RunAccept, Dispatch
<1>4. AcceptLoopIntact'
  BY DEF TypeOK, Ownership, AcceptLoopIntact, Up, Accepting, RunAccept, Dispatch
<1> QED
  BY <1>1, <1>2, <1>3, <1>4

LEMMA RunAcceptErrorSerial ==
    ASSUME IInv, SerialInv, NEW w \in Worker, NEW c \in Conn, RunAcceptError(w, c)
    PROVE  SerialInv'
<1> USE DEF IInv, SerialInv
<1>1. CallsEmpty'
  BY DEF TypeOK, Ownership, Pooled, CallsEmpty, CallsApart, RunAcceptError, Dispatch
<1>2. LockOpen'
  BY DEF TypeOK, Ownership, LockInv, LockOpen, KeptIsOpen, RunAcceptError, Dispatch
<1>3. KeptIsOpen'
  BY DEF TypeOK, Ownership, KeptIsOpen, FreshCloses, RunAcceptError, Dispatch
<1>4. AcceptLoopIntact'
  BY DEF TypeOK, Ownership, AcceptLoopIntact, Up, Accepting, RunAcceptError, Dispatch
<1> QED
  BY <1>1, <1>2, <1>3, <1>4

LEMMA ListenSerial ==
    ASSUME IInv, SerialInv, NEW w \in Worker, NEW c \in Conn, Listen(w, c)
    PROVE  SerialInv'
<1> USE DEF IInv, SerialInv
<1>1. CallsEmpty'
  BY DEF TypeOK, Ownership, Pooled, CallsEmpty, CallsApart, Orphans, Referenced, Listen, listen, Goto
<1>2. LockOpen'
  BY DEF TypeOK, Ownership, LockInv, LockOpen, KeptIsOpen, Orphans, Referenced, Listen, listen, Goto
<1>3. KeptIsOpen'
  BY DEF TypeOK, Ownership, KeptIsOpen, FreshCloses, Orphans, Referenced, Listen, listen, Goto
<1>4. AcceptLoopIntact'
  BY DEF TypeOK, Ownership, Pooled, AcceptLoopIntact, Up, Accepting, Unused, Referenced, Listen, listen, Goto
<1> QED
  BY <1>1, <1>2, <1>3, <1>4

LEMMA handleConnectionSerial ==
    ASSUME IInv, SerialInv, NEW w \in Worker, handleConnection(w)
    PROVE  SerialInv'
<1> USE DEF IInv, SerialInv
<1>1. CallsEmpty'
  BY DEF TypeOK, Ownership, Pooled, CallsEmpty, CallsApart, handleConnection, readBytesWithTimeout, Return, Goto
<1>2. LockOpen'
  BY DEF TypeOK, Ownership, LockInv, LockOpen, KeptIsOpen, handleConnection, readBytesWithTimeout, Return, Goto
<1>3. KeptIsOpen'
  BY DEF TypeOK, Ownership, KeptIsOpen, handleConnection, readBytesWithTimeout, Return, Goto
<1>4. AcceptLoopIntact'
  BY DEF TypeOK, Ownership, AcceptLoopIntact, Up, Accepting, handleConnection, readBytesWithTimeout, Return, Goto
<1> QED
  BY <1>1, <1>2, <1>3, <1>4

LEMMA RunReadSerial ==
    ASSUME IInv, SerialInv, NEW w \in Worker, NEW c \in Conn, NEW n \in 0..MaxRequests, NEW cut \in {"yes", "no"}, RunRead(w, c, n, cut)
    PROVE  SerialInv'
<1> USE DEF IInv, SerialInv
<1>1. CallsEmpty'
  BY DEF TypeOK, Ownership, Pooled, CallsEmpty, CallsApart, RunRead, Dispatch, CancelTimer
<1>2. LockOpen'
  BY DEF TypeOK, Ownership, LockInv, LockOpen, KeptIsOpen, RunRead, Dispatch, CancelTimer
<1>3. KeptIsOpen'
  BY DEF TypeOK, Ownership, KeptIsOpen, RunRead, Dispatch, CancelTimer
<1>4. AcceptLoopIntact'
  BY DEF TypeOK, Ownership, AcceptLoopIntact, Up, Accepting, RunRead, Dispatch, CancelTimer
<1> QED
  BY <1>1, <1>2, <1>3, <1>4

LEMMA RunReadErrorSerial ==
    ASSUME IInv, SerialInv, NEW w \in Worker, NEW c \in Conn, RunReadError(w, c)
    PROVE  SerialInv'
<1> USE DEF IInv, SerialInv
<1>1. CallsEmpty'
  BY DEF TypeOK, Ownership, Pooled, CallsEmpty, CallsApart, RunReadError, Dispatch, CancelTimer
<1>2. LockOpen'
  BY DEF TypeOK, Ownership, LockInv, LockOpen, KeptIsOpen, RunReadError, Dispatch, CancelTimer
<1>3. KeptIsOpen'
  BY DEF TypeOK, Ownership, KeptIsOpen, RunReadError, Dispatch, CancelTimer
<1>4. AcceptLoopIntact'
  BY DEF TypeOK, Ownership, AcceptLoopIntact, Up, Accepting, RunReadError, Dispatch, CancelTimer
<1> QED
  BY <1>1, <1>2, <1>3, <1>4

\* A timer closes a connection that waits for a read, never one m_mutex is kept for.
LEMMA TimerFiresSerial ==
    ASSUME IInv, SerialInv, NEW c \in Conn, TimerFires(c)
    PROVE  SerialInv'
<1> USE DEF IInv, SerialInv
<1>1. CallsEmpty'
  BY DEF TypeOK, Ownership, Pooled, CallsEmpty, CallsApart, TimerFires
<1>2. LockOpen'
  BY DEF TypeOK, Ownership, LockInv, LockOpen, KeptIsOpen, TimersGuardReads, TimerFires
<1>3. KeptIsOpen'
  BY DEF TypeOK, Ownership, KeptIsOpen, TimersGuardReads, TimerFires
<1>4. AcceptLoopIntact'
  BY DEF TypeOK, Ownership, AcceptLoopIntact, Up, Accepting, TimerFires
<1> QED
  BY <1>1, <1>2, <1>3, <1>4

LEMMA StaleTimerRunsSerial ==
    ASSUME IInv, SerialInv, NEW c \in Conn, StaleTimerRuns(c)
    PROVE  SerialInv'
<1> USE DEF IInv, SerialInv
<1>1. CallsEmpty'
  BY DEF TypeOK, Ownership, Pooled, CallsEmpty, CallsApart, StaleTimerRuns
<1>2. LockOpen'
  BY DEF TypeOK, Ownership, LockInv, LockOpen, KeptIsOpen, StaleTimerRuns
<1>3. KeptIsOpen'
  BY DEF TypeOK, Ownership, KeptIsOpen, StaleTimerRuns
<1>4. AcceptLoopIntact'
  BY DEF TypeOK, Ownership, AcceptLoopIntact, Up, Accepting, StaleTimerRuns
<1> QED
  BY <1>1, <1>2, <1>3, <1>4

LEMMA ConsumePieceSerial ==
    ASSUME IInv, SerialInv, NEW w \in Worker, ConsumePiece(w)
    PROVE  SerialInv'
<1> USE DEF IInv, SerialInv
<1>1. CallsEmpty'
  BY DEF TypeOK, Ownership, Pooled, CallsEmpty, CallsApart, ConsumePiece, readBytesWithTimeout, Return
<1>2. LockOpen'
  BY DEF TypeOK, Ownership, LockInv, LockOpen, KeptIsOpen, ConsumePiece, readBytesWithTimeout, Return
<1>3. KeptIsOpen'
  BY DEF TypeOK, Ownership, KeptIsOpen, ConsumePiece, readBytesWithTimeout, Return
<1>4. AcceptLoopIntact'
  BY DEF TypeOK, Ownership, AcceptLoopIntact, Up, Accepting, ConsumePiece, readBytesWithTimeout, Return
<1> QED
  BY <1>1, <1>2, <1>3, <1>4

LEMMA ConsumeMessageSerial ==
    ASSUME IInv, SerialInv, NEW w \in Worker, NEW keepAlive \in BOOLEAN, ConsumeMessage(w, keepAlive)
    PROVE  SerialInv'
<1> USE DEF IInv, SerialInv
<1>1. CallsEmpty'
  BY DEF TypeOK, Ownership, Pooled, CallsEmpty, CallsApart, ConsumeMessage, LifecycleAfter, Goto
<1>2. LockOpen'
  BY DEF TypeOK, Ownership, LockInv, LockOpen, KeptIsOpen, ConsumeMessage, LifecycleAfter, Goto
<1>3. KeptIsOpen'
  BY DEF TypeOK, Ownership, KeptIsOpen, ConsumeMessage, LifecycleAfter, Goto
<1>4. AcceptLoopIntact'
  BY DEF TypeOK, Ownership, AcceptLoopIntact, Up, Accepting, ConsumeMessage, LifecycleAfter, Goto
<1> QED
  BY <1>1, <1>2, <1>3, <1>4

LEMMA ConsumeBadMessageSerial ==
    ASSUME IInv, SerialInv, NEW w \in Worker, ConsumeBadMessage(w)
    PROVE  SerialInv'
<1> USE DEF IInv, SerialInv
<1>1. CallsEmpty'
  BY DEF TypeOK, Ownership, Pooled, CallsEmpty, CallsApart, ConsumeBadMessage, Goto
<1>2. LockOpen'
  BY DEF TypeOK, Ownership, LockInv, LockOpen, KeptIsOpen, ConsumeBadMessage, Goto
<1>3. KeptIsOpen'
  BY DEF TypeOK, Ownership, KeptIsOpen, ConsumeBadMessage, Goto
<1>4. AcceptLoopIntact'
  BY DEF TypeOK, Ownership, AcceptLoopIntact, Up, Accepting, ConsumeBadMessage, Goto
<1> QED
  BY <1>1, <1>2, <1>3, <1>4

LEMMA HandleAnswersSerial ==
    ASSUME IInv, SerialInv, NEW w \in Worker, HandleAnswers(w)
    PROVE  SerialInv'
<1> USE DEF IInv, SerialInv
<1>1. CallsEmpty'
  BY DEF TypeOK, Ownership, Pooled, CallsEmpty, CallsApart, HandleAnswers, Goto
<1>2. LockOpen'
  BY DEF TypeOK, Ownership, LockInv, LockOpen, KeptIsOpen, HandleAnswers, Goto
<1>3. KeptIsOpen'
  BY DEF TypeOK, Ownership, KeptIsOpen, HandleAnswers, Goto
<1>4. AcceptLoopIntact'
  BY DEF TypeOK, Ownership, AcceptLoopIntact, Up, Accepting, HandleAnswers, Goto
<1> QED
  BY <1>1, <1>2, <1>3, <1>4

LEMMA HandleIgnoresSerial ==
    ASSUME IInv, SerialInv, NEW w \in Worker, HandleIgnores(w)
    PROVE  SerialInv'
<1> USE DEF IInv, SerialInv
<1>1. CallsEmpty'
  BY DEF TypeOK, Ownership, Pooled, CallsEmpty, CallsApart, HandleIgnores, Return
<1>2. LockOpen'
  BY DEF TypeOK, Ownership, LockInv, LockOpen, KeptIsOpen, HandleIgnores, Return
<1>3. KeptIsOpen'
  BY DEF TypeOK, Ownership, KeptIsOpen, HandleIgnores, Return
<1>4. AcceptLoopIntact'
  BY DEF TypeOK, Ownership, AcceptLoopIntact, Up, Accepting, HandleIgnores, Return
<1> QED
  BY <1>1, <1>2, <1>3, <1>4

LEMMA RespondSerial ==
    ASSUME IInv, SerialInv, NEW w \in Worker, Respond(w)
    PROVE  SerialInv'
<1> USE DEF IInv, SerialInv
<1>1. CallsEmpty'
  BY DEF TypeOK, Ownership, Pooled, CallsEmpty, CallsApart, Respond, Write, Return, Goto
<1>2. LockOpen'
  BY DEF TypeOK, Ownership, LockInv, LockOpen, KeptIsOpen, Respond, Write, Return, Goto
<1>3. KeptIsOpen'
  <2>1. pc[w] \notin {"idle", "listenOK", "listenErr"} /\ cur[w] \in Conn /\ sock \in [Conn -> {"none", "open", "closed"}]
    BY DEF TypeOK, Ownership, Respond
  <2>2. CASE sock[cur[w]] = "open" /\ Write(w)
    BY <2>1, <2>2 DEF TypeOK, Ownership, KeptIsOpen, Write, Return
  <2>3. CASE life' = [life EXCEPT ![cur[w]] = "CLOSE"] /\ Goto(w, "finish") /\ UNCHANGED <<listening, ctl, lock, pool, sock, op, cur>>
    BY <2>1, <2>3 DEF TypeOK, Ownership, KeptIsOpen, Goto
  <2> QED
    BY <2>2, <2>3 DEF Respond
<1>4. AcceptLoopIntact'
  <2>1. pc[w] \notin {"idle", "listenOK", "listenErr"} /\ cur[w] \in Conn /\ sock \in [Conn -> {"none", "open", "closed"}]
    BY DEF TypeOK, Ownership, Respond
  <2>2. CASE sock[cur[w]] = "open" /\ Write(w)
    BY <2>1, <2>2 DEF TypeOK, Ownership, AcceptLoopIntact, Up, Accepting, Write, Return
  <2>3. CASE life' = [life EXCEPT ![cur[w]] = "CLOSE"] /\ Goto(w, "finish") /\ UNCHANGED <<listening, ctl, lock, pool, sock, op, cur>>
    BY <2>1, <2>3 DEF TypeOK, Ownership, AcceptLoopIntact, Up, Accepting, Goto
  <2> QED
    BY <2>2, <2>3 DEF Respond
<1> QED
  BY <1>1, <1>2, <1>3, <1>4

LEMMA ReportSerial ==
    ASSUME IInv, SerialInv, NEW w \in Worker, Report(w)
    PROVE  SerialInv'
<1> USE DEF IInv, SerialInv
<1>1. CallsEmpty'
  BY DEF TypeOK, Ownership, Pooled, CallsEmpty, CallsApart, Report, Write, Return, Goto
<1>2. LockOpen'
  BY DEF TypeOK, Ownership, LockInv, LockOpen, KeptIsOpen, Report, Write, Return, Goto
<1>3. KeptIsOpen'
  <2>1. pc[w] \notin {"idle", "listenOK", "listenErr"} /\ cur[w] \in Conn /\ sock \in [Conn -> {"none", "open", "closed"}]
    BY DEF TypeOK, Ownership, Report
  <2>2. CASE sock[cur[w]] = "open" /\ Write(w)
    BY <2>1, <2>2 DEF TypeOK, Ownership, KeptIsOpen, Write, Return
  <2>3. CASE Return(w) /\ UNCHANGED <<listening, ctl, pool, sock, life, op>>
    BY <2>1, <2>3 DEF TypeOK, Ownership, KeptIsOpen, Return
  <2> QED
    BY <2>2, <2>3 DEF Report
<1>4. AcceptLoopIntact'
  <2>1. pc[w] \notin {"idle", "listenOK", "listenErr"} /\ cur[w] \in Conn /\ sock \in [Conn -> {"none", "open", "closed"}]
    BY DEF TypeOK, Ownership, Report
  <2>2. CASE sock[cur[w]] = "open" /\ Write(w)
    BY <2>1, <2>2 DEF TypeOK, Ownership, AcceptLoopIntact, Up, Accepting, Write, Return
  <2>3. CASE Return(w) /\ UNCHANGED <<listening, ctl, pool, sock, life, op>>
    BY <2>1, <2>3 DEF TypeOK, Ownership, AcceptLoopIntact, Up, Accepting, Return
  <2> QED
    BY <2>2, <2>3 DEF Report
<1> QED
  BY <1>1, <1>2, <1>3, <1>4

LEMMA RunWriteSerial ==
    ASSUME IInv, SerialInv, NEW w \in Worker, NEW c \in Conn, NEW ok \in BOOLEAN, RunWrite(w, c, ok)
    PROVE  SerialInv'
<1> USE DEF IInv, SerialInv
<1>1. CallsEmpty'
  BY DEF TypeOK, Ownership, Pooled, CallsEmpty, CallsApart, RunWrite, Dispatch
<1>2. LockOpen'
  BY DEF TypeOK, Ownership, LockInv, LockOpen, KeptIsOpen, RunWrite, Dispatch
<1>3. KeptIsOpen'
  BY DEF TypeOK, Ownership, KeptIsOpen, RunWrite, Dispatch
<1>4. AcceptLoopIntact'
  BY DEF TypeOK, Ownership, AcceptLoopIntact, Up, Accepting, RunWrite, Dispatch
<1> QED
  BY <1>1, <1>2, <1>3, <1>4

\* m_mutex is kept only for a connection that is open.
LEMMA KeepConnectionSerial ==
    ASSUME IInv, SerialInv, NEW w \in Worker, KeepConnection(w)
    PROVE  SerialInv'
<1> USE DEF IInv, SerialInv
<1>1. CallsEmpty'
  BY DEF TypeOK, Ownership, Pooled, CallsEmpty, CallsApart, KeptIsOpen, KeepConnection, Goto
<1>2. LockOpen'
  BY DEF TypeOK, Ownership, LockInv, LockOpen, KeptIsOpen, KeptIsOpen, KeepConnection, Goto
<1>3. KeptIsOpen'
  BY DEF TypeOK, Ownership, KeptIsOpen, KeepConnection, Goto
<1>4. AcceptLoopIntact'
  BY DEF TypeOK, Ownership, AcceptLoopIntact, Up, Accepting, KeepConnection, Goto
<1> QED
  BY <1>1, <1>2, <1>3, <1>4

LEMMA EraseConnectionSerial ==
    ASSUME IInv, SerialInv, NEW w \in Worker, EraseConnection(w)
    PROVE  SerialInv'
<1> USE DEF IInv, SerialInv
<1>1. CallsEmpty'
  BY DEF TypeOK, Ownership, Pooled, CallsEmpty, CallsApart, EraseConnection, Erase, Return
<1>2. LockOpen'
  BY DEF TypeOK, Ownership, LockInv, LockOpen, KeptIsOpen, EraseConnection, Erase, Return
<1>3. KeptIsOpen'
  BY DEF TypeOK, Ownership, KeptIsOpen, EraseConnection, Erase, Return
<1>4. AcceptLoopIntact'
  BY DEF TypeOK, Ownership, AcceptLoopIntact, Up, Accepting, EraseConnection, Erase, Return
<1> QED
  BY <1>1, <1>2, <1>3, <1>4

\* start() finds an empty pool: no stop() is waiting for it to become empty.
LEMMA StartSerial ==
    ASSUME IInv, SerialInv, CallsApart', NEW k \in Caller, Start(k)
    PROVE  SerialInv'
<1> USE DEF IInv, SerialInv
<1>1. CallsEmpty'
  BY DEF TypeOK, Ownership, Pooled, CallsEmpty, CallsApart, Start
<1>2. LockOpen'
  BY DEF TypeOK, Ownership, LockInv, LockOpen, KeptIsOpen, CallsEmpty, Start
<1>3. KeptIsOpen'
  <2>1. pool = {}
    BY DEF TypeOK, Pooled, CallsApart, Ctl, Start
  <2> QED
    BY <2>1 DEF TypeOK, Ownership, Pooled, KeptIsOpen, Start
<1>4. AcceptLoopIntact'
  BY DEF TypeOK, Ownership, Pooled, AcceptLoopIntact, CallsEmpty, Up, Accepting, Start
<1> QED
  BY <1>1, <1>2, <1>3, <1>4

\* start() posts the first and only accept: the pool is still empty.
LEMMA StartListenSerial ==
    ASSUME IInv, SerialInv, CallsApart, NEW k \in Caller, NEW c \in Conn, StartListen(k, c)
    PROVE  SerialInv'
<1> USE DEF IInv, SerialInv
<1>1. CallsEmpty'
  BY DEF TypeOK, Ownership, Pooled, CallsEmpty, CallsApart, Orphans, Referenced, StartListen, listen
<1>2. LockOpen'
  BY DEF TypeOK, Ownership, LockInv, LockOpen, KeptIsOpen, CallsEmpty, Orphans, Referenced, StartListen, listen
<1>3. KeptIsOpen'
  BY DEF TypeOK, Ownership, KeptIsOpen, CallsEmpty, Orphans, Referenced, StartListen, listen
<1>4. AcceptLoopIntact'
  BY DEF TypeOK, Ownership, Pooled, AcceptLoopIntact, CallsEmpty, Up, Accepting, Unused, Referenced, StartListen, listen
<1> QED
  BY <1>1, <1>2, <1>3, <1>4

LEMMA StopSerial ==
    ASSUME IInv, SerialInv, NEW k \in Caller, NEW wait \in BOOLEAN, Stop(k, wait)
    PROVE  SerialInv'
<1> USE DEF IInv, SerialInv
<1>1. CallsEmpty'
  BY DEF TypeOK, Ownership, Pooled, CallsEmpty, CallsApart, Orphans, Referenced, Stop
<1>2. LockOpen'
  BY DEF TypeOK, Ownership, LockInv, LockOpen, KeptIsOpen, CallsEmpty, Orphans, Referenced, Stop
<1>3. KeptIsOpen'
  BY DEF TypeOK, Ownership, KeptIsOpen, CallsEmpty, Orphans, Referenced, Stop
<1>4. AcceptLoopIntact'
  BY DEF TypeOK, Ownership, Pooled, AcceptLoopIntact, CallsEmpty, Up, Accepting, Unused, Referenced, Stop
<1> QED
  BY <1>1, <1>2, <1>3, <1>4

LEMMA StopWakesSerial ==
    ASSUME IInv, SerialInv, NEW k \in Caller, StopWakes(k)
    PROVE  SerialInv'
<1> USE DEF IInv, SerialInv
<1>1. CallsEmpty'
  BY DEF TypeOK, Ownership, Pooled, CallsEmpty, CallsApart, Orphans, Referenced, StopWakes, Erase
<1>2. LockOpen'
  BY DEF TypeOK, Ownership, LockInv, LockOpen, KeptIsOpen, CallsEmpty, Orphans, Referenced, StopWakes, Erase
<1>3. KeptIsOpen'
  BY DEF TypeOK, Ownership, KeptIsOpen, CallsEmpty, Orphans, Referenced, StopWakes, Erase
<1>4. AcceptLoopIntact'
  BY DEF TypeOK, Ownership, Pooled, AcceptLoopIntact, CallsEmpty, Up, Accepting, Unused, Referenced, StopWakes, Erase
<1> QED
  BY <1>1, <1>2, <1>3, <1>4

\* Every step keeps the serial invariant.
LEMMA NextSerial ==
    ASSUME IInv, SerialInv, CallsApart, CallsApart', [Next]_vars
    PROVE  SerialInv'
<1>1. CASE \E c \in Conn : ClientSend(c)
  BY <1>1, ClientSendSerial
<1>2. CASE \E w \in Worker, c \in Conn : Pick(w, c)
  <2>1. PICK w \in Worker, c \in Conn : Pick(w, c)
    BY <1>2
  <2>2. CASE RunAccept(w, c)
    BY <2>2, RunAcceptSerial
  <2>3. CASE RunAcceptError(w, c)
    BY <2>3, RunAcceptErrorSerial
  <2>4. CASE \E n \in 0..MaxRequests, cut \in {"yes", "no"} : RunRead(w, c, n, cut)
    <3>1. PICK n \in 0..MaxRequests, cut \in {"yes", "no"} : RunRead(w, c, n, cut)
      BY <2>4
    <3> QED
      BY <3>1, RunReadSerial
  <2>5. CASE RunReadError(w, c)
    BY <2>5, RunReadErrorSerial
  <2>6. CASE \E ok \in BOOLEAN : RunWrite(w, c, ok)
    BY <2>6, RunWriteSerial
  <2> QED
    BY <2>1, <2>2, <2>3, <2>4, <2>5, <2>6 DEF Pick
<1>3. CASE \E w \in Worker : Run(w)
  <2>1. PICK w \in Worker : Run(w)
    BY <1>3
  <2>2. CASE \E c \in Conn : Listen(w, c)
    BY <2>2, ListenSerial
  <2>3. CASE handleConnection(w)
    BY <2>3, handleConnectionSerial
  <2>4. CASE ConsumePiece(w)
    BY <2>4, ConsumePieceSerial
  <2>5. CASE \E keepAlive \in BOOLEAN : ConsumeMessage(w, keepAlive)
    BY <2>5, ConsumeMessageSerial
  <2>6. CASE ConsumeBadMessage(w)
    BY <2>6, ConsumeBadMessageSerial
  <2>7. CASE HandleAnswers(w)
    BY <2>7, HandleAnswersSerial
  <2>8. CASE HandleIgnores(w)
    BY <2>8, HandleIgnoresSerial
  <2>9. CASE Respond(w)
    BY <2>9, RespondSerial
  <2>10. CASE Report(w)
    BY <2>10, ReportSerial
  <2>11. CASE KeepConnection(w)
    BY <2>11, KeepConnectionSerial
  <2>12. CASE EraseConnection(w)
    BY <2>12, EraseConnectionSerial
  <2> QED
    BY <2>1, <2>2, <2>3, <2>4, <2>5, <2>6, <2>7, <2>8, <2>9, <2>10, <2>11, <2>12 DEF Run
<1>4. CASE \E c \in Conn : Timer(c)
  BY <1>4, TimerFiresSerial, StaleTimerRunsSerial DEF Timer
<1>5. CASE \E k \in Caller : Control(k)
  BY <1>5, StartSerial, StartListenSerial, StopSerial, StopWakesSerial DEF Control
<1>6. CASE UNCHANGED vars
  BY <1>6 DEF vars, SerialInv, CallsEmpty, LockOpen, KeptIsOpen, AcceptLoopIntact, Up, Accepting
<1> QED
  BY <1>1, <1>2, <1>3, <1>4, <1>5, <1>6 DEF Next

\* Nothing is served when the server is created.
LEMMA InitSerial == Init => SerialInv
  BY DEF Init, SerialInv, CallsEmpty, LockOpen, KeptIsOpen, AcceptLoopIntact, Up

\* The serial invariant holds of every behaviour in which the calls do not overlap.
THEOREM SerialInductive == Spec /\ []CallsApart => []SerialInv
  BY Inductive, InitSerial, NextSerial, PTL DEF Spec

\* If calls of start() and stop() do not overlap, a thread inside finishConnection's
\* keep-alive path never waits for the mutex it holds: handleRequest's finish()
\* after a lost connection is out of its reach, because the connection is open as
\* long as the mutex is held.
THEOREM SelfDeadlockFree == Spec /\ []CallsApart => []NoSelfDeadlock
<1>1. IInv /\ SerialInv => NoSelfDeadlock
  BY DEF IInv, SerialInv, LockInv, LockOpen, NoSelfDeadlock
<1> QED
  BY <1>1, Inductive, SerialInductive, PTL

\* If calls of start() and stop() do not overlap, there is exactly one accept loop
\* while the server is up.
THEOREM SingleAcceptLoop == Spec /\ []CallsApart => []AcceptLoopIntact
<1>1. SerialInv => AcceptLoopIntact
  BY DEF SerialInv
<1> QED
  BY <1>1, SerialInductive, PTL

-----------------------------------------------------------------------------
(* The order of answers.  Order says, for every place a connection can be  *)
(* in, how the requests that were delivered, parsed and answered relate.   *)

\* The answers so far are those to the first requests.
Exact(s) == /\ \A i \in DOMAIN s.answered : s.answered[i] = i
            /\ s.last # 0 => Len(s.answered) <= s.last

\* Every request that was parsed is answered, and none of them closes the connection.
Caught(s) == s.pos <= s.end /\ Len(s.answered) = s.pos /\ s.last = 0

\* And nothing that a read has delivered is left.
Drained(s) == Caught(s) /\ s.pos = s.end

\* The answer to the request that was parsed last is still to be written.
InHand(s) == Len(s.answered) + 1 = s.pos /\ s.last \in {0, s.pos}

\* What has to hold of a connection that its lifecycle keeps alive.
Kept(s, l) == /\ l # "CLOSE" => Caught(s)
              /\ l = "KEEPALIVE" => Drained(s)

KeptInHand(s, l) == /\ InHand(s)
                    /\ l # "CLOSE" => s.last = 0 /\ s.pos <= s.end
                    /\ l = "KEEPALIVE" => s.pos = s.end

Order ==
    /\ \A c \in Conn : Exact(stream[c])
    /\ \A c \in Conn : c \notin pool => stream[c] = NewStream
    /\ \A c \in Conn : op[c] \in {"accept", "read"} => Drained(stream[c])
    /\ \A c \in Conn : op[c] = "write" => Kept(stream[c], life[c])
    /\ \A w \in Worker :
        /\ pc[w] \in {"listenOK", "listenErr"} => Drained(stream[cur[w]])
        /\ pc[w] = "connect" => /\ Caught(stream[cur[w]])
                                /\ life[cur[w]] # "PIPELINED" => Drained(stream[cur[w]])
        /\ pc[w] = "consume" => Caught(stream[cur[w]])
        /\ pc[w] \in {"handle", "respond"} => KeptInHand(stream[cur[w]], life[cur[w]])
        /\ pc[w] = "report" => InHand(stream[cur[w]]) /\ life[cur[w]] = "CLOSE"
        /\ pc[w] = "finish" => Kept(stream[cur[w]], life[cur[w]])

\* What the order says of a stream does not depend on what was sent or on a cut.
LEMMA SameOrder ==
    ASSUME NEW s \in Stream, NEW t \in Stream, t.pos = s.pos, t.end = s.end, t.last = s.last,
           t.answered = s.answered
    PROVE  /\ Exact(s) => Exact(t)
           /\ Caught(s) => Caught(t)
           /\ Drained(s) => Drained(t)
           /\ InHand(s) => InHand(t)
           /\ \A l \in Lifecycle : Kept(s, l) => Kept(t, l)
           /\ \A l \in Lifecycle : KeptInHand(s, l) => KeptInHand(t, l)
  BY DEF Exact, Caught, Drained, InHand, Kept, KeptInHand

\* A new stream has nothing to answer.
LEMMA NewStreamOrder == Exact(NewStream) /\ Drained(NewStream) /\ Caught(NewStream)
  BY DEF NewStream, Exact, Caught, Drained

\* A read points the parser at new requests only when the old ones are answered.
LEMMA ReadOrder ==
    ASSUME NEW s \in Stream, NEW n \in 0..MaxRequests, Exact(s), Drained(s), NEW t \in Stream,
           t.pos = s.end, t.end = s.end + n, t.answered = s.answered, t.last = s.last
    PROVE  Exact(t) /\ Caught(t)
  BY DEF Exact, Caught, Drained, Stream

\* A message that is parsed is the next one to answer; it is the last one unless it is kept alive.
LEMMA ParseOrder ==
    ASSUME NEW s \in Stream, NEW keepAlive \in BOOLEAN, Exact(s), Caught(s), HasMessage(s),
           NEW t \in Stream, t.pos = s.pos + 1, t.end = s.end, t.answered = s.answered,
           t.last = IF keepAlive THEN s.last ELSE s.pos + 1
    PROVE  Exact(t) /\ KeptInHand(t, LifecycleAfter(s, keepAlive)) /\ LifecycleAfter(s, keepAlive) \in Lifecycle
<1>1. /\ s.pos \in Nat /\ s.end \in Nat /\ s.last = 0 /\ Len(s.answered) = s.pos
      /\ t.pos = s.pos + 1 /\ t.end = s.end /\ t.answered = s.answered
      /\ t.last = IF keepAlive THEN 0 ELSE s.pos + 1
  BY DEF Stream, Caught
<1>2. Exact(t)
  BY <1>1 DEF Exact
<1>3. InHand(t)
  BY <1>1 DEF InHand
<1> QED
  BY <1>1, <1>2, <1>3 DEF KeptInHand, LifecycleAfter, HasMessage, Lifecycle

\* A malformed message is the last one to answer.
LEMMA BadOrder ==
    ASSUME NEW s \in Stream, Exact(s), Caught(s),
           NEW t \in Stream, t.pos = s.pos + 1, t.answered = s.answered, t.last = s.pos + 1
    PROVE  Exact(t) /\ InHand(t)
<1>1. /\ s.pos \in Nat /\ s.last = 0 /\ Len(s.answered) = s.pos
      /\ t.pos = s.pos + 1 /\ t.answered = s.answered /\ t.last = s.pos + 1
  BY DEF Stream, Caught
<1> QED
  BY <1>1 DEF Exact, InHand

\* The answer that is written is the next one.
LEMMA WriteOrder ==
    ASSUME NEW s \in Stream, Exact(s), InHand(s),
           NEW t \in Stream, t.pos = s.pos, t.end = s.end, t.last = s.last, t.answered = Append(s.answered, s.pos)
    PROVE  /\ Exact(t)
           /\ Kept(t, "CLOSE")
           /\ \A l \in Lifecycle : KeptInHand(s, l) => Kept(t, l)
<1>1. /\ s.pos \in Nat /\ s.end \in Nat /\ s.last \in Nat /\ s.answered \in Seq(0..MaxRequests)
      /\ s.pos \in 0..MaxRequests
      /\ t.pos = s.pos /\ t.end = s.end /\ t.last = s.last /\ t.answered = Append(s.answered, s.pos)
  BY DEF Stream
<1>2. /\ Len(t.answered) = s.pos
      /\ \A i \in DOMAIN t.answered : t.answered[i] = i
  BY <1>1 DEF Exact, InHand
<1>3. Exact(t)
  BY <1>1, <1>2 DEF Exact, InHand
<1> QED
  BY <1>1, <1>2, <1>3 DEF Kept, KeptInHand, Caught, Drained, InHand

\* The thread that runs a handler serves a connection, whose stream is well typed.
LEMMA Serves ==
    ASSUME IInv, NEW w \in Worker, pc[w] # "idle"
    PROVE  /\ cur[w] \in Conn /\ op[cur[w]] = "none" /\ stream[cur[w]] \in Stream
           /\ life[cur[w]] \in Lifecycle /\ cur[w] \in pool
           /\ \A v \in Worker : v # w => cur[v] # cur[w]
  BY DEF IInv, TypeOK, Ownership, Pooled

\* Steps that leave the streams and the lifecycles alone.
LEMMA ClientSendOrder == ASSUME IInv, Order, NEW c \in Conn, ClientSend(c) PROVE Order'
<1>1. stream[c] \in Stream /\ stream'[c] \in Stream /\ \A d \in Conn : d # c => stream'[d] = stream[d]
  BY ClientSendKeeps DEF IInv, TypeOK, ClientSend
<1>2. /\ stream'[c].pos = stream[c].pos /\ stream'[c].end = stream[c].end
      /\ stream'[c].last = stream[c].last /\ stream'[c].answered = stream[c].answered
  BY <1>1 DEF IInv, TypeOK, ClientSend, Stream
<1>3. \A d \in Conn : /\ Exact(stream[d]) => Exact(stream'[d])
                      /\ Caught(stream[d]) => Caught(stream'[d])
                      /\ Drained(stream[d]) => Drained(stream'[d])
                      /\ InHand(stream[d]) => InHand(stream'[d])
                      /\ Kept(stream[d], life[d]) => Kept(stream'[d], life[d])
                      /\ KeptInHand(stream[d], life[d]) => KeptInHand(stream'[d], life[d])
  BY <1>1, <1>2, SameOrder DEF IInv, TypeOK
<1> QED
  BY <1>1, <1>3, Serves DEF IInv, TypeOK, Ownership, Order, ClientSend

\* A connection passes from its accept, its read or its write to a thread.
LEMMA RunAcceptOrder == ASSUME IInv, Order, NEW w \in Worker, NEW c \in Conn, RunAccept(w, c) PROVE Order'
  BY DEF IInv, TypeOK, Ownership, FreshCloses, Order, RunAccept, Dispatch, Drained

LEMMA RunAcceptErrorOrder ==
    ASSUME IInv, Order, NEW w \in Worker, NEW c \in Conn, RunAcceptError(w, c) PROVE Order'
<1>1. Drained(stream[c]) => Kept(stream[c], life[c])
  BY DEF Drained, Kept
<1> QED
  BY <1>1 DEF IInv, TypeOK, Ownership, Order, RunAcceptError, Dispatch

LEMMA RunReadOrder ==
    ASSUME IInv, Order, NEW w \in Worker, NEW c \in Conn, NEW n \in 0..MaxRequests, NEW cut \in {"yes", "no"},
           RunRead(w, c, n, cut)
    PROVE  Order'
<1>1. stream[c] \in Stream /\ Exact(stream[c]) /\ Drained(stream[c])
  BY DEF IInv, TypeOK, Order, RunRead
<1>2. stream'[c] \in Stream /\ \A d \in Conn : d # c => stream'[d] = stream[d]
  <2>1. IInv'
    BY RunReadKeeps
  <2> QED
    BY <2>1 DEF IInv, TypeOK, RunRead
<1>3. Exact(stream'[c]) /\ Caught(stream'[c])
  <2>1. /\ stream'[c].pos = stream[c].end /\ stream'[c].end = stream[c].end + n
        /\ stream'[c].answered = stream[c].answered /\ stream'[c].last = stream[c].last
    BY <1>1 DEF IInv, TypeOK, RunRead, Stream
  <2> QED
    BY <1>1, <1>2, <2>1, ReadOrder
<1>4. c \in pool
  BY DEF IInv, Pooled, RunRead
<1> QED
  BY <1>2, <1>3, <1>4 DEF IInv, TypeOK, Ownership, Order, RunRead, Dispatch

LEMMA RunReadErrorOrder ==
    ASSUME IInv, Order, NEW w \in Worker, NEW c \in Conn, RunReadError(w, c) PROVE Order'
<1>1. Kept(stream[c], "CLOSE")
  BY DEF Kept
<1> QED
  BY <1>1 DEF IInv, TypeOK, Ownership, Order, RunReadError, Dispatch

LEMMA RunWriteOrder ==
    ASSUME IInv, Order, NEW w \in Worker, NEW c \in Conn, NEW ok \in BOOLEAN, RunWrite(w, c, ok) PROVE Order'
<1>1. Kept(stream[c], "CLOSE")
  BY DEF Kept
<1> QED
  BY <1>1 DEF IInv, TypeOK, Ownership, Order, RunWrite, Dispatch

\* listen() leaves the connections that somebody refers to alone.
LEMMA ListenOrder == ASSUME IInv, Order, NEW w \in Worker, NEW c \in Conn, Listen(w, c) PROVE Order'
<1>1. \A l \in Lifecycle : Drained(stream[cur[w]]) => Kept(stream[cur[w]], l) /\ Caught(stream[cur[w]])
  BY DEF Drained, Kept
<1>2. cur[w] \in Conn /\ life[cur[w]] \in Lifecycle /\ cur[w] \in pool
  BY Serves DEF Listen
<1> QED
  BY <1>1, <1>2, NewStreamOrder DEF IInv, TypeOK, Ownership, FreshCloses, Order, Listen, listen, Goto, Orphans, Referenced, Unused

LEMMA StartListenOrder == ASSUME IInv, Order, NEW k \in Caller, NEW c \in Conn, StartListen(k, c) PROVE Order'
  BY NewStreamOrder DEF IInv, TypeOK, Ownership, Order, StartListen, listen, Orphans, Referenced, Unused

LEMMA handleConnectionOrder == ASSUME IInv, Order, NEW w \in Worker, handleConnection(w) PROVE Order'
<1>1. pc[w] # "idle"
  BY DEF handleConnection
<1> QED
  BY <1>1, Serves DEF IInv, TypeOK, Ownership, Order, handleConnection, readBytesWithTimeout, Return, Goto

LEMMA ConsumePieceOrder == ASSUME IInv, Order, NEW w \in Worker, ConsumePiece(w) PROVE Order'
<1> DEFINE c == cur[w]
<1>1. /\ c \in Conn /\ c \in pool /\ op[c] = "none" /\ \A v \in Worker : v # w => cur[v] # c
      /\ stream[c] \in Stream
  BY Serves DEF ConsumePiece
<1>2. Exact(stream[c]) /\ Drained(stream[c])
  <2>1. Caught(stream[c]) /\ ~HasMessage(stream[c]) /\ Exact(stream[c])
    BY <1>1 DEF Order, ConsumePiece
  <2> QED
    BY <1>1, <2>1 DEF Caught, Drained, HasMessage, Stream
<1>3. stream'[c] \in Stream /\ \A d \in Conn : d # c => stream'[d] = stream[d]
  BY <1>1, ConsumePieceKeeps DEF IInv, TypeOK, ConsumePiece
<1>4. Exact(stream'[c]) /\ Drained(stream'[c])
  <2>1. /\ stream'[c].pos = stream[c].pos /\ stream'[c].end = stream[c].end
        /\ stream'[c].last = stream[c].last /\ stream'[c].answered = stream[c].answered
    BY <1>1 DEF IInv, TypeOK, ConsumePiece, Stream
  <2> QED
    BY <1>1, <1>2, <1>3, <2>1, SameOrder
<1> QED
  BY <1>1, <1>3, <1>4 DEF IInv, TypeOK, Ownership, Order, ConsumePiece, readBytesWithTimeout, Return

LEMMA ConsumeMessageOrder ==
    ASSUME IInv, Order, NEW w \in Worker, NEW keepAlive \in BOOLEAN, ConsumeMessage(w, keepAlive) PROVE Order'
<1> DEFINE c == cur[w]
<1>1. /\ c \in Conn /\ c \in pool /\ op[c] = "none" /\ \A v \in Worker : v # w => cur[v] # c
      /\ stream[c] \in Stream
  BY Serves DEF ConsumeMessage
<1>2. Exact(stream[c]) /\ Caught(stream[c]) /\ HasMessage(stream[c])
  BY <1>1 DEF Order, ConsumeMessage
<1>3. stream'[c] \in Stream /\ \A d \in Conn : d # c => stream'[d] = stream[d]
  BY <1>1, ConsumeMessageKeeps DEF IInv, TypeOK, ConsumeMessage
<1>4. /\ stream'[c].pos = stream[c].pos + 1 /\ stream'[c].end = stream[c].end
      /\ stream'[c].answered = stream[c].answered
      /\ stream'[c].last = IF keepAlive THEN stream[c].last ELSE stream[c].pos + 1
  BY <1>1 DEF IInv, TypeOK, ConsumeMessage, Stream
<1>5. /\ Exact(stream'[c]) /\ KeptInHand(stream'[c], LifecycleAfter(stream[c], keepAlive))
      /\ LifecycleAfter(stream[c], keepAlive) \in Lifecycle
  BY <1>1, <1>2, <1>3, <1>4, ParseOrder
<1>6. /\ life' = [life EXCEPT ![c] = LifecycleAfter(stream[c], keepAlive)]
      /\ pc' = [pc EXCEPT ![w] = "handle"]
      /\ UNCHANGED <<pool, op, cur>>
  BY DEF ConsumeMessage, Goto
<1>7. Exact(stream'[c]) /\ KeptInHand(stream'[c], life'[c]) /\ \A d \in Conn : d # c => life'[d] = life[d]
  BY <1>1, <1>5, <1>6 DEF IInv, TypeOK
<1> HIDE DEF c
<1>8. c = cur[w]
  BY DEF c
<1> QED
  BY <1>1, <1>3, <1>6, <1>7, <1>8 DEF IInv, TypeOK, Ownership, Order

LEMMA ConsumeBadMessageOrder == ASSUME IInv, Order, NEW w \in Worker, ConsumeBadMessage(w) PROVE Order'
<1> DEFINE c == cur[w]
<1>1. /\ c \in Conn /\ c \in pool /\ op[c] = "none" /\ \A v \in Worker : v # w => cur[v] # c
      /\ stream[c] \in Stream
  BY Serves DEF ConsumeBadMessage
<1>2. Exact(stream[c]) /\ Caught(stream[c])
  BY <1>1 DEF Order, ConsumeBadMessage
<1>3. stream'[c] \in Stream /\ \A d \in Conn : d # c => stream'[d] = stream[d]
  BY <1>1, ConsumeBadMessageKeeps DEF IInv, TypeOK, ConsumeBadMessage
<1>4. /\ stream'[c].pos = stream[c].pos + 1 /\ stream'[c].answered = stream[c].answered
      /\ stream'[c].last = stream[c].pos + 1
  BY <1>1 DEF IInv, TypeOK, ConsumeBadMessage, Stream
<1>5. Exact(stream'[c]) /\ InHand(stream'[c])
  BY <1>1, <1>2, <1>3, <1>4, BadOrder
<1>6. /\ life' = [life EXCEPT ![c] = "CLOSE"]
      /\ pc' = [pc EXCEPT ![w] = "report"]
      /\ UNCHANGED <<pool, op, cur>>
  BY DEF ConsumeBadMessage, Goto
<1> HIDE DEF c
<1>7. c = cur[w]
  BY DEF c
<1> QED
  BY <1>1, <1>3, <1>5, <1>6, <1>7 DEF IInv, TypeOK, Ownership, Order

LEMMA HandleAnswersOrder == ASSUME IInv, Order, NEW w \in Worker, HandleAnswers(w) PROVE Order'
  BY Serves DEF IInv, TypeOK, Order, HandleAnswers, Goto

LEMMA HandleIgnoresOrder == ASSUME IInv, Order, NEW w \in Worker, HandleIgnores(w) PROVE Order'
  BY Serves DEF IInv, TypeOK, Order, HandleIgnores, Return

\* The write of an answer, from respond or from report.
LEMMA WriteOrderStep ==
    ASSUME IInv, Order, IInv', NEW w \in Worker, pc[w] \in {"respond", "report"}, Write(w) PROVE Order'
<1> DEFINE c == cur[w]
<1>1. /\ c \in Conn /\ c \in pool /\ op[c] = "none" /\ \A v \in Worker : v # w => cur[v] # c
      /\ stream[c] \in Stream /\ life[c] \in Lifecycle
  BY Serves
<1>2. Exact(stream[c]) /\ InHand(stream[c]) /\ (KeptInHand(stream[c], life[c]) \/ life[c] = "CLOSE")
  BY <1>1 DEF Order, KeptInHand
<1>3. stream'[c] \in Stream /\ \A d \in Conn : d # c => stream'[d] = stream[d]
  BY <1>1 DEF IInv, TypeOK, Write
<1>4. /\ stream'[c].pos = stream[c].pos /\ stream'[c].end = stream[c].end
      /\ stream'[c].last = stream[c].last /\ stream'[c].answered = Append(stream[c].answered, stream[c].pos)
  BY <1>1 DEF IInv, TypeOK, Write, Stream
<1>5. Exact(stream'[c]) /\ Kept(stream'[c], life[c])
  BY <1>1, <1>2, <1>3, <1>4, WriteOrder
<1>6. /\ op' = [op EXCEPT ![c] = "write"]
      /\ pc' = [pc EXCEPT ![w] = "idle"]
      /\ cur' = [cur EXCEPT ![w] = NoConn]
      /\ UNCHANGED <<pool, life>>
  BY DEF Write, Return
<1> HIDE DEF c
<1>7. c = cur[w]
  BY DEF c
<1> QED
  BY <1>1, <1>3, <1>5, <1>6, <1>7 DEF IInv, TypeOK, Ownership, Order

LEMMA RespondOrder == ASSUME IInv, Order, NEW w \in Worker, Respond(w) PROVE Order'
<1>1. CASE Write(w)
  BY <1>1, RespondKeeps, WriteOrderStep DEF Respond
<1>2. CASE life' = [life EXCEPT ![cur[w]] = "CLOSE"] /\ Goto(w, "finish") /\ UNCHANGED <<pool, op, stream, cur>>
  <2>1. Kept(stream[cur[w]], "CLOSE")
    BY DEF Kept
  <2>2. cur[w] \in Conn /\ op[cur[w]] = "none" /\ \A v \in Worker : v # w => cur[v] # cur[w]
    BY Serves DEF Respond
  <2> QED
    BY <1>2, <2>1, <2>2 DEF IInv, TypeOK, Ownership, Order, Goto
<1> QED
  BY <1>1, <1>2 DEF Respond

LEMMA ReportOrder == ASSUME IInv, Order, NEW w \in Worker, Report(w) PROVE Order'
<1>1. CASE Write(w)
  BY <1>1, ReportKeeps, WriteOrderStep DEF Report
<1>2. CASE Return(w) /\ UNCHANGED <<pool, life, op, stream>>
  BY <1>2, Serves DEF IInv, TypeOK, Order, Return
<1> QED
  BY <1>1, <1>2 DEF Report

LEMMA KeepConnectionOrder == ASSUME IInv, Order, NEW w \in Worker, KeepConnection(w) PROVE Order'
<1>1. life[cur[w]] # "CLOSE" /\ Kept(stream[cur[w]], life[cur[w]]) /\ life[cur[w]] \in Lifecycle
  BY Serves DEF Order, KeepConnection
<1>2. Caught(stream[cur[w]]) /\ (life[cur[w]] # "PIPELINED" => Drained(stream[cur[w]]))
  BY <1>1 DEF Kept, Lifecycle
<1> QED
  BY <1>2 DEF IInv, TypeOK, Order, KeepConnection, Goto

\* Connections that leave the pool leave a new stream behind.
LEMMA EraseConnectionOrder == ASSUME IInv, Order, NEW w \in Worker, EraseConnection(w) PROVE Order'
<1>1. cur[w] \in Conn /\ op[cur[w]] = "none" /\ \A v \in Worker : v # w => cur[v] # cur[w]
  BY Serves DEF EraseConnection
<1> QED
  BY <1>1, NewStreamOrder DEF IInv, TypeOK, Ownership, Order, EraseConnection, Erase, Return

LEMMA StopOrder == ASSUME IInv, Order, NEW k \in Caller, NEW wait \in BOOLEAN, Stop(k, wait) PROVE Order'
  BY NewStreamOrder DEF IInv, TypeOK, Ownership, Order, Stop, Orphans, Referenced

LEMMA StopWakesOrder == ASSUME IInv, Order, NEW k \in Caller, StopWakes(k) PROVE Order'
  BY NewStreamOrder DEF IInv, TypeOK, Ownership, Order, StopWakes, Erase, Orphans, Referenced

\* Every step keeps the order.
LEMMA NextOrder == ASSUME IInv, Order, [Next]_vars PROVE Order'
<1>1. CASE \E w \in Worker, c \in Conn : Pick(w, c)
  <2>1. PICK w \in Worker, c \in Conn : Pick(w, c)
    BY <1>1
  <2>2. CASE \E n \in 0..MaxRequests, cut \in {"yes", "no"} : RunRead(w, c, n, cut)
    <3>1. PICK n \in 0..MaxRequests, cut \in {"yes", "no"} : RunRead(w, c, n, cut)
      BY <2>2
    <3> QED
      BY <3>1, RunReadOrder
  <2> QED
    BY <2>1, <2>2, RunAcceptOrder, RunAcceptErrorOrder, RunReadErrorOrder, RunWriteOrder DEF Pick
<1>2. CASE \E w \in Worker : Run(w)
  BY <1>2, ListenOrder, handleConnectionOrder, ConsumePieceOrder, ConsumeMessageOrder, ConsumeBadMessageOrder,
     HandleAnswersOrder, HandleIgnoresOrder, RespondOrder, ReportOrder, KeepConnectionOrder,
     EraseConnectionOrder DEF Run
<1>3. CASE \E c \in Conn : Timer(c)
  BY <1>3 DEF Timer, TimerFires, StaleTimerRuns, Order
<1>4. CASE \E k \in Caller : Control(k)
  <2>1. CASE \E k \in Caller : Start(k)
    BY <2>1 DEF Start, Order
  <2> QED
    BY <1>4, <2>1, StartListenOrder, StopOrder, StopWakesOrder DEF Control
<1>5. CASE UNCHANGED vars
  BY <1>5 DEF vars, Order
<1> QED
  BY <1>1, <1>2, <1>3, <1>4, <1>5, ClientSendOrder DEF Next

\* On every connection the n-th response answers the n-th request, for any number of
\* pipelined requests, however the reads cut the byte stream, and nothing is answered
\* past a request that closes the connection.
THEOREM AnswersOrdered == Spec => []AnswersInOrder
<1>1. Init => Order
  BY NewStreamOrder DEF Init, Order
<1>2. Order => AnswersInOrder
  BY DEF Order, Exact, AnswersInOrder
<1> QED
  BY <1>1, <1>2, NextOrder, Inductive, PTL DEF Spec

=============================================================================
