--------------------------- MODULE RequestService ---------------------------
(***************************************************************************)
(* The request path of the brainslug backend: the connections, read        *)
(* timers and worker threads of the HTTP server it embeds (pion-net's      *)
(* TCPServer, HTTPReader, TCPTimer, HTTPWriter and HTTPServer), with the   *)
(* handlers that FrontendServer and ResourceHandler install in it.         *)
(*                                                                         *)
(* What a request asks for is abstracted: a request is its position in    *)
(* the connection's byte stream, and its kind (malformed, unknown          *)
(* resource, answerable, Connection: close) is chosen when it is parsed.   *)
(* The answers' contents are the subject of module ResourceHandler.        *)
(***************************************************************************)
EXTENDS Naturals, Sequences, FiniteSets

CONSTANTS Conn,         \* TCPConnection objects; an object is reused once destroyed
          Worker,       \* threads of the PionScheduler running io_service::run
          Caller,       \* threads that call start() and stop(), their calls in any order
          MaxRequests,  \* bound: requests a client sends on one connection
          NoConn,       \* "this thread runs no handler"
          Free          \* "nobody holds TCPServer::m_mutex"

ASSUME ServiceAssumption ==
    /\ MaxRequests \in Nat
    /\ NoConn \notin Conn
    /\ Free \notin Worker

VARIABLES
    listening,\* TCPServer::m_is_listening
    ctl,      \* where each caller of start() and stop() is
    lock,     \* owner of TCPServer::m_mutex between two steps
    pool,     \* TCPServer::m_conn_pool
    sock,     \* state of each connection's socket
    life,     \* TCPConnection::m_lifecycle
    op,       \* the asynchronous operation outstanding on each connection
    armed,    \* connections whose read timer is running
    stale,    \* connections with a cancelled timer whose callback is still queued
    stream,   \* per connection: bytes sent, delivered and parsed, answers written
    pc, cur   \* per worker: the point its handler is at, the connection it serves

vars == <<listening, ctl, lock, pool, sock, life, op, armed, stale, stream, pc, cur>>

-----------------------------------------------------------------------------
(* State sets and derived state.                                           *)

\* A caller that is "starting" has set m_is_listening and not yet called listen();
\* one "draining" or "closing" waits in stop(true) or stop(false), where it sleeps
\* with m_mutex released.
Ctl == {"out", "starting", "draining", "closing"}

\* No call of start() or stop() is under way.
NoCall == \A k \in Caller : ctl[k] = "out"

\* At most one call is under way: the calls of all the callers do not overlap.
CallsApart == \A j, k \in Caller : ctl[j] # "out" /\ ctl[k] # "out" => j = k

\* The server listens and no start() has its listen() still to do.
Up == listening /\ \A k \in Caller : ctl[k] # "starting"

Lifecycle == {"CLOSE", "KEEPALIVE", "PIPELINED"}

\* "dead" is a read posted on a socket that was already closed: it can only fail.
Op == {"none", "accept", "read", "dead", "write"}

\* The points of a handler at which another thread may run.  A thread at
\* "respond" is inside HTTPServer::handleRequest's try block, one at "report"
\* sends the 400 of handleBadRequest outside of it.
Point == {"idle", "listenOK", "listenErr", "connect", "consume", "handle",
          "respond", "report", "finish"}

\* sent: requests the client has sent; end: of these, how many whole ones reads
\* have delivered; pos: how many the parser has consumed; cut: the last read
\* ended inside a request; answered: the requests a response was written for;
\* last: the request that asked for (or forced) the connection to close.
Stream == [sent : 0..MaxRequests, end : 0..MaxRequests, pos : 0..MaxRequests,
           cut : {"yes", "no"}, answered : Seq(0..MaxRequests), last : 0..MaxRequests]

NewStream == [sent |-> 0, end |-> 0, pos |-> 0, cut |-> "no", answered |-> <<>>, last |-> 0]

\* Somebody besides the pool holds a shared_ptr to c: a completion handler, a
\* timer or a running thread.
Referenced(c) == \/ op[c] # "none"
                 \/ c \in armed \cup stale
                 \/ \E w \in Worker : cur[w] = c

\* Mutant: a connection without an outstanding operation counts as orphaned even
\* while a thread serves it.
OrphansIgnoringThreads == {c \in pool : op[c] = "none"}

\* conn_itr->unique(): what pruneConnections closes and erases.
Orphans == {c \in pool : ~Referenced(c)}

\* An object that does not exist yet or has been destroyed.
Unused(c) == c \notin pool /\ ~Referenced(c)

\* The connection objects S leave the pool (and are destroyed with their last
\* reference): their members are reset so that the objects can be reused.
Erase(S) ==
    /\ pool' = pool \ S
    /\ sock' = [c \in Conn |-> IF c \in S THEN "none" ELSE sock[c]]
    /\ life' = [c \in Conn |-> IF c \in S THEN "CLOSE" ELSE life[c]]
    /\ stream' = [c \in Conn |-> IF c \in S THEN NewStream ELSE stream[c]]

\* The handler w runs returns to io_service::run, leaving finishConnection's
\* scoped_lock if it was called from there.
Return(w) ==
    /\ pc' = [pc EXCEPT ![w] = "idle"]
    /\ cur' = [cur EXCEPT ![w] = NoConn]
    /\ lock' = IF lock = w THEN Free ELSE lock

Goto(w, point) == pc' = [pc EXCEPT ![w] = point]

\* An idle worker picks the completion handler of c's operation.
Dispatch(w, c, point) ==
    /\ pc[w] = "idle"
    /\ pc' = [pc EXCEPT ![w] = point]
    /\ cur' = [cur EXCEPT ![w] = c]
    /\ op' = [op EXCEPT ![c] = "none"]

-----------------------------------------------------------------------------
(* The client.                                                             *)

\* A client sends one more request on an open connection, pipelined if the
\* previous one is not answered yet.
ClientSend(c) ==
    /\ c \in pool
    /\ sock[c] = "open"
    /\ stream[c].sent < MaxRequests
    /\ stream' = [stream EXCEPT ![c].sent = @ + 1]
    /\ UNCHANGED <<listening, ctl, lock, pool, sock, life, op, armed, stale, pc, cur>>

-----------------------------------------------------------------------------
(* Accepting connections: TCPServer::handleAccept and listen.              *)

\* Bound: a connection is accepted (or fails to be), and start() begins, only
\* while an object is left for the listen() that follows.
ObjectLeft ==
    Cardinality({c \in Conn : Unused(c)}) >
        Cardinality({w \in Worker : pc[w] \in {"listenOK", "listenErr"}})
        + Cardinality({k \in Caller : ctl[k] = "starting"})

\* Mutant: the accept loop is not continued.
RunAcceptOnce(w, c) ==
    /\ op[c] = "accept"
    /\ Dispatch(w, c, "connect")
    /\ sock' = [sock EXCEPT ![c] = IF sock[c] = "closed" THEN "closed" ELSE "open"]
    /\ UNCHANGED <<listening, ctl, lock, pool, life, armed, stale, stream>>

\* handleAccept without an error.  The accept assigned the socket when it
\* completed, so a stop(false) that came between has closed it.  m_is_listening
\* is read without m_mutex.
RunAccept(w, c) ==
    /\ op[c] = "accept"
    /\ listening => ObjectLeft
    /\ Dispatch(w, c, IF listening THEN "listenOK" ELSE "connect")
    /\ sock' = [sock EXCEPT ![c] = IF sock[c] = "closed" THEN "closed" ELSE "open"]
    /\ UNCHANGED <<listening, ctl, lock, pool, life, armed, stale, stream>>

\* Mutant: an accept error is taken for the shutdown of the server.
RunAcceptErrorGivesUp(w, c) ==
    /\ op[c] = "accept"
    /\ Dispatch(w, c, "finish")
    /\ UNCHANGED <<listening, ctl, lock, pool, sock, life, armed, stale, stream>>

\* handleAccept with an error: always possible once stop() closed the acceptor.
RunAcceptError(w, c) ==
    /\ op[c] = "accept"
    /\ listening => ObjectLeft
    /\ Dispatch(w, c, IF listening THEN "listenErr" ELSE "finish")
    /\ UNCHANGED <<listening, ctl, lock, pool, sock, life, armed, stale, stream>>

\* TCPServer::listen, called with m_mutex free: prunes the orphans, adds a new
\* connection to the pool and posts the next accept.
listen(c) ==
    /\ lock = Free
    /\ IF listening
         THEN /\ Unused(c)
              /\ pool' = (pool \ Orphans) \cup {c}
              /\ sock' = [d \in Conn |-> IF d \in Orphans THEN "none" ELSE sock[d]]
              /\ life' = [d \in Conn |-> IF d \in Orphans THEN "CLOSE" ELSE life[d]]
              /\ stream' = [d \in Conn |-> IF d \in Orphans THEN NewStream ELSE stream[d]]
              /\ op' = [op EXCEPT ![c] = "accept"]
         ELSE UNCHANGED <<pool, sock, life, stream, op>>

\* handleAccept calls listen() and goes on with the connection it got.
Listen(w, c) ==
    /\ pc[w] \in {"listenOK", "listenErr"}
    /\ listen(c)
    /\ Goto(w, IF pc[w] = "listenOK" THEN "connect" ELSE "finish")
    /\ UNCHANGED <<listening, ctl, lock, armed, stale, cur>>

-----------------------------------------------------------------------------
(* Reading: HTTPReader and TCPTimer.                                       *)

\* readBytesWithTimeout: start a timer, post a read, leave the handler.
readBytesWithTimeout(w, c) ==
    /\ armed' = armed \cup {c}
    /\ op' = [op EXCEPT ![c] = IF sock[c] = "open" THEN "read" ELSE "dead"]
    /\ Return(w)

\* HTTPServer::handleConnection and HTTPReader::receive.  From finishConnection
\* it runs with m_mutex held.
handleConnection(w) ==
    /\ pc[w] = "connect"
    /\ life' = [life EXCEPT ![cur[w]] = "CLOSE"]
    /\ IF life[cur[w]] = "PIPELINED"
         THEN Goto(w, "consume") /\ UNCHANGED <<lock, op, armed, cur>>
         ELSE readBytesWithTimeout(w, cur[w])
    /\ UNCHANGED <<listening, ctl, pool, sock, stale, stream>>

\* Mutant: the timer is not cancelled when its read completes.
CancelTimerForgotten(c) == UNCHANGED <<armed, stale>>

\* m_timer_ptr->cancel(): the callback, if it has not run, will find
\* m_was_cancelled set; until then it keeps a reference to the connection.
CancelTimer(c) ==
    /\ armed' = armed \ {c}
    /\ stale' = IF c \in armed THEN stale \cup {c} ELSE stale

\* Mutant: the read is credited with more bytes than arrived.
ArrivedAnything(s, n, cut) == n > 0 \/ cut = "yes"

\* What async_read_some may deliver: something, and only what was sent.
Arrived(s, n, cut) ==
    /\ n > 0 \/ cut = "yes"
    /\ s.end + n <= s.sent
    /\ cut = "yes" => s.end + n < s.sent

\* A read delivers the next n whole requests and perhaps a piece of another;
\* consumeBytes(error, n) cancels the timer and points the parser at the bytes
\* just read, whatever was left of the previous ones.
RunRead(w, c, n, cut) ==
    /\ op[c] = "read"
    /\ Arrived(stream[c], n, cut)
    /\ Dispatch(w, c, "consume")
    /\ CancelTimer(c)
    /\ stream' = [stream EXCEPT ![c].pos = stream[c].end, ![c].end = @ + n, ![c].cut = cut]
    /\ UNCHANGED <<listening, ctl, lock, pool, sock, life>>

\* The read failed: the peer closed, or the socket was closed here by the timer
\* or by stop(false).  consumeBytes cancels the timer, handleReadError finishes.
RunReadError(w, c) ==
    /\ op[c] \in {"read", "dead"}
    /\ Dispatch(w, c, "finish")
    /\ CancelTimer(c)
    /\ life' = [life EXCEPT ![c] = "CLOSE"]
    /\ UNCHANGED <<listening, ctl, lock, pool, sock, stream>>

\* TCPTimer::timerCallback of a timer that was not cancelled.
TimerFires(c) ==
    /\ c \in armed
    /\ \E w \in Worker : pc[w] = "idle"
    /\ armed' = armed \ {c}
    /\ sock' = [sock EXCEPT ![c] = "closed"]
    /\ UNCHANGED <<listening, ctl, lock, pool, life, op, stale, stream, pc, cur>>

\* Mutant: the callback does not look at m_was_cancelled.
StaleTimerCloses(c) ==
    /\ c \in stale
    /\ \E w \in Worker : pc[w] = "idle"
    /\ stale' = stale \ {c}
    /\ sock' = [sock EXCEPT ![c] = "closed"]
    /\ UNCHANGED <<listening, ctl, lock, pool, life, op, armed, stream, pc, cur>>

\* TCPTimer::timerCallback after cancel(): m_was_cancelled, nothing is closed.
StaleTimerRuns(c) ==
    /\ c \in stale
    /\ \E w \in Worker : pc[w] = "idle"
    /\ stale' = stale \ {c}
    /\ UNCHANGED <<listening, ctl, lock, pool, sock, life, op, armed, stream, pc, cur>>

\* The buffer holds the rest of a whole message: parse() returns true or false,
\* not indeterminate.
HasMessage(s) == s.pos < s.end

\* The buffer holds a piece of the next message, in which parse() may already
\* find the error.
HasPiece(s) == s.cut = "yes" /\ s.pos < s.sent

\* HTTPReader::consumeBytes(), the message is not complete: read more bytes.
ConsumePiece(w) ==
    /\ pc[w] = "consume"
    /\ ~HasMessage(stream[cur[w]])
    /\ stream' = [stream EXCEPT ![cur[w]].cut = "no"]
    /\ readBytesWithTimeout(w, cur[w])
    /\ UNCHANGED <<listening, ctl, pool, sock, life, stale>>

\* Mutant: the rest of the read buffer is forgotten.
LifecycleUnbuffered(s, keepAlive) == IF keepAlive THEN "KEEPALIVE" ELSE "CLOSE"

\* The lifecycle of a valid message: pipelined if the buffer holds more bytes.
LifecycleAfter(s, keepAlive) ==
    IF ~keepAlive THEN "CLOSE"
    ELSE IF s.pos + 1 = s.end /\ s.cut = "no" THEN "KEEPALIVE" ELSE "PIPELINED"

\* HTTPReader::consumeBytes(), a whole message was parsed.
ConsumeMessage(w, keepAlive) ==
    LET c == cur[w] s == stream[c] IN
    /\ pc[w] = "consume"
    /\ HasMessage(s)
    /\ stream' = [stream EXCEPT ![c].pos = @ + 1,
                                ![c].last = IF keepAlive THEN @ ELSE s.pos + 1]
    /\ life' = [life EXCEPT ![c] = LifecycleAfter(s, keepAlive)]
    /\ Goto(w, "handle")
    /\ UNCHANGED <<listening, ctl, lock, pool, sock, op, armed, stale, cur>>

\* HTTPReader::consumeBytes(), the message is malformed: handleRequest passes it
\* to handleBadRequest.
ConsumeBadMessage(w) ==
    LET c == cur[w] s == stream[c] IN
    /\ pc[w] = "consume"
    /\ HasMessage(s) \/ HasPiece(s)
    /\ stream' = [stream EXCEPT ![c].pos = @ + 1, ![c].last = s.pos + 1]
    /\ life' = [life EXCEPT ![c] = "CLOSE"]
    /\ Goto(w, "report")
    /\ UNCHANGED <<listening, ctl, lock, pool, sock, op, armed, stale, cur>>

-----------------------------------------------------------------------------
(* Answering: the handlers of FrontendServer and HTTPWriter::send.         *)

\* A resource handler has a document to send: the result of list or view, or
\* the "unrecognized query" error.
HandleAnswers(w) ==
    /\ pc[w] = "handle"
    /\ Goto(w, "respond")
    /\ UNCHANGED <<listening, ctl, lock, pool, sock, life, op, armed, stale, stream, cur>>

\* FrontendServer::handleNotFound only prints, and ResourceHandler::list and
\* view do nothing when DB::execute fails: the handler returns without sending
\* a response and without finishing the connection.
HandleIgnores(w) ==
    /\ pc[w] = "handle"
    /\ Return(w)
    /\ UNCHANGED <<listening, ctl, pool, sock, life, op, armed, stale, stream>>

\* Mutant: the handler finishes the connection itself after posting the write.
WriteAndFinish(w) ==
    LET c == cur[w] IN
    /\ op' = [op EXCEPT ![c] = "write"]
    /\ stream' = [stream EXCEPT ![c].answered = Append(@, stream[c].pos)]
    /\ Goto(w, "finish")
    /\ UNCHANGED <<listening, ctl, lock, pool, sock, life, armed, stale, cur>>

\* HTTPWriter::send on an open connection posts the write.
Write(w) ==
    LET c == cur[w] IN
    /\ op' = [op EXCEPT ![c] = "write"]
    /\ stream' = [stream EXCEPT ![c].answered = Append(@, stream[c].pos)]
    /\ Return(w)
    /\ UNCHANGED <<listening, ctl, pool, sock, life, armed, stale>>

\* A resource handler sends.  LostConnectionException is caught in
\* HTTPServer::handleRequest, which finishes the connection on this stack,
\* m_mutex included if the request was a pipelined one.
Respond(w) ==
    /\ pc[w] = "respond"
    /\ \/ sock[cur[w]] = "open" /\ Write(w)
       \/ /\ sock[cur[w]] # "open"
          /\ life' = [life EXCEPT ![cur[w]] = "CLOSE"]
          /\ Goto(w, "finish")
          /\ UNCHANGED <<listening, ctl, lock, pool, sock, op, armed, stale, stream, cur>>

\* handleBadRequest sends.  LostConnectionException leaves the handler and ends
\* in PionScheduler::processServiceWork: the connection is not finished.
Report(w) ==
    /\ pc[w] = "report"
    /\ \/ sock[cur[w]] = "open" /\ Write(w)
       \/ /\ sock[cur[w]] # "open"
          /\ Return(w)
          /\ UNCHANGED <<listening, ctl, pool, sock, life, op, armed, stale, stream>>

\* HTTPResponseWriter::handleWrite; an error makes the connection close.
RunWrite(w, c, ok) ==
    /\ op[c] = "write"
    /\ Dispatch(w, c, "finish")
    /\ life' = [life EXCEPT ![c] = IF ok THEN @ ELSE "CLOSE"]
    /\ UNCHANGED <<listening, ctl, lock, pool, sock, armed, stale, stream>>

-----------------------------------------------------------------------------
(* TCPServer::finishConnection, start and stop.                            *)

\* finishConnection keeps m_mutex while it calls handleConnection.
KeepConnection(w) ==
    /\ pc[w] = "finish"
    /\ lock = Free
    /\ listening /\ life[cur[w]] # "CLOSE"
    /\ lock' = w
    /\ Goto(w, "connect")
    /\ UNCHANGED <<listening, ctl, pool, sock, life, op, armed, stale, stream, cur>>

\* Mutant: only connections that asked for it are closed.
EraseClosingOnly(w) ==
    /\ pc[w] = "finish"
    /\ lock = Free
    /\ life[cur[w]] = "CLOSE"
    /\ Erase({cur[w]})
    /\ Return(w)
    /\ UNCHANGED <<listening, ctl, op, armed, stale>>

\* finishConnection erases a connection that is not kept alive.
EraseConnection(w) ==
    /\ pc[w] = "finish"
    /\ lock = Free
    /\ ~listening \/ life[cur[w]] = "CLOSE"
    /\ Erase({cur[w]})
    /\ Return(w)
    /\ UNCHANGED <<listening, ctl, op, armed, stale>>

\* start(), up to the unlock that precedes its call of listen().  It looks at
\* m_is_listening alone: another caller's stop() may still be waiting.
Start(k) ==
    /\ ctl[k] = "out"
    /\ lock = Free
    /\ ~listening
    /\ ObjectLeft
    /\ listening' = TRUE
    /\ ctl' = [ctl EXCEPT ![k] = "starting"]
    /\ UNCHANGED <<lock, pool, sock, life, op, armed, stale, stream, pc, cur>>

StartListen(k, c) ==
    /\ ctl[k] = "starting"
    /\ listen(c)
    /\ ctl' = [ctl EXCEPT ![k] = "out"]
    /\ UNCHANGED <<listening, lock, armed, stale, pc, cur>>

\* stop(), up to its first wait: the acceptor is closed, stop(false) closes
\* every connection of the pool (one whose accept has completed but not run is
\* closed, too), and orphans are pruned.  m_is_listening is already set while
\* another caller's start() has its listen() to do.
Stop(k, wait) ==
    /\ ctl[k] = "out"
    /\ lock = Free
    /\ listening
    /\ listening' = FALSE
    /\ ctl' = [ctl EXCEPT ![k] = IF pool \ Orphans = {} THEN "out"
                                ELSE IF wait THEN "draining" ELSE "closing"]
    /\ pool' = pool \ Orphans
    /\ sock' = [c \in Conn |-> IF c \in Orphans THEN "none"
                               ELSE IF c \in pool /\ ~wait THEN "closed"
                               ELSE sock[c]]
    /\ life' = [c \in Conn |-> IF c \in Orphans THEN "CLOSE" ELSE life[c]]
    /\ stream' = [c \in Conn |-> IF c \in Orphans THEN NewStream ELSE stream[c]]
    /\ UNCHANGED <<lock, op, armed, stale, pc, cur>>

\* Mutant: stop() gives up after one wait.
StopWakesOnce(k) ==
    /\ ctl[k] \in {"draining", "closing"}
    /\ lock = Free
    /\ Erase(Orphans)
    /\ ctl' = [ctl EXCEPT ![k] = "out"]
    /\ UNCHANGED <<listening, lock, op, armed, stale, pc, cur>>

\* stop() wakes (notified or after 250 ms), prunes, and returns when the pool
\* is empty.
StopWakes(k) ==
    /\ ctl[k] \in {"draining", "closing"}
    /\ lock = Free
    /\ Erase(Orphans)
    /\ ctl' = IF pool \ Orphans = {} THEN [ctl EXCEPT ![k] = "out"] ELSE ctl
    /\ UNCHANGED <<listening, lock, op, armed, stale, pc, cur>>

-----------------------------------------------------------------------------
Init ==
    /\ listening = FALSE
    /\ ctl = [k \in Caller |-> "out"]
    /\ lock = Free
    /\ pool = {}
    /\ sock = [c \in Conn |-> "none"]
    /\ life = [c \in Conn |-> "CLOSE"]
    /\ op = [c \in Conn |-> "none"]
    /\ armed = {}
    /\ stale = {}
    /\ stream = [c \in Conn |-> NewStream]
    /\ pc = [w \in Worker |-> "idle"]
    /\ cur = [w \in Worker |-> NoConn]

\* What a worker does with the completion it picks.
Pick(w, c) ==
    \/ RunAccept(w, c)
    \/ RunAcceptError(w, c)
    \/ \E n \in 0..MaxRequests, cut \in {"yes", "no"} : RunRead(w, c, n, cut)
    \/ RunReadError(w, c)
    \/ \E ok \in BOOLEAN : RunWrite(w, c, ok)

\* The steps of a handler that is running on w.
Run(w) ==
    \/ \E c \in Conn : Listen(w, c)
    \/ handleConnection(w)
    \/ ConsumePiece(w)
    \/ \E keepAlive \in BOOLEAN : ConsumeMessage(w, keepAlive)
    \/ ConsumeBadMessage(w)
    \/ HandleAnswers(w)
    \/ HandleIgnores(w)
    \/ Respond(w)
    \/ Report(w)
    \/ KeepConnection(w)
    \/ EraseConnection(w)

Timer(c) == TimerFires(c) \/ StaleTimerRuns(c)

Control(k) ==
    \/ Start(k)
    \/ \E c \in Conn : StartListen(k, c)
    \/ \E wait \in BOOLEAN : Stop(k, wait)
    \/ StopWakes(k)

Next ==
    \/ \E c \in Conn : ClientSend(c)
    \/ \E w \in Worker, c \in Conn : Pick(w, c)
    \/ \E w \in Worker : Run(w)
    \/ \E c \in Conn : Timer(c)
    \/ \E k \in Caller : Control(k)

Spec == Init /\ [][Next]_vars

-----------------------------------------------------------------------------
(* Fairness.  A running handler is scheduled and obtains m_mutex in time   *)
(* (strong: the mutex may be taken by others in between).  The completion  *)
(* of an operation on a closed socket, or of the accept on a closed        *)
(* acceptor, is dispatched, and stop()'s wait of 250 ms ends.  Nothing is  *)
(* assumed of clients: none has to connect, send, or read its response.    *)

Aborted(w, c) ==
    \/ sock[c] = "closed" /\ (RunReadError(w, c) \/ RunWrite(w, c, FALSE))
    \/ ~listening /\ RunAcceptError(w, c)

Fairness ==
    /\ \A w \in Worker : SF_vars(Run(w))
    /\ \A c \in Conn : SF_vars(\E w \in Worker : Aborted(w, c))
    /\ \A c \in Conn : SF_vars(StaleTimerRuns(c))
    /\ \A k \in Caller : SF_vars(StopWakes(k))

FairSpec == Spec /\ Fairness

-----------------------------------------------------------------------------
(* Properties.                                                             *)

\* The types of the variables.
TypeOK ==
    /\ listening \in BOOLEAN
    /\ ctl \in [Caller -> Ctl]
    /\ lock \in Worker \cup {Free}
    /\ pool \subseteq Conn
    /\ sock \in [Conn -> {"none", "open", "closed"}]
    /\ life \in [Conn -> Lifecycle]
    /\ op \in [Conn -> Op]
    /\ armed \subseteq Conn
    /\ stale \subseteq Conn
    /\ stream \in [Conn -> Stream]
    /\ pc \in [Worker -> Point]
    /\ cur \in [Worker -> Conn \cup {NoConn}]

\* finishConnection calls handleConnection with the non-recursive m_mutex held,
\* and a pipelined request is then parsed, handled and answered on that stack.
\* No path from there reaches finishConnection or listen again, although
\* handleRequest calls finish() when it finds the socket closed: the thread
\* would wait for itself, and with it the whole server.  (True only while calls
\* of start() and stop() do not overlap.)
NoSelfDeadlock ==
    \A w \in Worker : lock = w => pc[w] \notin {"listenOK", "listenErr", "finish"}

\* A connection has one owner at a time: while a thread serves it, no operation
\* is outstanding on it and no other thread serves it.  Neither TCPConnection
\* nor HTTPReader has a lock of its own.
OneOwner ==
    \A w \in Worker : cur[w] # NoConn =>
        /\ op[cur[w]] = "none"
        /\ \A v \in Worker : cur[v] = cur[w] => v = w

\* When every start() and stop() has returned and the server is down, no operation
\* is outstanding, no handler runs and m_mutex is free, so that the server object
\* may be destroyed (its destructor calls stop(false)).
QuietWhenDown ==
    ~listening /\ NoCall =>
        /\ pool = {} /\ lock = Free
        /\ \A c \in Conn : op[c] = "none"
        /\ \A w \in Worker : pc[w] = "idle"

\* The connections that stand for the accept loop: an accept is outstanding, or
\* its handler is about to post the next one.
Accepting ==
    {c \in Conn : \/ op[c] = "accept"
                  \/ \E w \in Worker : cur[w] = c /\ pc[w] \in {"listenOK", "listenErr"}}

\* While the server is up its accept loop does not die, through accept errors,
\* unlocked reads of m_is_listening, stops and restarts, overlapping ones included.
AcceptLoopAlive == Up => Accepting # {}

\* Nor does it fork, if calls of start() and stop() do not overlap.
AcceptLoopIntact == Up => \E c \in Accepting : Accepting = {c}

\* The n-th response written on a connection answers the n-th request the client
\* sent on it, whatever the reads cut the byte stream into and however many
\* requests are pipelined, and nothing is answered past a request that closes
\* the connection.
AnswersInOrder ==
    \A c \in Conn :
        LET s == stream[c] IN
        /\ \A i \in DOMAIN s.answered : s.answered[i] = i
        /\ s.last # 0 => Len(s.answered) <= s.last

\* c's request is being parsed or handled, or its response is being written.
Busy(c) ==
    \/ op[c] = "write"
    \/ \E w \in Worker : cur[w] = c /\ pc[w] \in {"consume", "handle", "respond", "report"}

\* While the server listens nothing closes a connection that is busy: the read
\* timer, whose callback may already be queued when the read completes, never
\* hits the response.
BusyStaysOpen ==
    [][\A c \in Conn :
          listening /\ listening' /\ sock[c] = "open" /\ Busy(c) => sock'[c] = "open"]_vars

\* stop(false) returns, whatever clients and handlers were doing when it was
\* called, unless another caller starts the server again, or calls stop() as well,
\* while it waits.
ClosingEnds ==
    \A k \in Caller :
        ctl[k] = "closing" ~> (ctl[k] = "out" \/ listening \/ \E j \in Caller \ {k} : ctl[j] # "out")

\* While the server is up it comes back, again and again, to a posted accept.
KeepsAccepting == [](Up => <>(~Up \/ \E c \in Conn : op[c] = "accept"))

\* TCPConnection::finish "should be called when a server has finished handling
\* the connection" (TCPConnection.hpp:603): a connection of the pool is always
\* held by an operation, a timer or a thread that will finish it.
HandledConnectionsFinish == Orphans = {}

=============================================================================
