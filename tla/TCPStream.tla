----------------------------- MODULE TCPStream -----------------------------
(***************************************************************************)
(* TCPStreamBuffer (net/include/pion/net/TCPStream.hpp): an iostream over  *)
(* a TCP connection.  The one thread that uses the stream starts an        *)
(* asynchronous operation with m_async_mutex held and waits until          *)
(* operationFinished(), called by a thread of the scheduler, signals       *)
(* m_async_done; there is no loop around the wait.                         *)
(*                                                                         *)
(* The bytes written are numbered from 1, and so are the bytes the peer    *)
(* sends; 0 is a byte of memory that was never set.  As iostream does, the *)
(* user stops writing once a write has failed.                             *)
(***************************************************************************)
EXTENDS Integers, Sequences

CONSTANTS
    WRITE_BUFFER_SIZE,
    PUT_BACK_MAX,
    READ_BUFFER_SIZE,
    MaxGiven,          \* bound: bytes the user writes
    MaxSent,           \* bound: bytes the peer sends
    MaxCall,           \* bound: bytes of one call
    Spurious,          \* wait() may return without a signal
    UngetAfterFailure  \* bytes are put back after a read that failed

\* The buffers of TCPStreamBuffer hold 8192 bytes each, 10 of them put back.
StreamAssumption ==
    /\ WRITE_BUFFER_SIZE \in Nat /\ WRITE_BUFFER_SIZE >= 2
    /\ PUT_BACK_MAX \in Nat
    /\ READ_BUFFER_SIZE \in Nat /\ READ_BUFFER_SIZE > PUT_BACK_MAX
    /\ MaxGiven \in Nat /\ MaxSent \in Nat /\ MaxCall \in Nat

VARIABLES
    out,                 \* the bytes from pbase() to pptr()
    written,             \* how many bytes the user has written
    m_read_buf,          \* the memory of the read buffer, from 0
    get,                 \* eback(), gptr() and egptr(), as places in it
    taken,               \* how many bytes are read and not put back
    call,                \* the call under way, and what it has left to do
    asleep,              \* the user waits for m_async_done
    m_async_error,       \* BOOLEAN
    m_bytes_transferred,
    ops,                 \* the asynchronous operations started, oldest first
    wire,                \* the bytes the peer has received
    fetched,             \* how many bytes of the peer have been received
    broken,              \* the connection is closed, at either end
    failed               \* "write", "read": a call has failed

buffers == <<out, written, m_read_buf, get, taken, call, asleep, failed>>
async == <<m_async_error, m_bytes_transferred>>
connection == <<ops, wire, fetched, broken>>
streamVars == <<buffers, async, connection>>

NoCall == [op |-> "none"]
Least(a, b) == IF a <= b THEN a ELSE b
Numbers(from, n) == [i \in 1..n |-> from + i]

\* setupBuffers(), on a connection that is open
StreamInit ==
    /\ out = <<>> /\ written = 0
    /\ m_read_buf = [i \in 0..READ_BUFFER_SIZE - 1 |-> 0]
    /\ get = [eback |-> PUT_BACK_MAX, gptr |-> PUT_BACK_MAX, egptr |-> PUT_BACK_MAX]
    /\ taken = 0
    /\ call = NoCall /\ asleep = FALSE
    /\ m_async_error = FALSE /\ m_bytes_transferred = 0
    /\ ops = <<>> /\ wire = <<>> /\ fetched = 0 /\ broken = FALSE
    /\ failed = {}

-----------------------------------------------------------------------------
(* Waiting for the connection                                              *)

\* An asynchronous operation is started and waited for: one step, since the
\* mutex is held from before the start until the wait.
Await(c, operation) ==
    /\ call' = c
    /\ asleep' = TRUE
    /\ m_bytes_transferred' = 0
    /\ ops' = Append(ops, [operation EXCEPT !.late = broken])
    /\ UNCHANGED <<m_async_error, wire, fetched, broken>>

\* flushOutput() up to the wait; without bytes there is nothing to send.
Flush(c, bytes) ==
    /\ out' = bytes
    /\ IF bytes = <<>> THEN UNCHANGED <<call, asleep, async, connection>>
       ELSE Await(c, [op |-> "write", bytes |-> bytes, late |-> FALSE])

\* async_write: all the bytes, or those that left before the error; none
\* where the connection was closed before.
Written(operation) ==
    \E k \in 0..Len(operation.bytes) :
        /\ k = Len(operation.bytes) \/ broken
        /\ operation.late => k = 0
        /\ m_async_error' = (k < Len(operation.bytes))
        /\ m_bytes_transferred' = k
        /\ wire' = wire \o SubSeq(operation.bytes, 1, k)
        /\ UNCHANGED <<m_read_buf, fetched>>

\* async_read_some: at least a byte of what the peer sent, or an error.
Received ==
    /\ \/ \E k \in 1..Least(MaxSent - fetched, READ_BUFFER_SIZE - PUT_BACK_MAX) :
            /\ m_async_error' = FALSE
            /\ m_bytes_transferred' = k
            /\ m_read_buf' = [i \in DOMAIN m_read_buf |->
                                IF i \in PUT_BACK_MAX..PUT_BACK_MAX + k - 1
                                THEN fetched + 1 + i - PUT_BACK_MAX ELSE m_read_buf[i]]
            /\ fetched' = fetched + k
       \/ /\ broken
          /\ m_async_error' = TRUE
          /\ m_bytes_transferred' = 0
          /\ UNCHANGED <<m_read_buf, fetched>>
    /\ UNCHANGED wire

\* Mutant: only success is signalled.
OperationFinishedQuietly ==
    /\ ops # <<>>
    /\ IF Head(ops).op = "write" THEN Written(Head(ops)) ELSE Received
    /\ ops' = Tail(ops)
    /\ asleep' = (asleep /\ m_async_error')
    /\ UNCHANGED <<out, written, get, taken, call, failed, broken>>

\* operationFinished(), once the operation is over
OperationFinished ==
    /\ ops # <<>>
    /\ IF Head(ops).op = "write" THEN Written(Head(ops)) ELSE Received
    /\ ops' = Tail(ops)
    /\ asleep' = FALSE
    /\ UNCHANGED <<out, written, get, taken, call, failed, broken>>

\* Bounds: one operation at most is left behind, and the wire stays short.
WakeUp ==
    /\ Spurious
    /\ asleep /\ Len(ops) = 1
    /\ Len(wire) <= MaxGiven
    /\ asleep' = FALSE
    /\ UNCHANGED <<out, written, m_read_buf, get, taken, call, failed, async, connection>>

\* The peer closes the connection, or another thread calls close().
Close ==
    /\ ~broken
    /\ broken' = TRUE
    /\ UNCHANGED <<buffers, async, ops, wire, fetched>>

-----------------------------------------------------------------------------
(* Writing                                                                 *)

MayWrite == call = NoCall /\ "write" \notin failed /\ written < MaxGiven
Room == WRITE_BUFFER_SIZE - 1 - Len(out)
Reading == <<m_read_buf, get, taken>>

\* sputc(): a full buffer takes the byte all the same, and overflow() flushes.
Put ==
    /\ MayWrite
    /\ written' = written + 1
    /\ IF Room > 0
       THEN /\ out' = Append(out, written + 1)
            /\ UNCHANGED <<call, asleep, async, connection>>
       ELSE Flush([op |-> "flush", rest |-> <<>>], Append(out, written + 1))
    /\ UNCHANGED <<Reading, failed>>

\* What lies behind the first k bytes of s in memory.
From(s, k) == [i \in 1..Len(s) - k |-> IF k + i \in DOMAIN s THEN s[k + i] ELSE 0]

\* xsputn(): what does not fit waits until the buffer is flushed.
xsputn(n) ==
    /\ MayWrite
    /\ written + n <= MaxGiven
    /\ written' = written + n
    /\ LET s == Numbers(written, n)
       IN IF Room >= n
          THEN /\ out' = out \o s
               /\ UNCHANGED <<call, asleep, async, connection>>
          ELSE Flush([op |-> "flush", rest |-> From(s, Room)], out \o SubSeq(s, 1, Room))
    /\ UNCHANGED <<Reading, failed>>

\* sync(), which the destructor calls too.
sync ==
    /\ call = NoCall
    /\ Flush([op |-> "flush", rest |-> <<>>], out)
    /\ UNCHANGED <<written, Reading, failed>>

\* pbump(-bytes_sent) keeps the beginning of the buffer (nothing where it
\* passes pbase()).
Kept == SubSeq(out, 1, Len(out) - m_bytes_transferred)

\* Mutant: memcpy() without pbump()
OverwrittenUnmoved(bytes, rest) == bytes

\* memcpy() to pbase(), and pbump()
Overwritten(bytes, rest) ==
    [i \in 1..Len(bytes) + Len(rest) |->
        IF i <= Len(rest) THEN rest[i] ELSE IF i <= Len(bytes) THEN bytes[i] ELSE 0]

\* The end of flushOutput(), and of xsputn(): what is left goes to the buffer,
\* or is sent at once when it would fill it.
Flushed ==
    /\ call.op = "flush" /\ ~asleep
    /\ \/ /\ m_async_error
          /\ out' = Kept
          /\ call' = NoCall
          /\ failed' = failed \cup {"write"}
          /\ UNCHANGED <<asleep, async, connection>>
       \/ /\ ~m_async_error
          /\ Len(call.rest) < WRITE_BUFFER_SIZE - 1
          /\ out' = IF call.rest = <<>> THEN Kept ELSE Overwritten(Kept, call.rest)
          /\ call' = NoCall
          /\ UNCHANGED <<failed, asleep, async, connection>>
       \/ /\ ~m_async_error
          /\ Len(call.rest) >= WRITE_BUFFER_SIZE - 1
          /\ out' = Kept
          /\ Await([op |-> "direct", rest |-> call.rest], [op |-> "write", bytes |-> call.rest, late |-> FALSE])
          /\ UNCHANGED failed
    /\ UNCHANGED <<written, Reading>>

\* The end of xsputn() without the buffer: fewer bytes than asked for are a
\* failure to iostream.
Sent ==
    /\ call.op = "direct" /\ ~asleep
    /\ call' = NoCall
    /\ failed' = IF m_bytes_transferred < Len(call.rest) THEN failed \cup {"write"} ELSE failed
    /\ UNCHANGED <<out, written, Reading, asleep, async, connection>>

-----------------------------------------------------------------------------
(* Reading                                                                 *)

\* The bytes to be kept in front of the next ones.
put_back_num == Least(get.gptr - get.eback, PUT_BACK_MAX)

\* underflow() up to the wait: memmove() of the bytes to be kept.
Underflow(c) ==
    /\ m_read_buf' = [i \in DOMAIN m_read_buf |->
                        IF i \in PUT_BACK_MAX - put_back_num..PUT_BACK_MAX - 1
                        THEN m_read_buf[get.gptr - PUT_BACK_MAX + i] ELSE m_read_buf[i]]
    /\ Await([c EXCEPT !.kept = put_back_num], [op |-> "read", late |-> FALSE])

\* xsgetn(), and sgetc() where n is 0: the read may need a byte to be there.
Read(n) ==
    /\ call = NoCall
    /\ call' = [op |-> "get", want |-> n, peek |-> n = 0, kept |-> 0]
    /\ UNCHANGED <<out, written, m_read_buf, get, taken, asleep, failed, async, connection>>

\* A round of xsgetn(): copy what is there, and underflow for more.
Get ==
    /\ call.op = "get" /\ ~asleep
    /\ LET n == Least(call.want, get.egptr - get.gptr)
           empty == get.gptr + n = get.egptr
       IN IF n < call.want \/ (call.peek /\ empty)
          THEN IF n > 0
               THEN /\ get' = [get EXCEPT !.gptr = @ + n]
                    /\ taken' = taken + n
                    /\ call' = [call EXCEPT !.want = @ - n]
                    /\ UNCHANGED <<m_read_buf, asleep, async, connection>>
               ELSE /\ Underflow([call EXCEPT !.op = "underflow"])
                    /\ UNCHANGED <<get, taken>>
          ELSE /\ get' = [get EXCEPT !.gptr = @ + n]
               /\ taken' = taken + n
               /\ call' = NoCall
               /\ UNCHANGED <<m_read_buf, asleep, async, connection>>
    /\ UNCHANGED <<out, written, failed>>

\* The end of underflow(): the buffer is set up around what has come.
Underflown ==
    /\ call.op = "underflow" /\ ~asleep
    /\ IF m_async_error
       THEN /\ call' = NoCall
            /\ failed' = failed \cup {"read"}
            /\ UNCHANGED get
       ELSE /\ call' = [call EXCEPT !.op = "get"]
            /\ get' = [eback |-> PUT_BACK_MAX - call.kept,
                       gptr |-> PUT_BACK_MAX,
                       egptr |-> PUT_BACK_MAX + m_bytes_transferred]
            /\ UNCHANGED failed
    /\ UNCHANGED <<out, written, m_read_buf, taken, asleep, async, connection>>

\* sungetc()
PutBack ==
    /\ call = NoCall
    /\ "read" \in failed => UngetAfterFailure
    /\ get.gptr > get.eback
    /\ get' = [get EXCEPT !.gptr = @ - 1]
    /\ taken' = taken - 1
    /\ UNCHANGED <<out, written, m_read_buf, call, asleep, failed, async, connection>>

-----------------------------------------------------------------------------

StreamNext ==
    \/ Put \/ sync \/ Flushed \/ Sent
    \/ \E n \in 1..MaxCall : xsputn(n)
    \/ \E n \in 0..MaxCall : Read(n)
    \/ Get \/ Underflown \/ PutBack
    \/ OperationFinished \/ Close \/ WakeUp

StreamSpec == StreamInit /\ [][StreamNext]_streamVars

\* asio completes what has been started, and the woken thread goes on.
FairStreamSpec == StreamSpec /\ WF_streamVars(OperationFinished) /\ WF_streamVars(Flushed \/ Sent \/ Get \/ Underflown)

-----------------------------------------------------------------------------
(* Properties                                                              *)

\* What the peer receives is what was written, in that order, each byte once
\* (TCPStream.hpp 115-132, 203-242).
PeerGetsPrefix == \A i \in DOMAIN wire : wire[i] = i

\* As long as no write has failed, every byte written is with the peer or in
\* the buffer when a call returns, so that sync() leaves nothing behind
\* (TCPStream.hpp 115-132, 182-242, 279-281).
NothingLost ==
    call = NoCall /\ "write" \notin failed => wire \o out = Numbers(0, written)

\* What is read, and what is read again after bytes were put back, is what the
\* peer sent, in that order (TCPStream.hpp 139-174, 252-272).
ReadsInOrder ==
    call = NoCall =>
        \A i \in get.eback..get.egptr - 1 :
            (UngetAfterFailure \/ "read" \notin failed \/ i >= get.gptr)
                => m_read_buf[i] = taken + 1 + i - get.gptr

\* The peer of a stream receives what was written, in that order, each byte once; as long
\* as no write has failed nothing is lost when a call returns; and what is read, also after
\* bytes were put back, is what the peer sent.
StreamsInOrder == PeerGetsPrefix /\ NothingLost /\ ReadsInOrder

\* A call under way on a connection that is closed returns: that is why the
\* reads are asynchronous (TCPStream.hpp 152-155).
CloseReleases == broken ~> call = NoCall
=============================================================================
