----------------------------- MODULE HTTPWriter -----------------------------
(***************************************************************************)
(* A connection on which a program sends messages with the writers of      *)
(* pion-net, one after the other, calling them as their documentation      *)
(* says: content is written, sent as a whole with send() or in pieces with *)
(* sendChunk() and sendFinalChunk(), and the writer is cleared after each  *)
(* chunk.  Writes complete later, or fail.                                 *)
(***************************************************************************)
EXTENDS HTTPMessage

CONSTANTS
    IsRequest,   \* the messages are requests
    Versions,    \* HTTP versions of the client
    Messages,    \* messages a program may give to a writer
    Data,        \* pieces of content a program may write
    MaxWrites,   \* bound: pieces written for one message
    MaxMessages  \* bound: messages sent on one connection

VARIABLES
    version,   \* of the requests that are answered
    keepAlive, \* the connection's lifecycle is not LIFECYCLE_CLOSE
    open,      \* TCPConnection::is_open
    state,     \* "idle", "writing", "sending" a chunk or "ending" the message
    w,         \* the writer
    wire,      \* the tokens sent on the connection
    pending,   \* the tokens of the write that is under way
    written,   \* what the program wrote for the current message
    sent       \* the contents of the messages that were sent

vars == <<version, keepAlive, open, state, w, wire, pending, written, sent>>

Idle == NewWriter(Message, FALSE)

Init ==
    /\ version \in Versions
    /\ keepAlive = checkKeepAlive(version, "")
    /\ open = TRUE
    /\ state = "idle"
    /\ w = Idle
    /\ wire = <<>>
    /\ pending = <<>>
    /\ written = <<>>
    /\ sent = <<>>

\* A writer is created, for a request that came or for a message of the program's.
Create ==
    /\ open
    /\ state = "idle"
    /\ Len(sent) < MaxMessages
    /\ (sent = <<>> \/ keepAlive)
    /\ state' = "writing"
    /\ \/ ~IsRequest /\ w' = ResponseWriterFor(version) /\ written' = <<>>
       \/ \E m \in Messages :
            /\ IF IsRequest THEN w' = RequestWriter(m)
               ELSE w' \in {ResponseWriter(m), ResponseWriter(updateRequestInfo(m, version))}
            /\ written' = m.content
    /\ UNCHANGED <<version, keepAlive, open, wire, pending, sent>>

Write(data) ==
    /\ state = "writing"
    /\ Len(written) + Len(data) <= MaxWrites
    /\ w' \in {write(w, data), writeNoCopy(w, data)}
    /\ written' = written \o data
    /\ UNCHANGED <<version, keepAlive, open, state, wire, pending, sent>>

\* sendMoreData, once the writer knows whether it sends chunks.
sendMoreData(v, final) ==
    LET f == flushContentStream(v) IN
    /\ pending' = prepareWriteBuffers(f, keepAlive', final)
    /\ w' = Prepared(f, keepAlive')

\* Mutant: the connection stays alive after chunks to a client that knows none.
SendChunkKeepingAlive ==
    /\ state = "writing"
    /\ open
    /\ UNCHANGED keepAlive
    /\ sendMoreData([w EXCEPT !.sending = TRUE], FALSE)
    /\ state' = "sending"
    /\ UNCHANGED <<version, open, wire, written, sent>>

SendChunk ==
    /\ state = "writing"
    /\ open
    /\ keepAlive' = (keepAlive /\ w.supports)
    /\ sendMoreData([w EXCEPT !.sending = TRUE], FALSE)
    /\ state' = "sending"
    /\ UNCHANGED <<version, open, wire, written, sent>>

\* "must be called following any calls to sendChunk()": a program does not call it
\* first for a client without chunks, whose connection only sendChunk() would close.
SendFinalChunk ==
    /\ state = "writing"
    /\ open
    /\ w.sending \/ w.supports
    /\ UNCHANGED keepAlive
    /\ sendMoreData([w EXCEPT !.sending = TRUE], TRUE)
    /\ state' = "ending"
    /\ UNCHANGED <<version, open, wire, written, sent>>

\* send() is for a message that is sent as a whole.
Send ==
    /\ state = "writing"
    /\ open
    /\ ~w.sending
    /\ UNCHANGED keepAlive
    /\ sendMoreData(w, FALSE)
    /\ state' = "ending"
    /\ UNCHANGED <<version, open, wire, written, sent>>

\* The connection is gone: sendMoreData throws LostConnectionException.
SendLost ==
    /\ state = "writing"
    /\ ~open
    /\ state' = "idle"
    /\ w' = Idle
    /\ UNCHANGED <<version, keepAlive, open, wire, pending, written, sent>>

\* The write completes: after a chunk the program clears the writer.
HandleWrite ==
    /\ state \in {"sending", "ending"}
    /\ open
    /\ wire' = wire \o pending
    /\ pending' = <<>>
    /\ IF state = "sending"
       THEN state' = "writing" /\ w' = clear(w) /\ UNCHANGED <<open, sent>>
       ELSE /\ state' = "idle"
            /\ w' = Idle
            /\ sent' = Append(sent, written)
            /\ open' = keepAlive
    /\ UNCHANGED <<version, keepAlive, written>>

\* The write fails: the connection will be closed.
HandleWriteError ==
    /\ state \in {"sending", "ending"}
    /\ keepAlive' = FALSE
    /\ open' = FALSE
    /\ pending' = <<>>
    /\ state' = "idle"
    /\ w' = Idle
    /\ UNCHANGED <<version, wire, written, sent>>

\* HTTPMessage::send: the program sends a message of its own, and waits.
SendMessage(m) ==
    /\ open
    /\ state = "idle"
    /\ Len(sent) < MaxMessages
    /\ wire' = wire \o sendMessage(m, keepAlive)
    /\ sent' = Append(sent, m.content)
    /\ written' = m.content
    /\ UNCHANGED <<version, keepAlive, open, state, w, pending>>

\* The peer goes away while a message is being written.
Lost ==
    /\ open
    /\ state = "writing"
    /\ open' = FALSE
    /\ UNCHANGED <<version, keepAlive, state, w, wire, pending, written, sent>>

NewConnection ==
    /\ state = "idle"
    /\ ~open \/ Len(sent) = MaxMessages
    /\ version' \in Versions
    /\ keepAlive' = checkKeepAlive(version', "")
    /\ open' = TRUE
    /\ wire' = <<>>
    /\ written' = <<>>
    /\ sent' = <<>>
    /\ UNCHANGED <<state, w, pending>>

Next ==
    \/ Create
    \/ \E data \in Data : Write(data)
    \/ SendChunk
    \/ SendFinalChunk
    \/ Send
    \/ SendLost
    \/ HandleWrite
    \/ HandleWriteError
    \/ \E m \in Messages : SendMessage(m)
    \/ Lost
    \/ NewConnection

Spec == Init /\ [][Next]_vars

-----------------------------------------------------------------------------
(* Properties.                                                             *)

\* What was sent can be read back: a receiver that follows the framing of the
\* headers finds exactly the contents that were written, message by message,
\* however they were cut into writes and chunks, and a message that is not framed
\* ends with the connection.  It is never out of step with the sender, and of a
\* message that is on its way, or failed, it has a beginning.
ReceiverGetsContent ==
    LET r == Received(wire, IsRequest, ~open)
        current == IF Len(r.got) > Len(sent) THEN Last(r.got) ELSE r.content
    IN /\ r.at # "bad"
       /\ state = "idle" /\ open => r.at = "head"
       /\ IsPrefix(sent, r.got)
       /\ Len(r.got) <= Len(sent) + (IF open THEN 0 ELSE 1)
       /\ IsPrefix(current, written)

\* HTTPWriter.hpp, send(): "Sends all data buffered as a single HTTP message (without
\* chunking)": a message sent as a whole does not announce chunks.
WholeMessageUnchunked ==
    state = "ending" /\ ~w.sending => getHeader(w.msg.headers, "Transfer-Encoding") # "chunked"

\* HTTPWriter.hpp: m_content_length is "The length (in bytes) of the response content
\* to be sent (Content-Length)": the header says what the buffers hold.
LengthIsContent ==
    state = "ending" /\ ~w.sending => getHeader(w.msg.headers, "Content-Length") = Len(w.buffers)
=============================================================================
