---------------------------- MODULE HTTPMessage ----------------------------
(***************************************************************************)
(* The outgoing side of an HTTP message: the headers that frame its        *)
(* content (HTTPMessage), and the writer that buffers content and turns it *)
(* into bytes (HTTPWriter, HTTPRequestWriter, HTTPResponseWriter).         *)
(*                                                                         *)
(* The bytes of a connection are a sequence of tokens: <<"head", h>> is a  *)
(* start line with the headers h, <<"size", n>> is n in hex, <<"crlf">> is *)
(* a CRLF and <<"byte", c>> is a byte of content.                          *)
(***************************************************************************)
EXTENDS Integers, Sequences, SequencesExt

\* The headers that decide how a message is framed.
Framing == {"Connection", "Transfer-Encoding", "Content-Length"}

NoHeaders == [k \in Framing |-> <<>>]

\* changeValue leaves one value, addHeader adds one.
changeValue(dict, key, value) == [dict EXCEPT ![key] = <<value>>]
addHeader(dict, key, value) == [dict EXCEPT ![key] = Append(@, value)]
hasHeader(dict, key) == dict[key] # <<>>
getHeader(dict, key) == IF hasHeader(dict, key) THEN Head(dict[key]) ELSE ""

\* A message: content is m_content_buf with m_content_length bytes.
Message == [headers |-> NoHeaders, m_chunks_supported |-> FALSE, m_content_length |-> 0,
            content |-> <<>>, m_do_not_send_content_length |-> FALSE]

\* HTTPResponse::updateRequestInfo: a client that sent HTTP/1.1 knows chunks.
updateRequestInfo(m, version) == [m EXCEPT !.m_chunks_supported = @ \/ version = "1.1"]

\* HTTPRequest::setContent, and a response whose content was set.
setContent(m, data) == [m EXCEPT !.m_content_length = Len(data), !.content = data]

\* checkKeepAlive of the message that asks for an answer.
checkKeepAlive(version, connection) == connection # "close" /\ version = "1.1"

prepareHeadersForSend(m, keepAlive, usingChunks) ==
    LET h == changeValue(m.headers, "Connection", IF keepAlive THEN "Keep-Alive" ELSE "close")
    IN [m EXCEPT !.headers =
            CASE usingChunks /\ m.m_chunks_supported -> changeValue(h, "Transfer-Encoding", "chunked")
              [] ~usingChunks /\ ~m.m_do_not_send_content_length ->
                     changeValue(h, "Content-Length", m.m_content_length)
              [] OTHER -> h]

Bytes(data) == [i \in DOMAIN data |-> <<"byte", data[i]>>]

\* HTTPMessage::send, the blocking call: headers and content at once.
sendMessage(m, keepAlive) ==
    <<<<"head", prepareHeadersForSend(m, keepAlive, FALSE).headers>>>> \o Bytes(m.content)

-----------------------------------------------------------------------------
(* The writer.  stream is m_content_stream, buffers is what the content    *)
(* buffers hold; supports is m_client_supports_chunks.                     *)

NewWriter(m, supports) ==
    [msg |-> m, supports |-> supports, sending |-> FALSE, sentHeaders |-> FALSE,
     stream |-> <<>>, buffers |-> <<>>, m_content_length |-> 0]

flushContentStream(w) ==
    [w EXCEPT !.buffers = @ \o w.stream, !.m_content_length = @ + Len(w.stream), !.stream = <<>>]

\* write(const T&): text waits in the stream; write(data, length) and writeNoCopy
\* put it behind the text that was written before.
write(w, data) == [w EXCEPT !.stream = @ \o data]

writeNoCopy(w, data) ==
    IF data = <<>> THEN w
    ELSE [flushContentStream(w) EXCEPT !.buffers = @ \o data, !.m_content_length = @ + Len(data)]

clear(w) == [w EXCEPT !.buffers = <<>>, !.stream = <<>>, !.m_content_length = 0]

\* The content of a message that is given to a writer; one that starts with a NUL
\* byte is taken for an empty buffer.
WithContent(w) ==
    IF w.msg.m_content_length > 0 /\ w.msg.content # <<>> /\ Head(w.msg.content) # "NUL"
    THEN writeNoCopy(w, w.msg.content) ELSE w

\* The constructors: HTTPResponseWriter for a request or for a response,
\* HTTPRequestWriter with or without a request of the caller's.
ResponseWriterFor(version) ==
    LET m == updateRequestInfo(Message, version) IN NewWriter(m, m.m_chunks_supported)
ResponseWriter(m) == WithContent(NewWriter(m, m.m_chunks_supported))
RequestWriter(m) == WithContent(NewWriter(m, TRUE))

\* prepareBuffersForSend of the two writers.
prepareBuffersForSend(w, keepAlive) ==
    LET m == IF w.m_content_length > 0 THEN [w.msg EXCEPT !.m_content_length = w.m_content_length] ELSE w.msg
    IN [w EXCEPT !.msg = prepareHeadersForSend(m, keepAlive, w.sending), !.sentHeaders = TRUE]

\* prepareWriteBuffers, for a writer after flushContentStream: what is sent,
ChunkTokens(data, n) == <<<<"size", n>>, <<"crlf">>>> \o Bytes(data) \o <<<<"crlf">>>>
LastChunk == <<<<"size", 0>>, <<"crlf">>, <<"crlf">>>>

prepareWriteBuffers(w, keepAlive, final) ==
    LET chunking == w.supports /\ w.sending
        head == IF w.sentHeaders THEN <<>>
                ELSE <<<<"head", prepareBuffersForSend(w, keepAlive).msg.headers>>>>
        body == IF w.m_content_length = 0 THEN <<>>
                ELSE IF chunking THEN ChunkTokens(w.buffers, w.m_content_length) ELSE Bytes(w.buffers)
    IN head \o body \o (IF final /\ chunking THEN LastChunk ELSE <<>>)

\* and the writer after sendMoreData.
Prepared(w, keepAlive) == IF w.sentHeaders THEN w ELSE prepareBuffersForSend(w, keepAlive)

-----------------------------------------------------------------------------
(* A receiver that follows the framing (HTTPParser::finishHeaderParsing).  *)

NewReceiver == [at |-> "head", left |-> 0, content |-> <<>>, got |-> <<>>]

Complete(r) == [r EXCEPT !.at = "head", !.got = Append(@, r.content), !.content = <<>>]

TakeHead(r, h, isRequest) ==
    CASE getHeader(h, "Transfer-Encoding") = "chunked" -> [r EXCEPT !.at = "size"]
      [] getHeader(h, "Transfer-Encoding") # "chunked" /\ hasHeader(h, "Content-Length") ->
           IF getHeader(h, "Content-Length") = 0 THEN Complete(r)
           ELSE [r EXCEPT !.at = "body", !.left = getHeader(h, "Content-Length")]
      [] OTHER -> IF isRequest THEN Complete(r) ELSE [r EXCEPT !.at = "close"]

TakeToken(r, t, isRequest) ==
    CASE r.at = "head" /\ t[1] = "head" -> TakeHead(r, t[2], isRequest)
      [] r.at = "size" /\ t[1] = "size" -> [r EXCEPT !.at = IF t[2] = 0 THEN "last" ELSE "line", !.left = t[2]]
      [] r.at = "line" /\ t[1] = "crlf" -> [r EXCEPT !.at = "chunk"]
      [] r.at = "last" /\ t[1] = "crlf" -> [r EXCEPT !.at = "end"]
      [] r.at = "end" /\ t[1] = "crlf" -> Complete(r)
      [] r.at = "chunk" /\ t[1] = "byte" ->
           [r EXCEPT !.content = Append(@, t[2]), !.left = @ - 1, !.at = IF r.left = 1 THEN "chunkEnd" ELSE @]
      [] r.at = "chunkEnd" /\ t[1] = "crlf" -> [r EXCEPT !.at = "size"]
      [] r.at = "body" /\ t[1] = "byte" ->
           LET s == [r EXCEPT !.content = Append(@, t[2]), !.left = @ - 1] IN
           IF r.left = 1 THEN Complete(s) ELSE s
      [] r.at = "close" -> [r EXCEPT !.content = Append(@, IF t[1] = "byte" THEN t[2] ELSE "framing")]
      [] OTHER -> [r EXCEPT !.at = "bad"]

\* What the receiver of a connection's bytes has.
Received(tokens, isRequest, closed) ==
    LET r == FoldLeft(LAMBDA s, t : TakeToken(s, t, isRequest), NewReceiver, tokens) IN
    IF closed /\ r.at = "close" THEN Complete(r) ELSE r
=============================================================================
