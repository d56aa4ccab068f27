----------------------------- MODULE HTTPParser -----------------------------
(***************************************************************************)
(* The incremental HTTP parser (HTTPParser.cpp) with the part of the       *)
(* message it fills (HTTPMessage), fed with a byte stream that reads cut   *)
(* anywhere, as HTTPReader and HTTPMessage::receive feed it.               *)
(*                                                                         *)
(* A byte is a symbol.  The words the parser compares as a whole are one   *)
(* symbol each: CL and TE are the header names Content-Length and          *)
(* Transfer-Encoding, Chunked is the value "chunked".  Cookies and query   *)
(* pairs, which are parsed when the headers are complete, are in HTTPTypes.*)
(***************************************************************************)
EXTENDS Integers, Sequences, SequencesExt, TLC

CONSTANTS
    IsRequest,          \* m_is_request
    ByReceive,          \* the messages are read by HTTPMessage::receive, not by an HTTPReader
    Sent,               \* the sequences of messages a peer may send
    MaxLost,            \* bound: how many bytes may be missing at once
    m_max_content_length,
    METHOD_MAX, RESOURCE_MAX, QUERY_STRING_MAX, STATUS_MESSAGE_MAX,
    HEADER_NAME_MAX, HEADER_VALUE_MAX

VARIABLES
    sent,   \* the messages the peer sends on this connection
    at,     \* how many bytes of them have been read (or lost)
    p,      \* the parser and the message it is filling
    got,    \* the messages parsed so far
    losses, \* bytes that were missing from the current message
    open    \* the peer has not closed the connection

vars == <<sent, at, p, got, losses, open>>

-----------------------------------------------------------------------------
(* Bytes.                                                                  *)

isControl(c) == c \in {"CR", "LF", "TAB", "Ctl"}
isSpecial(c) == c \in {"SP", "TAB", "Colon", "Question", "Slash", "Equals", "Semicolon"}
isToken(c) == c # "Ext" /\ ~isControl(c) /\ ~isSpecial(c)

Digit == [d0 |-> 0, d1 |-> 1, d2 |-> 2, d3 |-> 3, d4 |-> 4]
isDigit(c) == c \in DOMAIN Digit
HexDigit == Digit @@ [A |-> 10, B |-> 11]
isHexDigit(c) == c \in DOMAIN HexDigit

Number(s, base) == FoldLeft(LAMBDA n, c : base * n + HexDigit[c], 0, s)

Trim(s) ==
    LET inner == {i \in DOMAIN s : s[i] # "SP"} IN
    IF inner = {} THEN <<>>
    ELSE SubSeq(s, CHOOSE i \in inner : \A j \in inner : i <= j,
                   CHOOSE i \in inner : \A j \in inner : i >= j)

-----------------------------------------------------------------------------
(* The parser object and the message.                                      *)

\* rc is the tribool of the last call; a byte of content that was allocated and
\* not written is "Undef".
NewParser ==
    [buf |-> <<>>, rc |-> "more", message |-> "PARSE_START",
     headers |-> IF IsRequest THEN "PARSE_METHOD_START" ELSE "PARSE_HTTP_VERSION_H",
     chunks |-> "PARSE_CHUNK_SIZE_START",
     m_method |-> <<>>, m_resource |-> <<>>, m_query_string |-> <<>>,
     m_status_code |-> 0, m_status_message |-> <<>>, m_header_name |-> <<>>,
     m_header_value |-> <<>>, m_chunk_size_str |-> <<>>, size |-> 0, inChunk |-> 0,
     remaining |-> 0, contentRead |-> 0, total |-> 0,
     msg |-> [version |-> <<1, 1>>, fields |-> <<>>, content |-> <<>>, chunkCache |-> <<>>,
              chunked |-> FALSE, valid |-> FALSE, status |-> "NONE",
              missing |-> FALSE, after |-> FALSE, head |-> FALSE]]

\* Mutant: the query string of the last message stays.
resetKeepingQuery(r) ==
    [NewParser EXCEPT !.buf = r.buf, !.m_query_string = r.m_query_string,
        !.m_header_name = r.m_header_name, !.m_header_value = r.m_header_value,
        !.m_chunk_size_str = r.m_chunk_size_str, !.size = r.size, !.inChunk = r.inChunk,
        !.remaining = r.remaining]

\* HTTPParser::reset, for a parser that is used again with a cleared message:
\* what belongs to a header line or a chunk is left as it is.
reset(r) ==
    [NewParser EXCEPT !.buf = r.buf,
        !.m_header_name = r.m_header_name, !.m_header_value = r.m_header_value,
        !.m_chunk_size_str = r.m_chunk_size_str, !.size = r.size, !.inChunk = r.inChunk,
        !.remaining = r.remaining]

\* getHeader: the value of the first field with this name, <<>> if there is none.
HasField(r, name) == \E i \in DOMAIN r.msg.fields : r.msg.fields[i][1] = <<name>>
Field(r, name) ==
    LET i == SelectInSeq(r.msg.fields, LAMBDA f : f[1] = <<name>>) IN
    IF i = 0 THEN <<>> ELSE r.msg.fields[i][2]

Undef(n) == [i \in 1..n |-> "Undef"]

-----------------------------------------------------------------------------
(* parseHeaders.                                                           *)

EndOfLine == [CR |-> "PARSE_EXPECTING_NEWLINE", LF |-> "PARSE_EXPECTING_CR"]
Blank == [SP |-> "PARSE_HEADER_WHITESPACE", TAB |-> "PARSE_HEADER_WHITESPACE"]

\* The bytes that end a state, and the state that follows: the request line,
RequestLineExit ==
    [PARSE_METHOD |-> [SP |-> "PARSE_URI_STEM"],
     PARSE_URI_STEM |-> [SP |-> "PARSE_HTTP_VERSION_H", Question |-> "PARSE_URI_QUERY"],
     PARSE_URI_QUERY |-> [SP |-> "PARSE_HTTP_VERSION_H"]]

\* the version and the status line,
VersionExit ==
    [PARSE_HTTP_VERSION_H |-> [H |-> "PARSE_HTTP_VERSION_T_1"],
     PARSE_HTTP_VERSION_T_1 |-> [T |-> "PARSE_HTTP_VERSION_T_2"],
     PARSE_HTTP_VERSION_T_2 |-> [T |-> "PARSE_HTTP_VERSION_P"],
     PARSE_HTTP_VERSION_P |-> [P |-> "PARSE_HTTP_VERSION_SLASH"],
     PARSE_HTTP_VERSION_SLASH |-> [Slash |-> "PARSE_HTTP_VERSION_MAJOR_START"],
     PARSE_HTTP_VERSION_MAJOR |-> [Dot |-> "PARSE_HTTP_VERSION_MINOR_START"],
     PARSE_HTTP_VERSION_MINOR |-> IF IsRequest THEN EndOfLine ELSE [SP |-> "PARSE_STATUS_CODE_START"],
     PARSE_STATUS_CODE |-> [SP |-> "PARSE_STATUS_MESSAGE"],
     PARSE_STATUS_MESSAGE |-> EndOfLine]

\* and the header lines.
HeaderLineExit ==
    [PARSE_EXPECTING_NEWLINE |-> Blank @@ [LF |-> "PARSE_HEADER_START"],
     PARSE_EXPECTING_CR |-> Blank @@ [CR |-> "PARSE_HEADER_START"],
     PARSE_HEADER_WHITESPACE |-> Blank @@ EndOfLine,
     PARSE_HEADER_START |-> Blank @@ [CR |-> "PARSE_EXPECTING_FINAL_NEWLINE",
                                      LF |-> "PARSE_EXPECTING_FINAL_CR"],
     PARSE_HEADER_NAME |-> [Colon |-> "PARSE_SPACE_BEFORE_HEADER_VALUE"],
     PARSE_SPACE_BEFORE_HEADER_VALUE |-> [SP |-> "PARSE_HEADER_VALUE"] @@ EndOfLine,
     PARSE_HEADER_VALUE |-> EndOfLine]

Exit == RequestLineExit @@ VersionExit @@ HeaderLineExit

\* A state is left: strings that are about to be filled are erased, and the end
\* of a header's line adds the header.
Leave(r, c) ==
    LET next == Exit[r.headers][c]
        s == [r EXCEPT !.headers = next]
        header == <<r.m_header_name, r.m_header_value>>
    IN CASE next = "PARSE_URI_STEM" -> [s EXCEPT !.m_resource = <<>>]
         [] next = "PARSE_URI_QUERY" -> [s EXCEPT !.m_query_string = <<>>]
         [] next = "PARSE_STATUS_MESSAGE" -> [s EXCEPT !.m_status_message = <<>>]
         [] next = "PARSE_SPACE_BEFORE_HEADER_VALUE" -> [s EXCEPT !.m_header_value = <<>>]
         [] r.headers \in {"PARSE_SPACE_BEFORE_HEADER_VALUE", "PARSE_HEADER_VALUE"} /\ c # "SP" ->
                [s EXCEPT !.msg.fields = Append(@, header)]
         [] OTHER -> s

Refuse(r) == [r EXCEPT !.rc = "false"]

\* A state that collects a string: the byte is added unless the string is full.
Collect(r, ok, full, s) == IF ok /\ ~full THEN s ELSE Refuse(r)

CollectByte(r, c) ==
    CASE r.headers = "PARSE_METHOD" ->
           Collect(r, isToken(c), Len(r.m_method) >= METHOD_MAX, [r EXCEPT !.m_method = Append(@, c)])
      [] r.headers = "PARSE_URI_STEM" ->
           Collect(r, ~isControl(c), Len(r.m_resource) >= RESOURCE_MAX, [r EXCEPT !.m_resource = Append(@, c)])
      [] r.headers = "PARSE_URI_QUERY" ->
           Collect(r, ~isControl(c), Len(r.m_query_string) >= QUERY_STRING_MAX,
                   [r EXCEPT !.m_query_string = Append(@, c)])
      [] r.headers = "PARSE_STATUS_MESSAGE" ->
           Collect(r, ~isControl(c), Len(r.m_status_message) >= STATUS_MESSAGE_MAX,
                   [r EXCEPT !.m_status_message = Append(@, c)])
      [] r.headers = "PARSE_HEADER_NAME" ->
           Collect(r, isToken(c), Len(r.m_header_name) >= HEADER_NAME_MAX,
                   [r EXCEPT !.m_header_name = Append(@, c)])
      [] r.headers = "PARSE_SPACE_BEFORE_HEADER_VALUE" ->
           Collect(r, isToken(c), FALSE,
                   [r EXCEPT !.m_header_value = Append(@, c), !.headers = "PARSE_HEADER_VALUE"])
      [] r.headers = "PARSE_HEADER_VALUE" ->
           Collect(r, ~isControl(c), Len(r.m_header_value) >= HEADER_VALUE_MAX,
                   [r EXCEPT !.m_header_value = Append(@, c)])

\* The states that accumulate a number.
DigitByte(r, c) ==
    IF ~isDigit(c) THEN Refuse(r)
    ELSE CASE r.headers = "PARSE_HTTP_VERSION_MAJOR_START" ->
                [r EXCEPT !.msg.version[1] = Digit[c], !.headers = "PARSE_HTTP_VERSION_MAJOR"]
           [] r.headers = "PARSE_HTTP_VERSION_MAJOR" -> [r EXCEPT !.msg.version[1] = 10 * @ + Digit[c]]
           [] r.headers = "PARSE_HTTP_VERSION_MINOR_START" ->
                [r EXCEPT !.msg.version[2] = Digit[c], !.headers = "PARSE_HTTP_VERSION_MINOR"]
           [] r.headers = "PARSE_HTTP_VERSION_MINOR" -> [r EXCEPT !.msg.version[2] = 10 * @ + Digit[c]]
           [] r.headers = "PARSE_STATUS_CODE_START" ->
                [r EXCEPT !.m_status_code = Digit[c], !.headers = "PARSE_STATUS_CODE"]
           [] r.headers = "PARSE_STATUS_CODE" -> [r EXCEPT !.m_status_code = 10 * @ + Digit[c]]

LineStart == {"PARSE_EXPECTING_NEWLINE", "PARSE_EXPECTING_CR", "PARSE_HEADER_WHITESPACE", "PARSE_HEADER_START"}
Numeric == {"PARSE_HTTP_VERSION_MAJOR_START", "PARSE_HTTP_VERSION_MAJOR", "PARSE_HTTP_VERSION_MINOR_START",
            "PARSE_HTTP_VERSION_MINOR", "PARSE_STATUS_CODE_START", "PARSE_STATUS_CODE"}
Literal == {"PARSE_HTTP_VERSION_H", "PARSE_HTTP_VERSION_T_1", "PARSE_HTTP_VERSION_T_2",
            "PARSE_HTTP_VERSION_P", "PARSE_HTTP_VERSION_SLASH"}

\* Two line ends of the same lonely kind end the headers.
LonelyEnd(r, c) == \/ r.headers = "PARSE_EXPECTING_NEWLINE" /\ c = "CR"
                   \/ r.headers = "PARSE_EXPECTING_CR" /\ c = "LF"

\* One turn of parseHeaders' loop.
HeaderByte(r, c) ==
    LET Final == [r EXCEPT !.rc = "true"] IN
    CASE LonelyEnd(r, c) -> [Final EXCEPT !.buf = Tail(@)]
      [] r.headers = "PARSE_EXPECTING_FINAL_NEWLINE" -> IF c = "LF" THEN [Final EXCEPT !.buf = Tail(@)] ELSE Final
      [] r.headers = "PARSE_EXPECTING_FINAL_CR" -> IF c = "CR" THEN [Final EXCEPT !.buf = Tail(@)] ELSE Final
      [] OTHER ->
         LET s == [r EXCEPT !.buf = Tail(@)] IN
         CASE r.headers = "PARSE_METHOD_START" /\ c \in {"SP", "CR", "LF"} -> s
           [] r.headers = "PARSE_METHOD_START" ->
                IF isToken(c) THEN [s EXCEPT !.m_method = <<c>>, !.headers = "PARSE_METHOD"] ELSE Refuse(r)
           [] r.headers \in DOMAIN Exit /\ c \in DOMAIN Exit[r.headers] -> Leave(s, c)
           [] r.headers \in Literal -> Refuse(r)
           [] r.headers \in Numeric -> DigitByte(s, c)
           [] r.headers \in LineStart ->
                IF isToken(c) THEN [s EXCEPT !.m_header_name = <<c>>, !.headers = "PARSE_HEADER_NAME"] ELSE Refuse(r)
           [] OTHER -> CollectByte(s, c)

\* The loop over the read buffer goes on until there is a result or the buffer is
\* empty.
RECURSIVE HeaderLoop(_)
HeaderLoop(r) == IF r.buf = <<>> \/ r.rc # "more" THEN r ELSE HeaderLoop(HeaderByte(r, Head(r.buf)))

\* What the loop that led from r to s has read; bytes before an error are not counted.
Counted(r, s) == IF s.rc = "false" THEN s ELSE [s EXCEPT !.total = @ + Len(r.buf) - Len(s.buf)]

parseHeaders(r) == Counted(r, HeaderLoop(r))

-----------------------------------------------------------------------------
(* finishHeaderParsing.                                                    *)

\* isContentLengthImplied: never for requests; head is m_request_method = "HEAD".
isContentLengthImplied(r) ==
    ~IsRequest /\ (r.msg.head \/ r.m_status_code \in 100..199 \cup {204, 205, 304})

\* createContentBuffer for a content of n bytes.
Allocated(r, n) == [r EXCEPT !.msg.content = Undef(n)]

\* The content length is known: more than m_max_content_length is read, not kept.
WithLength(r, n) ==
    [Allocated(r, IF n > m_max_content_length THEN m_max_content_length ELSE n)
        EXCEPT !.message = "PARSE_CONTENT", !.remaining = n, !.rc = "more"]

finishHeaderParsing(r0) ==
    LET chunked == HasField(r0, "TE") /\ Field(r0, "TE") = <<"Chunked">>
        r == [r0 EXCEPT !.remaining = 0, !.contentRead = 0, !.msg.chunked = chunked]
        length == Trim(Field(r, "CL"))
        Ended == [Allocated(r, 0) EXCEPT !.message = "PARSE_END"]
    IN CASE chunked -> [Allocated(r, 0) EXCEPT !.message = "PARSE_CHUNKS", !.rc = "more"]
         [] ~chunked /\ isContentLengthImplied(r) -> Ended
         [] ~chunked /\ ~isContentLengthImplied(r) /\ HasField(r, "CL") ->
              IF length = <<>> \/ \E i \in DOMAIN length : ~isDigit(length[i]) THEN Refuse(r)
              ELSE IF Number(length, 10) = 0 THEN Ended ELSE WithLength(r, Number(length, 10))
         [] OTHER -> IF IsRequest THEN Ended
                     ELSE [Allocated(r, 0) EXCEPT !.msg.chunkCache = <<>>, !.rc = "more",
                                                  !.message = "PARSE_CONTENT_NO_LENGTH"]

-----------------------------------------------------------------------------
(* Content.                                                                *)

\* The chunk cache takes a byte while it is not full.
Cached(cache, c) == IF Len(cache) < m_max_content_length THEN Append(cache, c) ELSE cache

\* The states of parseChunks that wait for one byte, and what follows it.
ChunkExit ==
    [PARSE_CHUNK_SIZE |-> [CR |-> "PARSE_EXPECTING_LF_AFTER_CHUNK_SIZE",
                           SP |-> "PARSE_EXPECTING_CR_AFTER_CHUNK_SIZE",
                           TAB |-> "PARSE_EXPECTING_CR_AFTER_CHUNK_SIZE"],
     PARSE_EXPECTING_CR_AFTER_CHUNK_SIZE |-> [CR |-> "PARSE_EXPECTING_LF_AFTER_CHUNK_SIZE",
                                              SP |-> "PARSE_EXPECTING_CR_AFTER_CHUNK_SIZE",
                                              TAB |-> "PARSE_EXPECTING_CR_AFTER_CHUNK_SIZE"],
     PARSE_EXPECTING_CR_AFTER_CHUNK |-> [CR |-> "PARSE_EXPECTING_LF_AFTER_CHUNK"],
     PARSE_EXPECTING_LF_AFTER_CHUNK |-> [LF |-> "PARSE_CHUNK_SIZE_START"],
     PARSE_EXPECTING_FINAL_CR_AFTER_LAST_CHUNK |-> [CR |-> "PARSE_EXPECTING_FINAL_LF_AFTER_LAST_CHUNK"]]

\* A byte of a chunk's data.
ChunkData(r, c) ==
    [r EXCEPT !.msg.chunkCache = Cached(@, c), !.inChunk = @ + 1,
              !.chunks = IF r.inChunk + 1 = r.size THEN "PARSE_EXPECTING_CR_AFTER_CHUNK" ELSE @]

\* One turn of parseChunks' loop.
ChunkByte(r, c) ==
    LET s == [r EXCEPT !.buf = Tail(@)] IN
    CASE r.chunks = "PARSE_CHUNK_SIZE_START" ->
           IF isHexDigit(c) THEN [s EXCEPT !.m_chunk_size_str = <<c>>, !.chunks = "PARSE_CHUNK_SIZE"]
           ELSE IF c \in {"SP", "TAB", "CR", "LF"} THEN s ELSE Refuse(r)
      [] r.chunks = "PARSE_CHUNK_SIZE" /\ isHexDigit(c) -> [s EXCEPT !.m_chunk_size_str = Append(@, c)]
      [] r.chunks = "PARSE_EXPECTING_LF_AFTER_CHUNK_SIZE" ->
           LET n == Number(r.m_chunk_size_str, 16) IN
           IF c # "LF" THEN Refuse(r)
           ELSE [s EXCEPT !.inChunk = 0, !.size = n,
                    !.chunks = IF n = 0 THEN "PARSE_EXPECTING_FINAL_CR_AFTER_LAST_CHUNK" ELSE "PARSE_CHUNK"]
      [] r.chunks = "PARSE_CHUNK" -> ChunkData(s, c)
      [] r.chunks = "PARSE_EXPECTING_FINAL_LF_AFTER_LAST_CHUNK" ->
           IF c = "LF" THEN [s EXCEPT !.rc = "true"] ELSE Refuse(r)
      [] OTHER -> IF c \in DOMAIN ChunkExit[r.chunks] THEN [s EXCEPT !.chunks = ChunkExit[r.chunks][c]]
                  ELSE Refuse(r)

\* concatenateChunks: the cache becomes the content.
concatenateChunks(r) == [r EXCEPT !.msg.content = r.msg.chunkCache]

RECURSIVE ChunkLoop(_)
ChunkLoop(r) == IF r.buf = <<>> \/ r.rc # "more" THEN r ELSE ChunkLoop(ChunkByte(r, Head(r.buf)))

\* parseChunks counts content bytes only when it stops for want of bytes.
parseChunks(r) ==
    LET s == Counted(r, ChunkLoop(r)) IN
    CASE s.rc = "true" -> concatenateChunks(s)
      [] s.rc = "more" -> [s EXCEPT !.contentRead = @ + Len(r.buf)]
      [] OTHER -> s

\* memcpy of the first n bytes of the buffer to the content, from the bytes
\* read so far, as far as the content buffer reaches.
Copied(r, n) ==
    [i \in DOMAIN r.msg.content |->
        IF i > r.contentRead /\ i <= r.contentRead + n /\ i <= m_max_content_length
        THEN r.buf[i - r.contentRead] ELSE r.msg.content[i]]

consumeContent(r) ==
    LET n == IF Len(r.buf) >= r.remaining THEN r.remaining ELSE Len(r.buf) IN
    [r EXCEPT !.msg.content = Copied(r, n), !.buf = SubSeq(@, n + 1, Len(@)),
              !.remaining = @ - n, !.contentRead = @ + n, !.total = @ + n,
              !.rc = IF n = r.remaining THEN "true" ELSE "more"]

consumeContentAsNextChunk(r) ==
    [r EXCEPT !.msg.chunkCache = FoldLeft(Cached, @, r.buf), !.buf = <<>>,
              !.total = @ + Len(r.buf), !.contentRead = @ + Len(r.buf)]

-----------------------------------------------------------------------------
(* parse, parseMissingData, checkPrematureEOF and finish.                  *)

computeMsgStatus(r, ok) ==
    [r EXCEPT !.msg.status = CASE r.msg.missing /\ r.msg.after -> "PARTIAL"
                               [] r.msg.missing /\ ~r.msg.after -> "TRUNCATED"
                               [] ~r.msg.missing -> IF ok THEN "OK" ELSE "TRUNCATED"]

\* finish() of a message in PARSE_END, the only state its callers leave it in.
finish(r) == computeMsgStatus([r EXCEPT !.msg.valid = TRUE], TRUE)

\* What parse() and parseMissingData() do with their result.
Result(r) ==
    CASE r.rc = "true" -> finish([r EXCEPT !.message = "PARSE_END"])
      [] r.rc = "false" -> computeMsgStatus(r, FALSE)
      [] OTHER -> r

\* One turn of parse's loop.
ParsePhase(r) ==
    CASE r.message \in {"PARSE_START", "PARSE_HEADERS"} ->
           LET s == parseHeaders([r EXCEPT !.message = "PARSE_HEADERS"]) IN
           IF s.rc = "true" THEN finishHeaderParsing(s) ELSE s
      [] r.message = "PARSE_CHUNKS" -> parseChunks(r)
      [] r.message = "PARSE_CONTENT" -> consumeContent(r)
      [] r.message = "PARSE_CONTENT_NO_LENGTH" -> consumeContentAsNextChunk(r)

RECURSIVE ParseLoop(_)
ParseLoop(r) ==
    LET s == ParsePhase(r) IN
    IF s.rc = "more" /\ s.buf # <<>> THEN ParseLoop(s) ELSE s

parse(r) == Result(ParseLoop([r EXCEPT !.msg.after = @ \/ r.msg.missing]))

Dummies(cache, n) == FoldLeft(Cached, cache, [i \in 1..n |-> "X"])

\* Content of known length: the gap is filled only if all of it fits.
MissingContent(r, n) ==
    LET fits == r.contentRead + n <= m_max_content_length IN
    IF r.remaining < n THEN Refuse(r)
    ELSE [r EXCEPT !.msg.content = [i \in DOMAIN @ |->
                        IF fits /\ i > r.contentRead /\ i <= r.contentRead + n THEN "X" ELSE @[i]],
                   !.contentRead = @ + n, !.remaining = @ - n, !.total = @ + n,
                   !.rc = IF r.remaining = n THEN "true" ELSE "more"]

\* A gap in a chunk must end inside it.
MissingChunk(r, n) ==
    IF r.chunks # "PARSE_CHUNK" \/ r.size - r.inChunk < n THEN Refuse(r)
    ELSE [r EXCEPT !.msg.chunkCache = Dummies(@, n), !.inChunk = @ + n, !.total = @ + n,
                   !.contentRead = @ + n,
                   !.chunks = IF r.inChunk + n = r.size THEN "PARSE_EXPECTING_CR_AFTER_CHUNK" ELSE @]

parseMissingData(r0, n) ==
    LET r == [r0 EXCEPT !.msg.missing = TRUE] IN
    Result(CASE r.message \in {"PARSE_START", "PARSE_HEADERS"} -> Refuse(r)
             [] r.message = "PARSE_CHUNKS" -> MissingChunk(r, n)
             [] r.message = "PARSE_CONTENT" -> MissingContent(r, n)
             [] r.message = "PARSE_CONTENT_NO_LENGTH" ->
                  [r EXCEPT !.msg.chunkCache = Dummies(@, n), !.contentRead = @ + n, !.total = @ + n])

\* checkPrematureEOF: only content without a length may end with the stream.
checkPrematureEOF(r) ==
    IF r.message = "PARSE_CONTENT_NO_LENGTH"
    THEN finish(concatenateChunks([r EXCEPT !.message = "PARSE_END", !.rc = "true"]))
    ELSE [r EXCEPT !.rc = "eof"]

-----------------------------------------------------------------------------
(* The peer: what it means and the bytes it sends.                         *)

\* How the peer writes a body of length n < 10 or of n < 12.
DigitOf(n) == CHOOSE c \in DOMAIN HexDigit : HexDigit[c] = n

StartLine(m) ==
    LET version == <<"H", "T", "T", "P", "Slash", "d1", "Dot", "d1">> IN
    IF IsRequest
    THEN m.method \o <<"SP">> \o m.resource
         \o (IF m.query = <<>> THEN <<>> ELSE <<"Question">> \o m.query) \o <<"SP">> \o version
    ELSE version \o <<"SP">> \o m.code \o <<"SP">> \o m.reason

\* The header that announces the body, with optional spaces in a length's value.
BodyField(m) ==
    CASE m.body = "length" -> <<<<<<"CL">>, m.pad \o <<DigitOf(Len(m.data))>>>>>>
      [] m.body = "chunked" -> <<<<<<"TE">>, <<"Chunked">>>>>>
      [] m.body \in {"none", "eof"} -> <<>>

Fields(m) == m.fields \o BodyField(m)

Chunk(data) == <<DigitOf(Len(data)), "CR", "LF">> \o data \o <<"CR", "LF">>

\* One chunk for each byte but the last two, which share one.  The answer to HEAD
\* announces a body and has none.
BodyBytes(m) ==
    IF ~IsRequest /\ m.head THEN <<>>
    ELSE IF m.body # "chunked" THEN m.data
    ELSE LET n == Len(m.data)
             firsts == [i \in 1..(n - 2) |-> Chunk(<<m.data[i]>>)]
         IN FlattenSeq(firsts) \o Chunk(SubSeq(m.data, n - 1, n)) \o <<"d0", "CR", "LF", "CR", "LF">>

Wire(m) ==
    StartLine(m) \o m.eol
    \o FlattenSeq([i \in DOMAIN Fields(m) |->
                      Fields(m)[i][1] \o <<"Colon", "SP">> \o Fields(m)[i][2] \o m.eol])
    \o m.eol \o BodyBytes(m)

Stream == FlattenSeq([i \in DOMAIN sent |-> Wire(sent[i])])

\* The message being parsed, and where its bytes begin.
Current == Len(got) + (IF p.rc = "true" THEN 0 ELSE 1)
StartOf(k) == Len(FlattenSeq([i \in 1..(k - 1) |-> Wire(sent[i])]))
Consumed == at - Len(p.buf) - StartOf(Current)

-----------------------------------------------------------------------------
(* The connection.                                                         *)

Finished(r) == [method |-> r.m_method, resource |-> r.m_resource, query |-> r.m_query_string,
                code |-> r.m_status_code, reason |-> r.m_status_message, msg |-> r.msg,
                total |-> r.total]

\* A message that is complete is handed over.
Handed(r) == IF r.rc = "true" THEN Append(got, Finished(r) @@ [lost |-> losses]) ELSE got

\* The parser r with the message that it fills: a response knows the request's
\* method from its constructor, until receive() clears it.
WithMessage(r, m) == [r EXCEPT !.msg.head = ~IsRequest /\ ~ByReceive /\ m.head]

Init ==
    /\ sent \in Sent
    /\ at = 0
    /\ p = WithMessage(NewParser, sent[1])
    /\ got = <<>>
    /\ losses = {}
    /\ open = TRUE

\* A read returns the next n bytes of the stream, whatever they are.
Deliver(n) ==
    /\ p.rc = "more"
    /\ p.buf = <<>>
    /\ at + n <= Len(Stream)
    /\ at' = at + n
    /\ p' = parse([p EXCEPT !.buf = SubSeq(Stream, at + 1, at + n)])
    /\ got' = Handed(p')
    /\ UNCHANGED <<sent, losses, open>>

\* The caller learns that n bytes are missing (once for each message: bound).
Lose(n) ==
    /\ p.rc = "more"
    /\ p.buf = <<>>
    /\ losses = {}
    /\ at + n <= Len(Stream)
    /\ losses' = (Consumed + 1)..(Consumed + n)
    /\ at' = at + n
    /\ p' = parseMissingData(p, n)
    /\ got' = IF p'.rc = "true" THEN Append(got, Finished(p') @@ [lost |-> losses']) ELSE got
    /\ UNCHANGED <<sent, open>>

\* The next message of the stream, with the bytes that are left in the buffer:
\* with a new parser (HTTPReader, HTTPMessage::receive) or with one that is reset.
NextMessage ==
    /\ p.rc = "true"
    /\ open
    /\ Len(got) < Len(sent)
    /\ losses' = {}
    /\ \E r \in {[NewParser EXCEPT !.buf = p.buf], reset(p)} :
          LET s == WithMessage(r, sent[Len(got) + 1]) IN
          p' = IF s.buf = <<>> THEN s ELSE parse(s)
    /\ got' = IF p'.rc = "true" THEN Append(got, Finished(p') @@ [lost |-> {}]) ELSE got
    /\ UNCHANGED <<sent, at, open>>

\* The peer closes the connection while a message is being read.
PeerCloses ==
    /\ p.rc = "more"
    /\ p.buf = <<>>
    /\ open' = FALSE
    /\ p' = checkPrematureEOF(p)
    /\ got' = Handed(p')
    /\ UNCHANGED <<sent, at, losses>>

NewConnection ==
    /\ p.rc \in {"false", "eof"} \/ (p.rc = "true" /\ (~open \/ Len(got) = Len(sent)))
    /\ sent' \in Sent
    /\ open' = TRUE
    /\ at' = 0
    /\ p' = WithMessage(NewParser, sent'[1])
    /\ got' = <<>>
    /\ losses' = {}

Next ==
    \/ \E n \in 1..Len(Stream) : Deliver(n)
    \/ \E n \in 1..MaxLost : Lose(n)
    \/ NextMessage
    \/ PeerCloses
    \/ NewConnection

Spec == Init /\ [][Next]_vars

-----------------------------------------------------------------------------
(* Properties.                                                             *)

\* What the peer's message says, with what was lost of its content.
BodyPositions(m) ==
    LET head == Len(Wire(m)) - Len(BodyBytes(m)) IN
    SelectSeq([i \in 1..Len(Wire(m)) |-> i], LAMBDA i : i > head /\ Wire(m)[i] \in Range(m.data))

Content(m, lost) ==
    LET at_ == BodyPositions(m)
        n == IF Len(at_) > m_max_content_length THEN m_max_content_length ELSE Len(at_)
    IN [i \in 1..n |-> IF at_[i] \in lost THEN "X" ELSE Wire(m)[at_[i]]]

\* The limits of the parser that a message may reach and not exceed.
WithinLimits(m) ==
    /\ IF IsRequest
       THEN /\ Len(m.method) <= METHOD_MAX
            /\ Len(m.resource) <= RESOURCE_MAX
            /\ Len(m.query) <= QUERY_STRING_MAX
       ELSE Len(m.reason) <= STATUS_MESSAGE_MAX
    /\ \A i \in DOMAIN Fields(m) : /\ Len(Fields(m)[i][1]) <= HEADER_NAME_MAX
                                   /\ Len(Fields(m)[i][2]) <= HEADER_VALUE_MAX

\* A message that parse() reports as finished says what its sender said, however
\* reads cut the stream into buffers, whichever line ends the sender uses, and
\* whatever the previous message left in the parser: the start line and the
\* headers, and the content up to the maximum length, with a dummy for a byte that
\* was missing (a gap over the maximum is left as the memory was).
ParsedAsSent ==
    \A k \in DOMAIN got :
        LET m == sent[k]
            g == got[k]
            content == Content(m, g.lost)
            eofBody == m.body = "eof"
        IN /\ IF IsRequest THEN <<g.method, g.resource, g.query>> = <<m.method, m.resource, m.query>>
              ELSE g.code = Number(m.code, 10) /\ g.reason = m.reason
           /\ g.msg.version = <<1, 1>>
           /\ g.msg.fields = Fields(m)
           /\ g.msg.chunked = (m.body = "chunked")
           /\ eofBody \/ Len(g.msg.content) = Len(content)
           /\ \A i \in DOMAIN g.msg.content :
                 \/ g.msg.content[i] = content[i]
                 \/ content[i] = "X" /\ g.msg.content[i] = "Undef"

\* The parser stops exactly at the end of a message: it reports the end when its
\* last byte is read and not later, takes no byte of the pipelined one behind it,
\* and getTotalBytesRead() counts what it took.
EndsWithItsMessage ==
    p.rc \in {"more", "true"} =>
        LET m == sent[Current]
            n == Len(Wire(m))
        IN /\ p.total = Consumed
           /\ CASE m.body = "eof" -> Consumed <= n
                [] p.rc = "true" /\ m.body # "eof" -> Consumed = n
                [] p.rc = "more" /\ m.body # "eof" -> Consumed < n

\* A message is refused only if it is too long or bytes are missing, and one that
\* is too long is never accepted.
RefusedWithReason ==
    /\ p.rc = "false" => losses # {} \/ ~WithinLimits(sent[Current])
    /\ p.rc = "true" => WithinLimits(sent[Current])

\* computeMsgStatus tells the truth of a finished message: OK when all of its
\* bytes were read, PARTIAL when bytes after a gap were, TRUNCATED otherwise.
StatusTellsLoss ==
    \A k \in DOMAIN got :
        LET g == got[k]
            after == \E i \in 1..g.total : \A j \in g.lost : i > j
        IN g.msg.status = CASE g.lost = {} -> "OK"
                            [] g.lost # {} /\ after -> "PARTIAL"
                            [] g.lost # {} /\ ~after -> "TRUNCATED"

\* HTTPResponse.hpp:62: "HTTPResponse parsing is influenced by the request method":
\* the answer to a HEAD request ends with its headers.
HeadAnswerEndsWithHeaders ==
    p.rc = "more" /\ ~IsRequest /\ sent[Current].head => Consumed < Len(Wire(sent[Current]))

\* HTTPParser.cpp:163: "make sure content buffer is not already full", and then
\* "use dummy content for missing data": no byte of a finished message's content
\* is whatever the memory held.
NoUndefinedContent ==
    \A k \in DOMAIN got : "Undef" \notin Range(got[k].msg.content)
=============================================================================
