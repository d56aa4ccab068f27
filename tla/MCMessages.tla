----------------------------- MODULE MCMessages -----------------------------
(***************************************************************************)
(* Messages on a connection: pipelined requests in the server              *)
(* (RequestService), the parser and the writer of messages, and the        *)
(* encodings of what they hold.  They are explored side by side, the first *)
(* state saying which one is (part).                                       *)
(***************************************************************************)
EXTENDS RequestService, TLC

VARIABLES
    part,
    sent, at, p, got, losses, open,
    version, keepAlive, connected, state, w, wire, pending, written, passed,
    text

parserVars == <<sent, at, p, got, losses, open>>
writerVars == <<version, keepAlive, connected, state, w, wire, pending, written, passed>>

-----------------------------------------------------------------------------
(* Messages a peer may send to the parser *)

CRLF == <<"CR", "LF">>
LineEnds == {CRLF, <<"LF">>, <<"CR">>, <<"LF", "CR">>}

Get == [method |-> <<"G">>, resource |-> <<"Slash">>, query |-> <<>>, fields |-> <<>>,
        body |-> "none", data |-> <<>>, pad |-> <<>>, eol |-> CRLF]

Post == [Get EXCEPT !.method = <<"G", "E">>, !.query = <<"a", "Equals">>,
                    !.fields = <<<<<<"a", "b">>, <<"c", "Colon">>>>, <<<<"d">>, <<>>>>>>,
                    !.body = "length", !.data = <<"u", "v", "w">>, !.pad = <<"SP">>]

InChunks == [Get EXCEPT !.body = "chunked", !.data = <<"u", "v", "w", "x">>]

\* One byte too many, in every string that has a limit.
TooLong == {[Get EXCEPT !.method = <<"G", "E", "T">>],
            [Get EXCEPT !.resource = <<"Slash", "a", "b">>],
            [Get EXCEPT !.query = <<"a", "b", "c">>],
            [Get EXCEPT !.fields = <<<<<<"a", "b", "c">>, <<>>>>>>],
            [Get EXCEPT !.fields = <<<<<<"a">>, <<"b", "c", "d">>>>>>]}

Ok == [code |-> <<"d2", "d0", "d0">>, reason |-> <<"a", "SP">>, fields |-> <<>>,
       body |-> "length", data |-> <<"u", "v", "w">>, pad |-> <<>>, eol |-> CRLF, head |-> FALSE]

Requests == INSTANCE HTTPParser WITH
    IsRequest <- TRUE, ByReceive <- FALSE,
    Sent <- {<<[m EXCEPT !.eol = e], Get>> : m \in {Get, Post, InChunks}, e \in LineEnds}
            \cup {<<m, Post>> : m \in {Get, Post, InChunks}}
            \cup {<<m, Get>> : m \in TooLong},
    MaxLost <- 2, m_max_content_length <- 2, METHOD_MAX <- 2, RESOURCE_MAX <- 2, QUERY_STRING_MAX <- 2,
    STATUS_MESSAGE_MAX <- 2, HEADER_NAME_MAX <- 2, HEADER_VALUE_MAX <- 2

Responses == INSTANCE HTTPParser WITH
    IsRequest <- FALSE, ByReceive <- FALSE,
    Sent <- {<<m, n>> : m \in {Ok, [Ok EXCEPT !.head = TRUE], [Ok EXCEPT !.body = "chunked"],
                               [Ok EXCEPT !.code = <<"d3", "d0", "d4">>, !.body = "none", !.data = <<>>],
                               [Ok EXCEPT !.reason = <<"a", "b", "c">>]},
                        n \in {Ok, [Ok EXCEPT !.body = "eof", !.eol = <<"LF">>]}},
    MaxLost <- 2, m_max_content_length <- 2, METHOD_MAX <- 2, RESOURCE_MAX <- 2, QUERY_STRING_MAX <- 2,
    STATUS_MESSAGE_MAX <- 2, HEADER_NAME_MAX <- 2, HEADER_VALUE_MAX <- 2

-----------------------------------------------------------------------------
(* Messages a program gives to the writer: without content, with content,  *)
(* and with a Connection header that the writer replaces                   *)

M == INSTANCE HTTPMessage

Own == {M!Message, [M!setContent(M!Message, <<"a", "NUL">>) EXCEPT !.headers.Connection = <<"x", "y">>]}

Answering == INSTANCE HTTPWriter WITH
    IsRequest <- FALSE, Versions <- {"1.0", "1.1"}, Messages <- Own,
    Data <- {<<>>, <<"a">>, <<"b", "c">>}, MaxWrites <- 3, MaxMessages <- 2,
    open <- connected, sent <- passed

\* Requests whose program says that chunks are supported, as the tests do.
Asking == INSTANCE HTTPWriter WITH
    IsRequest <- TRUE, Versions <- {"1.1"},
    Messages <- {[m EXCEPT !.m_chunks_supported = TRUE] : m \in Own},
    Data <- {<<>>, <<"a">>, <<"b", "c">>}, MaxWrites <- 3, MaxMessages <- 2,
    open <- connected, sent <- passed

-----------------------------------------------------------------------------
(* Encodings *)

Conversions == INSTANCE HTTPTypes WITH
    Bytes <- {13, 32, 34, 36, 37, 38, 43, 59, 61, 65, 255}, MaxText <- 3, QUERY_NAME_MAX <- 9,
    QUERY_VALUE_MAX <- 9, COOKIE_NAME_MAX <- 7, COOKIE_VALUE_MAX <- 2

Limits == INSTANCE HTTPTypes WITH
    Bytes <- {0, 13, 38, 61, 65}, MaxText <- 6, QUERY_NAME_MAX <- 2, QUERY_VALUE_MAX <- 2,
    COOKIE_NAME_MAX <- 7, COOKIE_VALUE_MAX <- 2

-----------------------------------------------------------------------------

SomeInit ==
    /\ part \in {"pipelining", "requests", "responses", "answering", "asking", "conversions", "limits"}
    /\ Init
    /\ IF part = "responses" THEN Responses!Init ELSE Requests!Init
    /\ part \in {"requests", "responses"} \/ sent = <<Get, Get>>
    /\ IF part = "answering" THEN Answering!Init ELSE Asking!Init
    /\ text = <<>>

SomeNext ==
    \/ /\ part = "pipelining" /\ Next
       /\ UNCHANGED <<parserVars, writerVars, text>>
    \/ /\ \/ part = "requests" /\ Requests!Next
          \/ part = "responses" /\ Responses!Next
       /\ UNCHANGED <<vars, writerVars, text>>
    \/ /\ \/ part = "answering" /\ Answering!Next
          \/ part = "asking" /\ Asking!Next
       /\ UNCHANGED <<vars, parserVars, text>>
    \/ /\ \/ part = "conversions" /\ Conversions!Next
          \/ part = "limits" /\ Limits!Next
       /\ UNCHANGED <<vars, parserVars, writerVars>>

SomeSpec == SomeInit /\ [][SomeNext /\ UNCHANGED part]_<<part, vars, parserVars, writerVars, text>>

\* Connection objects and threads are interchangeable.
Symmetry == Permutations(Conn) \cup Permutations(Worker)

-----------------------------------------------------------------------------

\* Finished messages say what their sender said, and whether bytes were missing; the
\* parser stops at the end of each, takes no byte of the pipelined one behind it, and
\* refuses a message only if it is too long or damaged, however reads cut the stream.
MessagesParsed ==
    /\ part = "requests" => /\ Requests!ParsedAsSent /\ Requests!EndsWithItsMessage
                            /\ Requests!RefusedWithReason /\ Requests!StatusTellsLoss
    /\ part = "responses" => /\ Responses!ParsedAsSent /\ Responses!EndsWithItsMessage
                             /\ Responses!RefusedWithReason /\ Responses!StatusTellsLoss

\* A receiver that follows the framing of the headers finds exactly the contents that were
\* written, message by message, however they were cut into writes and chunks.
ReceiverGetsContent ==
    /\ part = "answering" => Answering!ReceiverGetsContent
    /\ part = "asking" => Asking!ReceiverGetsContent

\* The decoders of URLs, base64, queries and cookies read what their encoders write, and
\* of a query with a pair that is not acceptable every pair before it is kept.
EncodingsAgree ==
    /\ part = "conversions" => /\ Conversions!UrlRoundTrip /\ Conversions!Base64RoundTrip
                               /\ Conversions!QueryRoundTrip /\ Conversions!CookieRoundTrip
    /\ part = "limits" => Limits!QueryKeepsBeginning
=============================================================================
