----------------------------- MODULE HTTPTypes -----------------------------
(***************************************************************************)
(* The text conversions of pion-net: URL and base64 encoding, query        *)
(* strings, and Cookie and Set-Cookie headers (HTTPTypes.cpp and the two   *)
(* static parsers of HTTPParser.cpp).                                      *)
(*                                                                         *)
(* A string is a sequence of bytes.  The state is one string, typed byte   *)
(* by byte; the properties say what the conversions make of every string   *)
(* that can be typed, and of every way to cut it into names and values.    *)
(***************************************************************************)
EXTENDS Integers, Sequences, SequencesExt

CONSTANTS
    Bytes,            \* the bytes that are typed
    MaxText,          \* bound: the length of the string
    QUERY_NAME_MAX,   \* HTTPParser's limits
    QUERY_VALUE_MAX,
    COOKIE_NAME_MAX,
    COOKIE_VALUE_MAX

VARIABLE text

-----------------------------------------------------------------------------
(* Characters.                                                             *)

CR == 13
LF == 10
Space == 32
Quote == 34
Dollar == 36
Percent == 37
Ampersand == 38
Apostrophe == 39
Plus == 43
Comma == 44
Semicolon == 59
Equals == 61

isControl(c) == c \in 0..31 \/ c = 127

\* The characters url_encode escapes although they are printable: " # $ % & +
\* , / : ; < = > ? @ [ \ ] ^ ` { | } ~ and the space.
Reserved == {32} \cup 34..38 \cup {43, 44, 47} \cup 58..64 \cup 91..94 \cup {96} \cup 123..126

\* The digit sprintf("%.2X") writes for n, and the value strtol finds in it.
HexDigit(n) == IF n < 10 THEN 48 + n ELSE 55 + n
HexValue(c) == CASE c \in 48..57 -> c - 48 [] c \in 65..70 -> c - 55 [] c \in 97..102 -> c - 87

\* strtol stops at the first character that is no digit.
strtol16(a, b) ==
    LET hex == 48..57 \cup 65..70 \cup 97..102 IN
    IF a \notin hex THEN 0
    ELSE IF b \notin hex THEN HexValue(a) ELSE 16 * HexValue(a) + HexValue(b)

-----------------------------------------------------------------------------
(* URL encoding.                                                           *)

EncodedByte(c) ==
    IF c \in Reserved \/ c <= 32 \/ c >= 127
    THEN <<Percent, HexDigit(c \div 16), HexDigit(c % 16)>>
    ELSE <<c>>

url_encode(s) == FlattenSeq([i \in DOMAIN s |-> EncodedByte(s[i])])

\* The loop of url_decode: skip counts the digits of an escape already taken.
url_decode(s) ==
    LET Decode(acc, i) ==
            CASE acc.skip > 0 -> [acc EXCEPT !.skip = @ - 1]
              [] s[i] = Plus -> [acc EXCEPT !.out = Append(@, Space)]
              [] s[i] = Percent /\ i + 2 <= Len(s) ->
                     [out |-> Append(acc.out, strtol16(s[i + 1], s[i + 2])), skip |-> 2]
              [] OTHER -> [acc EXCEPT !.out = Append(@, s[i])]
    IN FoldLeft(Decode, [out |-> <<>>, skip |-> 0], [i \in DOMAIN s |-> i]).out

-----------------------------------------------------------------------------
(* Base64.  A code is a number; encoding_data and decoding_data, which are *)
(* each other's inverse, are left out.                                     *)

Pad == 64

\* The body of base64_encode's loop: up to three bytes become four codes.
EncodedGroup(g) ==
    CASE Len(g) = 1 -> <<g[1] \div 4, (g[1] % 4) * 16, Pad, Pad>>
      [] Len(g) = 2 -> <<g[1] \div 4, (g[1] % 4) * 16 + g[2] \div 16, (g[2] % 16) * 4, Pad>>
      [] Len(g) = 3 -> <<g[1] \div 4, (g[1] % 4) * 16 + g[2] \div 16,
                         (g[2] % 16) * 4 + g[3] \div 64, g[3] % 64>>

\* The n-element groups of s, the last one with what is left.
Groups(s, n) ==
    [k \in 1..((Len(s) + n - 1) \div n) |->
        SubSeq(s, n * (k - 1) + 1, IF n * k < Len(s) THEN n * k ELSE Len(s))]

base64_encode(s) == FlattenSeq([k \in DOMAIN Groups(s, 3) |-> EncodedGroup(Groups(s, 3)[k])])

\* The body of base64_decode's loop: padding ends the input.
DecodedGroup(g) ==
    LET First == <<g[1] * 4 + g[2] \div 16>>
        Second == <<(g[2] % 16) * 16 + g[3] \div 4>>
        Third == <<(g[3] % 4) * 64 + g[4]>>
    IN CASE Len(g) = 2 \/ g[3] = Pad -> First
         [] Len(g) = 3 \/ g[4] = Pad -> First \o Second
         [] OTHER -> First \o Second \o Third

base64_decode(s) == FlattenSeq([k \in DOMAIN Groups(s, 4) |-> DecodedGroup(Groups(s, 4)[k])])

-----------------------------------------------------------------------------
(* Query strings.  A dictionary is the sequence of its pairs.              *)

make_query_string(params) ==
    FlattenSeq([i \in DOMAIN params |->
        (IF i = 1 THEN <<>> ELSE <<Ampersand>>)
            \o url_encode(params[i][1]) \o <<Equals>> \o url_encode(params[i][2])])

\* Both parsers keep what they inserted before an error.
Parsing == [at |-> "NAME", name |-> <<>>, value |-> <<>>, quote |-> 0, dict |-> <<>>, ok |-> TRUE]
Failed(p) == [p EXCEPT !.ok = FALSE]
Inserted(p, next) ==
    [p EXCEPT !.dict = Append(@, <<p.name, p.value>>), !.name = <<>>, !.value = <<>>, !.at = next]

\* The body of parseURLEncoded's loop.
QueryByte(p, c) ==
    CASE ~p.ok -> p
      [] p.at = "NAME" /\ c = Equals -> IF p.name = <<>> THEN Failed(p) ELSE [p EXCEPT !.at = "VALUE"]
      [] p.at = "NAME" /\ c = Ampersand -> IF p.name = <<>> THEN p ELSE Inserted(p, "NAME")
      [] p.at = "VALUE" /\ c = Ampersand -> Inserted(p, "NAME")
      [] c \in {CR, LF} -> p
      [] p.at = "NAME" -> IF isControl(c) \/ Len(p.name) >= QUERY_NAME_MAX
                          THEN Failed(p) ELSE [p EXCEPT !.name = Append(@, c)]
      [] p.at = "VALUE" -> IF isControl(c) \/ Len(p.value) >= QUERY_VALUE_MAX
                           THEN Failed(p) ELSE [p EXCEPT !.value = Append(@, c)]

parseURLEncoded(s) ==
    LET p == FoldLeft(QueryByte, Parsing, s) IN
    IF p.ok /\ p.name # <<>> THEN Inserted(p, "NAME") ELSE p

-----------------------------------------------------------------------------
(* Cookies.                                                                *)

\* The attributes of RFC 2109: Version, Path and Max-Age stand for the others.
VersionName == <<86, 101, 114, 115, 105, 111, 110>>
PathName == <<80, 97, 116, 104>>
MaxAgeName == <<77, 97, 120, 45, 65, 103, 101>>

isCookieAttribute(name, setCookie) ==
    \/ name = <<>>
    \/ name[1] = Dollar
    \/ setCookie /\ name \in {VersionName, PathName, MaxAgeName}

\* The end of a cookie: attributes are dropped.
CookieDone(p, setCookie, next) ==
    IF isCookieAttribute(p.name, setCookie)
    THEN [p EXCEPT !.name = <<>>, !.value = <<>>, !.at = next]
    ELSE Inserted(p, next)

\* A byte of a cookie's value that is not quoted (yet).
UnquotedByte(p, c, setCookie) ==
    CASE c \in {Semicolon, Comma} -> CookieDone(p, setCookie, "NAME")
      [] c \in {Quote, Apostrophe} /\ p.value = <<>> -> [p EXCEPT !.quote = c]
      [] c = Space -> p
      [] OTHER -> IF isControl(c) \/ Len(p.value) >= COOKIE_VALUE_MAX
                  THEN Failed(p) ELSE [p EXCEPT !.value = Append(@, c)]

\* Mutant: a separator ends a value inside quotes as well.
QuotedByteSeparated(p, c, setCookie) ==
    IF c \in {p.quote, Semicolon} THEN CookieDone(p, setCookie, "IGNORE")
    ELSE IF Len(p.value) >= COOKIE_VALUE_MAX THEN Failed(p)
    ELSE [p EXCEPT !.value = Append(@, c)]

\* A byte of a quoted value: nothing but the quote is special.
QuotedByte(p, c, setCookie) ==
    IF c = p.quote THEN CookieDone(p, setCookie, "IGNORE")
    ELSE IF Len(p.value) >= COOKIE_VALUE_MAX THEN Failed(p)
    ELSE [p EXCEPT !.value = Append(@, c)]

\* The body of parseCookieHeader's loop.
CookieByte(p, c, setCookie) ==
    CASE ~p.ok -> p
      [] p.at = "NAME" /\ c = Equals ->
             IF p.name = <<>> THEN Failed(p) ELSE [p EXCEPT !.at = "VALUE", !.quote = 0]
      [] p.at = "NAME" /\ c \in {Semicolon, Comma} -> CookieDone(p, setCookie, "NAME")
      [] p.at = "NAME" /\ c = Space -> p
      [] p.at = "NAME" -> IF isControl(c) \/ Len(p.name) >= COOKIE_NAME_MAX
                          THEN Failed(p) ELSE [p EXCEPT !.name = Append(@, c)]
      [] p.at = "VALUE" /\ p.quote = 0 -> UnquotedByte(p, c, setCookie)
      [] p.at = "VALUE" -> QuotedByte(p, c, setCookie)
      [] p.at = "IGNORE" -> IF c \in {Semicolon, Comma} THEN [p EXCEPT !.at = "NAME"] ELSE p

parseCookieHeader(s, setCookie) ==
    LET p == FoldLeft(LAMBDA q, c : CookieByte(q, c, setCookie), Parsing, s) IN
    IF p.ok THEN CookieDone(p, setCookie, p.at) ELSE p

Attribute(name, value) == <<Semicolon, Space>> \o name \o <<Equals, Quote>> \o value \o <<Quote>>

make_set_cookie_header(name, value, path, maxAge) ==
    name \o <<Equals, Quote>> \o value \o <<Quote>> \o Attribute(VersionName, <<49>>)
        \o (IF path = <<>> THEN <<>> ELSE Attribute(PathName, path))
        \o (IF maxAge = <<>> THEN <<>> ELSE Attribute(MaxAgeName, maxAge))

-----------------------------------------------------------------------------
Init == text = <<>>

Type(c) == Len(text) < MaxText /\ text' = Append(text, c)

Clear == text # <<>> /\ text' = <<>>

Next == Clear \/ \E c \in Bytes : Type(c)

Spec == Init /\ [][Next]_text

-----------------------------------------------------------------------------
(* Properties.                                                             *)

Part(i, j) == SubSeq(text, i + 1, j)

\* Decoding undoes encoding: for every string, reserved, control and non-ASCII
\* characters and stray percent signs included.
UrlRoundTrip == url_decode(url_encode(text)) = text

\* The codes base64_encode writes decode to the same bytes, whatever the length
\* is modulo three.
Base64RoundTrip == base64_decode(base64_encode(text)) = text

\* A dictionary survives make_query_string, the wire and parseURLEncoded: the
\* pairs come out in order, escaped, and decode to what they were.  (A pair
\* without a name cannot be written.)
QueryRoundTrip ==
    \A i \in 1..Len(text) : \A j \in i..(Len(text) - 1) :
        LET params == <<<<Part(0, i), Part(i, j)>>, <<Part(j, Len(text)), <<>>>>>>
            p == parseURLEncoded(make_query_string(params))
        IN (\A k \in 1..2 : /\ Len(url_encode(params[k][1])) <= QUERY_NAME_MAX
                            /\ Len(url_encode(params[k][2])) <= QUERY_VALUE_MAX)
           => /\ p.ok
              /\ [k \in DOMAIN p.dict |-> <<url_decode(p.dict[k][1]), url_decode(p.dict[k][2])>>] = params

\* The pairs between the ampersands of a query string, as a reader of the
\* string would say: name up to the first equals sign, empty ones skipped, line
\* ends ignored.
Fields ==
    LET s == SelectSeq(text, LAMBDA c : c \notin {CR, LF})
        Cut(acc, c) == IF c = Ampersand THEN Append(acc, <<>>)
                       ELSE [acc EXCEPT ![Len(acc)] = Append(@, c)]
        Pair(f) == LET e == SelectInSeq(f, LAMBDA c : c = Equals) IN
                   IF e = 0 THEN <<f, <<>>>> ELSE <<SubSeq(f, 1, e - 1), SubSeq(f, e + 1, Len(f))>>
        fields == SelectSeq(FoldLeft(Cut, <<<<>>>>, s), LAMBDA f : f # <<>>)
    IN [k \in DOMAIN fields |-> Pair(fields[k])]

Acceptable(pair) ==
    /\ pair[1] # <<>>
    /\ \A n \in 1..2 : \A k \in DOMAIN pair[n] : ~isControl(pair[n][k])
    /\ Len(pair[1]) <= QUERY_NAME_MAX /\ Len(pair[2]) <= QUERY_VALUE_MAX

\* An unacceptable pair (no name, a control character, too long) ends the
\* parsing and is not inserted, but every pair before it is: what the caller
\* sees after an error is exactly the acceptable beginning of the query.
QueryKeepsBeginning ==
    LET bad == SelectInSeq(Fields, LAMBDA pair : ~Acceptable(pair)) IN
    /\ parseURLEncoded(text).ok <=> bad = 0
    /\ parseURLEncoded(text).dict = IF bad = 0 THEN Fields ELSE SubSeq(Fields, 1, bad - 1)

\* A cookie set with make_set_cookie_header is the one cookie that
\* parseCookieHeader finds in the header, with its value as it was: separators,
\* spaces and control characters inside the quotes included.
CookieRoundTrip ==
    \A i \in 1..Len(text) :
        LET name == Part(0, i) value == Part(i, Len(text)) IN
        (/\ \A k \in DOMAIN name : ~isControl(name[k]) /\ name[k] \notin {Equals, Semicolon, Comma, Space}
         /\ name[1] # Dollar /\ Len(name) <= COOKIE_NAME_MAX
         /\ Quote \notin ToSet(value)
         /\ Len(value) <= COOKIE_VALUE_MAX)
        => \A path \in {<<>>, <<47>>}, maxAge \in {<<>>, <<48>>} :
              LET p == parseCookieHeader(make_set_cookie_header(name, value, path, maxAge), TRUE)
              IN p.ok /\ p.dict = <<<<name, value>>>>
=============================================================================
