-------------------------------- MODULE JSON --------------------------------
(***************************************************************************)
(* The JSON library of the backend (Contrib/cajun/json): the elements of a *)
(* document (elements.inl), the text that Writer makes of them and the     *)
(* document that Reader makes of a text.                                   *)
(*                                                                         *)
(* An element is a record with one field, the name of its type, and a text *)
(* is a sequence of characters.  Numbers are whole: a text has no '.', 'e' *)
(* or '+'.  What an exception says and where it points to is left out.     *)
(***************************************************************************)
EXTENDS Integers, Sequences, SequencesExt, TLC

Null == [Null |-> TRUE]
String(s) == [String |-> s]
Number(n) == [Number |-> n]
Boolean(b) == [Boolean |-> b]
Array(elements) == [Array |-> elements]
Object(members) == [Object |-> members]
Member(name, element) == [name |-> name, element |-> element]

IsA(type, element) == type \in DOMAIN element

-----------------------------------------------------------------------------
(* Elements.                                                               *)

\* Object::Find; 0 is End().
Find(object, name) ==
    LET found == {i \in DOMAIN object.Object : object.Object[i].name = name}
    IN IF found = {} THEN 0 ELSE CHOOSE i \in found : \A j \in found : i <= j

\* Object::Insert at the end, where it does not throw.
Insert(object, member) == Object(Append(object.Object, member))

\* object[name] = element: operator[] adds the member that is missing.
SetMember(object, name, element) ==
    LET i == Find(object, name)
    IN IF i = 0 THEN Insert(object, Member(name, element))
       ELSE Object([object.Object EXCEPT ![i].element = element])

\* array[index] = element, counted from 1: operator[] fills up with nulls.
SetElement(array, index, element) ==
    LET size == Len(array.Array)
    IN Array([i \in 1..(IF index > size THEN index ELSE size) |->
                IF i = index THEN element ELSE IF i <= size THEN array.Array[i] ELSE Null])

\* UnknownElement::ConvertTo: an element of another type is replaced.
ConvertTo(type, element) ==
    IF IsA(type, element) THEN element ELSE (type :> <<>>)

-----------------------------------------------------------------------------
(* Writer.                                                                 *)

Escape == ("\"" :> "\"") @@ ("\\" :> "\\") @@ ("BS" :> "b") @@ ("FF" :> "f")
          @@ ("LF" :> "n") @@ ("CR" :> "r") @@ ("TAB" :> "t")

\* Mutant: a backslash is written as it is.
WriteStringBackslash(s) ==
    <<"\"">> \o FlattenSeq([i \in DOMAIN s |->
        IF s[i] \in DOMAIN Escape \ {"\\"} THEN <<"\\", Escape[s[i]]>> ELSE <<s[i]>>]) \o <<"\"">>

WriteString(s) ==
    <<"\"">> \o FlattenSeq([i \in DOMAIN s |->
        IF s[i] \in DOMAIN Escape THEN <<"\\", Escape[s[i]]>> ELSE <<s[i]>>]) \o <<"\"">>

Digits == <<"0", "1", "2", "3", "4", "5", "6", "7", "8", "9">>
WriteNumber(n) ==
    LET size == IF n < 0 THEN -n ELSE n
    IN (IF n < 0 THEN <<"-">> ELSE <<>>)
         \o (IF size > 9 THEN <<Digits[size \div 10 + 1]>> ELSE <<>>) \o <<Digits[(size % 10) + 1]>>

True == <<"t", "r", "u", "e">>
False == <<"f", "a", "l", "s", "e">>
NullText == <<"n", "u", "l", "l">>

\* The parts of an array or an object, each on its line.
Lines(parts, depth, open, close) ==
    IF parts = <<>> THEN <<open, close>>
    ELSE <<open, "LF">>
         \o FlattenSeq([i \in DOMAIN parts |->
                [t \in 1..(depth + 1) |-> "TAB"] \o parts[i]
                   \o (IF i < Len(parts) THEN <<",", "LF">> ELSE <<"LF">>)])
         \o [t \in 1..depth |-> "TAB"] \o <<close>>

\* Write_i.  The name of a member is not escaped.
RECURSIVE Write(_, _)
Write(element, depth) ==
    CASE IsA("Null", element) -> NullText
      [] IsA("Boolean", element) -> IF element.Boolean THEN True ELSE False
      [] IsA("Number", element) -> WriteNumber(element.Number)
      [] IsA("String", element) -> WriteString(element.String)
      [] IsA("Array", element) ->
             Lines([i \in DOMAIN element.Array |-> Write(element.Array[i], depth + 1)], depth, "[", "]")
      [] IsA("Object", element) ->
             Lines([i \in DOMAIN element.Object |->
                        <<"\"">> \o element.Object[i].name \o <<"\"", " ", ":", " ">>
                           \o Write(element.Object[i].element, depth + 1)], depth, "{", "}")

-----------------------------------------------------------------------------
(* Reader: scanning.  What is left of the text after a match is rest.      *)

Fails == [ok |-> FALSE]
From(s, i) == SubSeq(s, i, Len(s))

\* The longest beginning of s with characters of chars.
Span(s, chars) ==
    LET others == {i \in DOMAIN s : s[i] \notin chars}
    IN IF others = {} THEN Len(s) ELSE (CHOOSE i \in others : \A j \in others : i <= j) - 1

EatWhiteSpace(s) == From(s, Span(s, {" ", "TAB", "LF", "CR", "FF"}) + 1)

MatchExpectedString(token, expected, s) ==
    IF IsPrefix(expected, s) THEN [ok |-> TRUE, token |-> token, rest |-> From(s, Len(expected) + 1)]
    ELSE Fails

Unescape == ("/" :> "/") @@ ("\"" :> "\"") @@ ("\\" :> "\\") @@ ("b" :> "BS") @@ ("f" :> "FF")
            @@ ("n" :> "LF") @@ ("r" :> "CR") @@ ("t" :> "TAB")

\* MatchString, after the opening quote; read is what it has put together.
RECURSIVE MatchString(_, _)
MatchString(s, read) ==
    CASE s = <<>> -> Fails
      [] s[1] = "\"" -> [ok |-> TRUE, token |-> String(read), rest |-> From(s, 2)]
      [] s[1] = "\\" /\ Len(s) > 1 ->
             IF s[2] \in DOMAIN Unescape THEN MatchString(From(s, 3), Append(read, Unescape[s[2]])) ELSE Fails
      [] OTHER -> MatchString(From(s, 2), Append(read, s[1]))

Numeric == ToSet(Digits) \cup {"-"}
MatchNumber(s) ==
    LET n == Span(s, Numeric) IN [ok |-> TRUE, token |-> Number(SubSeq(s, 1, n)), rest |-> From(s, n + 1)]

Signs == {"{", "}", "[", "]", ",", ":"}
Token(s) ==
    CASE s[1] \in Signs -> MatchExpectedString((s[1] :> TRUE), <<s[1]>>, s)
      [] s[1] = "\"" -> MatchString(From(s, 2), <<>>)
      [] s[1] \in Numeric -> MatchNumber(s)
      [] s[1] = "t" -> MatchExpectedString(Boolean(TRUE), True, s)
      [] s[1] = "f" -> MatchExpectedString(Boolean(FALSE), False, s)
      [] s[1] = "n" -> MatchExpectedString(Null, NullText, s)
      [] OTHER -> Fails

RECURSIVE Scan(_, _)
Scan(s, tokens) ==
    LET text == EatWhiteSpace(s)
        match == Token(text)
    IN IF text = <<>> THEN [ok |-> TRUE, tokens |-> tokens]
       ELSE IF match.ok THEN Scan(match.rest, Append(tokens, match.token)) ELSE Fails

-----------------------------------------------------------------------------
(* Reader: parsing.  An outcome is "ok", "throw" for a ParseException and  *)
(* "assert" where TokenStream's assertion fails.                           *)

Stopped(outcome) == [outcome |-> outcome]
Parsed(element, rest) == [outcome |-> "ok", element |-> element, rest |-> rest]
At(type, ts) == ts # <<>> /\ IsA(type, ts[1])

\* What operator>> makes of a number token: a sign alone fails at the end of
\* the token, where eof() is true and the value undefined, and a sign after
\* a digit ends the number before the token.
Undefined == 1000
ParseNumber(text) ==
    LET digits == IF text[1] = "-" THEN From(text, 2) ELSE text
        value == FoldLeft(LAMBDA n, c : 10 * n + (CHOOSE d \in 1..10 : Digits[d] = c) - 1, 0, digits)
    IN CASE digits = <<>> -> [ok |-> TRUE, value |-> Undefined]
         [] "-" \in ToSet(digits) -> Fails
         [] OTHER -> [ok |-> TRUE, value |-> IF text[1] = "-" THEN -value ELSE value]

RECURSIVE Parse(_), ParseMembers(_, _), ParseElements(_, _)
Parse(ts) ==
    IF ts = <<>> THEN Stopped("throw")
    ELSE LET rest == Tail(ts)
         IN CASE IsA("{", ts[1]) /\ At("}", rest) -> Parsed(Object(<<>>), Tail(rest))
              [] IsA("{", ts[1]) /\ rest # <<>> -> ParseMembers(rest, Object(<<>>))
              [] IsA("[", ts[1]) /\ At("]", rest) -> Parsed(Array(<<>>), Tail(rest))
              [] IsA("[", ts[1]) /\ rest # <<>> -> ParseElements(rest, Array(<<>>))
              [] IsA("Number", ts[1]) -> LET n == ParseNumber(ts[1].Number)
                                         IN IF n.ok THEN Parsed(Number(n.value), rest) ELSE Stopped("throw")
              [] \E type \in {"String", "Boolean", "Null"} : IsA(type, ts[1]) -> Parsed(ts[1], rest)
              [] OTHER -> Stopped("throw")

\* One turn of the loop over the members: Peek() comes before the check for
\* the end of the tokens.
ParseMembers(ts, object) ==
    CASE ts = <<>> -> Stopped("assert")
      [] ~At("String", ts) \/ ~At(":", Tail(ts)) -> Stopped("throw")
      [] OTHER ->
           LET member == Parse(From(ts, 3))
               grown == Insert(object, Member(ts[1].String, member.element))
           IN CASE member.outcome # "ok" -> member
                [] Find(object, ts[1].String) # 0 -> Stopped("throw")
                [] At(",", member.rest) -> ParseMembers(Tail(member.rest), grown)
                [] At("}", member.rest) -> Parsed(grown, Tail(member.rest))
                [] OTHER -> Stopped("throw")

ParseElements(ts, array) ==
    LET item == Parse(ts)
        grown == Array(Append(array.Array, item.element))
    IN CASE item.outcome # "ok" -> item
         [] At(",", item.rest) -> ParseElements(Tail(item.rest), grown)
         [] At("]", item.rest) -> Parsed(grown, Tail(item.rest))
         [] OTHER -> Stopped("throw")

\* Reader::Read of an UnknownElement.
Read(text) ==
    LET scanned == Scan(text, <<>>)
        parsed == Parse(scanned.tokens)
    IN CASE ~scanned.ok -> Stopped("throw")
         [] parsed.outcome = "ok" /\ parsed.rest # <<>> -> Stopped("throw")
         [] OTHER -> parsed
=============================================================================
