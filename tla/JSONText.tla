------------------------------ MODULE JSONText ------------------------------
(***************************************************************************)
(* The texts that are given to json::Reader, such as the files of TestDB,  *)
(* put together piece by piece, and the grammar they are measured by.      *)
(***************************************************************************)
EXTENDS JSON

CONSTANTS
    Starts,     \* how a text may begin
    Pieces,     \* what is added to it
    MaxPieces   \* bound: the number of pieces

VARIABLES
    text,
    left        \* how many pieces may still come

vars == <<text, left>>

Init ==
    /\ text \in Starts
    /\ left = MaxPieces

Type ==
    /\ left > 0
    /\ \E p \in Pieces : text' = text \o p
    /\ left' = left - 1

Clear ==
    /\ left = 0
    /\ text' \in Starts
    /\ left' = MaxPieces

Next == Type \/ Clear

Spec == Init /\ [][Next]_vars

-----------------------------------------------------------------------------
(* The grammar of JSON, by all the ways to split a text.                   *)

Trim(s) == LET front == EatWhiteSpace(s) IN Reverse(EatWhiteSpace(Reverse(front)))

\* The length of the run of backslashes before the i-th character.
Before(s, i) == Span(Reverse(SubSeq(s, 1, i - 1)), {"\\"})
Escaped(s, i) == Before(s, i) % 2 = 1

\* What may follow a backslash in a string: the grammar's own list, without the code points.
Escapes == {"\"", "\\", "/", "b", "f", "n", "r", "t"}

IsString(s) ==
    LET n == Len(s)
    IN /\ n >= 2
       /\ s[1] = "\""
       /\ \A i \in 2..n : IF Escaped(s, i) THEN s[i] \in Escapes /\ i < n
                          ELSE s[i] = "\"" <=> i = n

IsNumber(s) ==
    LET digits == IF s[1] = "-" THEN Tail(s) ELSE s
    IN digits # <<>> /\ ToSet(digits) \subseteq ToSet(Digits)

Places(s, c) == {i \in DOMAIN s : s[i] = c}
Within(s) == SubSeq(s, 2, Len(s) - 1)

RECURSIVE IsJSON(_), IsElements(_), IsMembers(_, _)
IsJSON(s) ==
    LET t == Trim(s)
        n == Len(t)
    IN /\ n > 0
       /\ \/ t \in {True, False, NullText} \/ IsString(t) \/ IsNumber(t)
          \/ n > 1 /\ t[1] = "[" /\ t[n] = "]" /\ (Trim(Within(t)) = <<>> \/ IsElements(Within(t)))
          \/ n > 1 /\ t[1] = "{" /\ t[n] = "}" /\ (Trim(Within(t)) = <<>> \/ IsMembers(Within(t), {}))
IsElements(s) ==
    \/ IsJSON(s)
    \/ \E k \in Places(s, ",") : IsJSON(SubSeq(s, 1, k - 1)) /\ IsElements(From(s, k + 1))
IsMembers(s, seen) ==
    \E c \in Places(s, ":") :
        LET name == Trim(SubSeq(s, 1, c - 1))
        IN /\ IsString(name)
           /\ name \notin seen
           /\ \/ IsJSON(From(s, c + 1))
              \/ \E k \in {i \in Places(s, ",") : i > c} :
                     IsJSON(SubSeq(s, c + 1, k - 1)) /\ IsMembers(From(s, k + 1), seen \cup {name})

-----------------------------------------------------------------------------
(* Properties                                                              *)

\* The scanner and the recursive descent of Reader together take exactly the
\* texts of the grammar, with the names of each object different
\* (reader.inl 137-517).
ReadsJSON == Read(text).outcome = "ok" <=> IsJSON(text)

\* Reader never asks for a token after the last one: that a text ends too
\* early is an exception, never a failed assertion (reader.inl 109-117).
NeverPastEnd == Read(text).outcome # "assert"
=============================================================================
