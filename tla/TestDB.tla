------------------------------- MODULE TestDB -------------------------------
(***************************************************************************)
(* TestDB (Backend/lib/TestDB.cpp): a mock database that keeps one JSON    *)
(* document and answers queries on it with other JSON documents.           *)
(*                                                                         *)
(* A name is written as a text of one character, and so is the text of an  *)
(* error.                                                                  *)
(***************************************************************************)
EXTENDS JSON

CONSTANTS
    Source,     \* the source the database was made for
    Others,     \* other names of sources
    Files,      \* the texts of the file the source may be loaded from
    Queries,    \* <<key, value>>
    NoResult

VARIABLES
    doc,        \* _doc
    result,     \* what the last query returned
    query       \* its arguments

vars == <<doc, result, query>>

CONTENT == <<"content">>
ERROR == <<"error">>
Text(c) == String(<<c>>)

\* Reader::Read of an Object: TestDB() throws where the file holds none.
ReadsObject(text) == Read(text).outcome = "ok" /\ IsA("Object", Read(text).element)

\* TestDB(): without a file the document is empty.
Init ==
    /\ doc \in {Object(<<>>)} \cup {Read(text).element : text \in {t \in Files : ReadsObject(t)}}
    /\ result = NoResult
    /\ query = <<>>

Unrecognized == SetMember(Object(<<>>), ERROR, Text("unrecognized"))

Select(source) ==
    /\ result' = IF source = Source THEN doc ELSE Unrecognized
    /\ query' = <<source>>
    /\ UNCHANGED doc

\* (*doc())["content"] as an Array: doc() is not const, so the operator adds
\* and converts what is not there.
Content ==
    LET i == Find(doc, CONTENT)
    IN ConvertTo("Array", IF i = 0 THEN Null ELSE doc.Object[i].element)

\* The item is an Object with the key, and its value a String: otherwise the
\* constant operators throw.
Readable(item, key) ==
    IsA("Object", item) /\ Find(item, key) # 0 /\ IsA("String", item.Object[Find(item, key)].element)

ValueOf(item, key) == item.Object[Find(item, key)].element.String

\* The loop over the items, which the first exception ends.
Found(items, key, value) ==
    LET bad == {i \in DOMAIN items : ~Readable(items[i], key)}
        read == IF bad = {} THEN items
                ELSE SubSeq(items, 1, (CHOOSE i \in bad : \A j \in bad : i <= j) - 1)
    IN [content |-> SelectSeq(read, LAMBDA item : ValueOf(item, key) = value),
        error |-> IF bad = {} THEN Null ELSE Text("exception")]

Results(found) ==
    SetMember(SetMember(Object(<<>>), CONTENT, Array(found.content)), ERROR, found.error)

SelectWhere(source, key, value) ==
    /\ IF source = Source
       THEN /\ result' = Results(Found(Content.Array, key, value))
            /\ doc' = SetMember(doc, CONTENT, Content)
       ELSE /\ result' = Results([content |-> <<>>, error |-> Text("unrecognized")])
            /\ UNCHANGED doc
    /\ query' = <<source, key, value>>

Next ==
    \E source \in {Source} \cup Others :
        \/ Select(source)
        \/ \E q \in Queries : SelectWhere(source, q[1], q[2])

Spec == Init /\ [][Next]_vars

-----------------------------------------------------------------------------
(* Properties                                                              *)

MemberOf(object, name) == object.Object[Find(object, name)].element

\* A query without an error has found every item whose key has the value, in
\* their order, and no other; with an error it has found only such items
\* (TestDB.cpp 32-62, DB.h 21-27).
CompleteOrError ==
    Len(query) = 3 =>
        /\ MemberOf(result, ERROR) = Null =>
              /\ query[1] = Source
              /\ LET items == Content.Array
                     Matches(item) == ValueOf(item, query[2]) = query[3]
                 IN /\ \A i \in DOMAIN items : Readable(items[i], query[2])
                    /\ MemberOf(result, CONTENT) = Array(SelectSeq(items, Matches))
        /\ LET found == MemberOf(result, CONTENT).Array
           IN \A i \in DOMAIN found : ValueOf(found[i], query[2]) = query[3]

\* A query, select() and selectWhere() being const, leaves the data alone
\* (TestDB.cpp 20-64).
DataKept == [][doc' = doc]_vars
=============================================================================
