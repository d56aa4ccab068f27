---------------------------- MODULE JSONDocument ----------------------------
(***************************************************************************)
(* A document that is put together with the operators of UnknownElement,   *)
(* Object and Array (elements.inl), as Lister and TestDB do, and that may  *)
(* be written and read back at any time.                                   *)
(***************************************************************************)
EXTENDS JSON

CONSTANTS
    Names,      \* of members
    Values,     \* elements to put into the document
    MaxSize,    \* bound: the size of an object or an array
    MaxEdits    \* bound: the number of edits

VARIABLES
    root,       \* the document, an UnknownElement
    edits

vars == <<root, edits>>

\* UnknownElement::UnknownElement() is null.
Init ==
    /\ root = Null
    /\ edits = 0

Edit(document) ==
    /\ edits < MaxEdits
    /\ edits' = edits + 1
    /\ root' = document

RootObject == ConvertTo("Object", root)
RootArray == ConvertTo("Array", root)

\* root[name] = v, and root[name][inner] = v with the conversions in between.
AssignMember ==
    \E name \in Names, v \in Values : Edit(SetMember(RootObject, name, v))

Inner(name) ==
    LET i == Find(RootObject, name) IN IF i = 0 THEN Null ELSE RootObject.Object[i].element

AssignInner ==
    \E name \in Names, v \in Values :
        \/ \E inner \in Names : Edit(SetMember(RootObject, name, SetMember(ConvertTo("Object", Inner(name)), inner, v)))
        \/ \E i \in 1..MaxSize : Edit(SetMember(RootObject, name, SetElement(ConvertTo("Array", Inner(name)), i, v)))

\* root[i] = v.
AssignElement ==
    \E i \in 1..MaxSize, v \in Values : Edit(SetElement(RootArray, i, v))

\* Object::Insert throws when the name is there.
InsertMember ==
    \E name \in Names, v \in Values :
        /\ Find(RootObject, name) = 0
        /\ Edit(Insert(RootObject, Member(name, v)))

\* Array::Insert at any place.
InsertElement ==
    /\ Len(RootArray.Array) < MaxSize
    /\ \E i \in 1..(Len(RootArray.Array) + 1), v \in Values : Edit(Array(InsertAt(RootArray.Array, i, v)))

\* Erase of both containers.
Erase ==
    \/ IsA("Object", root) /\ \E i \in DOMAIN root.Object : Edit(Object(RemoveAt(root.Object, i)))
    \/ IsA("Array", root) /\ \E i \in DOMAIN root.Array : Edit(Array(RemoveAt(root.Array, i)))

\* The document is destroyed and a new one begun.
Restart ==
    /\ edits = MaxEdits
    /\ edits' = 0
    /\ root' = Null

Next ==
    \/ AssignMember \/ AssignInner \/ AssignElement \/ InsertMember \/ InsertElement \/ Erase \/ Restart

Spec == Init /\ [][Next]_vars

-----------------------------------------------------------------------------
(* Properties                                                              *)

\* What Writer writes Reader reads as the same document, the members of an
\* object in their order (writer.inl 39-142, reader.inl 137-517).
RoundTrip == Read(Write(root, 0)) = Parsed(root, <<>>)
=============================================================================
