-------------------------------- MODULE Lifo --------------------------------
(***************************************************************************)
(* What a concurrent stack promises the threads that share it: the item    *)
(* of a push() gets on top once, at some moment of the call, and a pop()   *)
(* that succeeds takes the item that is on top.                            *)
(***************************************************************************)
EXTENDS Sequences

CONSTANTS Threads, Items, NoItem

VARIABLES
    stack,    \* the items inside, the top first
    offered,  \* the item of a push() that has not taken effect yet
    taken     \* the item a pop() has taken and not handed over yet

vars == <<stack, offered, taken>>

Init ==
    /\ stack = <<>>
    /\ offered = [x \in Threads |-> NoItem]
    /\ taken = [x \in Threads |-> NoItem]

\* A push() begins, or is given up for want of memory.
Offer(x) ==
    /\ \/ offered[x] = NoItem /\ \E i \in Items : offered' = [offered EXCEPT ![x] = i]
       \/ offered[x] # NoItem /\ offered' = [offered EXCEPT ![x] = NoItem]
    /\ UNCHANGED <<stack, taken>>

Push(x) ==
    /\ offered[x] # NoItem
    /\ stack' = <<offered[x]>> \o stack
    /\ offered' = [offered EXCEPT ![x] = NoItem]
    /\ UNCHANGED taken

Pop(x) ==
    /\ stack # <<>>
    /\ taken[x] = NoItem
    /\ taken' = [taken EXCEPT ![x] = Head(stack)]
    /\ stack' = Tail(stack)
    /\ UNCHANGED offered

HandOver(x) ==
    /\ taken[x] # NoItem
    /\ taken' = [taken EXCEPT ![x] = NoItem]
    /\ UNCHANGED <<stack, offered>>

Next == \E x \in Threads : Offer(x) \/ Push(x) \/ Pop(x) \/ HandOver(x)

Spec == Init /\ [][Next]_vars
=============================================================================
