-------------------------------- MODULE Fifo --------------------------------
(***************************************************************************)
(* What a concurrent queue promises the threads that share it: an item     *)
(* enters at the back once, at some moment of the push() that brings it,   *)
(* and the item at the front leaves with exactly one pop().  Clear drops   *)
(* what the queue holds.  The queues of common/include are shown to        *)
(* implement this specification.                                           *)
(***************************************************************************)
EXTENDS Sequences

CONSTANTS Producers, Consumers, Items, NoItem

VARIABLES
    queue,    \* the items inside, oldest first
    offered,  \* the item of a push() that has not taken effect yet
    taken     \* the item a pop() has taken out and not handed over yet

vars == <<queue, offered, taken>>

Init ==
    /\ queue = <<>>
    /\ offered = [p \in Producers |-> NoItem]
    /\ taken = [c \in Consumers |-> NoItem]

Offer(p) ==
    /\ offered[p] = NoItem
    /\ \E i \in Items : offered' = [offered EXCEPT ![p] = i]
    /\ UNCHANGED <<queue, taken>>

Push(p) ==
    /\ offered[p] # NoItem
    /\ queue' = Append(queue, offered[p])
    /\ offered' = [offered EXCEPT ![p] = NoItem]
    /\ UNCHANGED taken

Pop(c) ==
    /\ queue # <<>>
    /\ taken[c] = NoItem
    /\ taken' = [taken EXCEPT ![c] = Head(queue)]
    /\ queue' = Tail(queue)
    /\ UNCHANGED offered

HandOver(c) ==
    /\ taken[c] # NoItem
    /\ taken' = [taken EXCEPT ![c] = NoItem]
    /\ UNCHANGED <<queue, offered>>

Clear ==
    /\ queue' = <<>>
    /\ UNCHANGED <<offered, taken>>

Next ==
    \/ \E p \in Producers : Offer(p) \/ Push(p)
    \/ \E c \in Consumers : Pop(c) \/ HandOver(c)
    \/ Clear

Spec == Init /\ [][Next]_vars
=============================================================================
