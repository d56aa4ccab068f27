--------------------------- MODULE LockFreeStack ---------------------------
(***************************************************************************)
(* boost::lockfree::stack and the free lists it and the queues take their  *)
(* nodes from (common/include/boost/lockfree/stack.hpp,                    *)
(* detail/freelist.hpp): two stacks, "tos" of the items and "pool" of the  *)
(* free nodes, that use the same next pointer of a node.  caching_freelist *)
(* allocates memory when the pool is empty, static_freelist fails.         *)
(*                                                                         *)
(* allocate() is a pop from the pool and deallocate() a push onto it, with *)
(* the same reads, writes and compare-and-swaps as push() and pop() of the *)
(* stack itself; a step does one of them.                                  *)
(***************************************************************************)
EXTENDS Integers, Sequences, FiniteSets, SequencesExt

CONSTANTS
    Threads, Items,
    Nodes,    \* the nodes of a static pool; bound: the memory of a caching one
    Static,   \* static_freelist or caching_freelist
    Tags,     \* how many tags there are: 2^16 beside a compressed pointer
    MaxCalls, \* bound: calls of push() and pop()
    NoItem, NULL

\* There is memory, not without end, and the constants are none of the values.
StackAssumption ==
    /\ IsFiniteSet(Nodes) /\ Nodes # {} /\ NULL \notin Nodes
    /\ NoItem \notin Items
    /\ Static \in BOOLEAN
    /\ Tags \in Nat \ {0}

VARIABLES
    top,      \* of the two stacks: [ptr, tag], the tag counted on beyond Tags
    next,     \* of each node
    v,        \* the item of each node
    fresh,    \* the memory never used
    calls,    \* calls so far
    pc,
    old, new, \* the copies a thread has made of the top and of its next pointer
    mine,     \* the node in the hands of a thread
    t         \* the item a thread pushes or has popped

vars == <<top, next, v, fresh, calls, pc, old, new, mine, t>>

Stacks == {"tos", "pool"}
Null == [ptr |-> NULL, tag |-> 0]
Order == SetToSeq(Nodes)

\* The constructor of static_freelist deallocates every node of its chunk.
Init ==
    /\ top = [tos |-> Null,
              pool |-> IF Static THEN [ptr |-> Order[Len(Order)], tag |-> Len(Order)] ELSE Null]
    /\ next = [n \in Nodes |->
                IF Static /\ n # Order[1]
                THEN Order[CHOOSE i \in 1..Len(Order) - 1 : Order[i + 1] = n] ELSE NULL]
    /\ v = [n \in Nodes |-> NoItem]
    /\ fresh = IF Static THEN {} ELSE Nodes
    /\ calls = 0
    /\ pc = [x \in Threads |-> <<"out", "tos">>]
    /\ old = [x \in Threads |-> Null]
    /\ new = [x \in Threads |-> NULL]
    /\ mine = [x \in Threads |-> NULL]
    /\ t = [x \in Threads |-> NoItem]

Goto(x, label, s) == pc' = [pc EXCEPT ![x] = <<label, s>>]

\* The nodes along the links from one of them, and those of a stack, the top first.
Begun(n) == IF n = NULL THEN <<>> ELSE <<n>>
Longer(w, link) == IF w = <<>> \/ link[w[Len(w)]] = NULL THEN w ELSE Append(w, link[w[Len(w)]])
Walk(first, link) ==
    LET walk[k \in 0..Cardinality(Nodes)] ==
            IF k = 0 THEN Begun(first) ELSE Longer(walk[k - 1], link)
    IN walk[Cardinality(Nodes)]
Chain(s) == Walk(top[s].ptr, next)

\* Mutant: a store in the place of the compare-and-swap.
CasStored(x, s, n) == top' = [top EXCEPT ![s] = [ptr |-> n, tag |-> old[x].tag + 1]]

\* tagged_ptr::cas(): pointer and tag are compared, the tag is incremented.
Same(p, q) == p.ptr = q.ptr /\ (p.tag - q.tag) % Tags = 0
Swapped(p, n) == [ptr |-> n, tag |-> p.tag + 1]
Cas(x, s, n) ==
    /\ Same(top[s], old[x])
    /\ top' = [top EXCEPT ![s] = Swapped(top[s], n)]

CasFails(x, s) ==
    /\ ~Same(top[s], old[x])
    /\ UNCHANGED top

-----------------------------------------------------------------------------
(* Taking a node: pop() from "tos", allocate() from "pool" *)

\* push() begins with allocate().  With a caching pool memory does not run
\* out: one fresh node is left for each thread that allocates.
Push(x) ==
    /\ pc[x][1] = "out"
    /\ calls < MaxCalls
    /\ Static \/ Cardinality({y \in Threads : pc[y][2] = "pool"}) < Cardinality(fresh)
    /\ calls' = calls + 1
    /\ \E i \in Items : t' = [t EXCEPT ![x] = i]
    /\ Goto(x, "take", "pool")
    /\ UNCHANGED <<top, next, v, fresh, old, new, mine>>

Pop(x) ==
    /\ pc[x][1] = "out"
    /\ calls < MaxCalls
    /\ calls' = calls + 1
    /\ Goto(x, "take", "tos")
    /\ UNCHANGED <<top, next, v, fresh, old, new, mine, t>>

\* The node that x has got becomes the node of its item.
Construct(x, n) ==
    /\ mine' = [mine EXCEPT ![x] = n]
    /\ v' = [v EXCEPT ![n] = t[x]]
    /\ Goto(x, "put", "tos")

ReadTop(x, s) ==
    /\ pc[x] = <<"take", s>>
    /\ top[s].ptr # NULL
    /\ old' = [old EXCEPT ![x] = top[s]]
    /\ Goto(x, "next", s)
    /\ UNCHANGED <<top, next, v, fresh, calls, new, mine, t>>

\* pop() returns false.
FindEmpty(x) ==
    /\ pc[x] = <<"take", "tos">>
    /\ top["tos"].ptr = NULL
    /\ Goto(x, "out", "tos")
    /\ UNCHANGED <<top, next, v, fresh, calls, old, new, mine, t>>

\* The pool is empty: a caching one asks for memory, with a static one
\* push() returns false.
FindPoolEmpty(x) ==
    /\ pc[x] = <<"take", "pool">>
    /\ top["pool"].ptr = NULL
    /\ IF Static
       THEN /\ t' = [t EXCEPT ![x] = NoItem]
            /\ Goto(x, "out", "tos")
            /\ UNCHANGED <<v, mine, fresh>>
       ELSE /\ fresh # {}
            /\ LET n == CHOOSE n \in fresh : TRUE
               IN fresh' = fresh \ {n} /\ Construct(x, n)
            /\ UNCHANGED t
    /\ UNCHANGED <<top, next, calls, old, new>>

ReadNext(x, s) ==
    /\ pc[x] = <<"next", s>>
    /\ new' = [new EXCEPT ![x] = next[old[x].ptr]]
    /\ Goto(x, "swap", s)
    /\ UNCHANGED <<top, next, v, fresh, calls, old, mine, t>>

Allocate(x) ==
    /\ pc[x] = <<"swap", "pool">>
    /\ \/ /\ Cas(x, "pool", new[x])
          /\ Construct(x, old[x].ptr)
       \/ /\ CasFails(x, "pool")
          /\ Goto(x, "take", "pool")
          /\ UNCHANGED <<v, mine>>
    /\ UNCHANGED <<next, fresh, calls, old, new, t>>

\* The item is read after the swap: the node is this thread's then.
TakeItem(x) ==
    /\ pc[x] = <<"swap", "tos">>
    /\ \/ /\ Cas(x, "tos", new[x])
          /\ t' = [t EXCEPT ![x] = v[old[x].ptr]]
          /\ mine' = [mine EXCEPT ![x] = old[x].ptr]
          /\ Goto(x, "put", "pool")
       \/ /\ CasFails(x, "tos")
          /\ Goto(x, "take", "tos")
          /\ UNCHANGED <<t, mine>>
    /\ UNCHANGED <<next, v, fresh, calls, old, new>>

-----------------------------------------------------------------------------
(* Giving a node: push() onto "tos", deallocate() onto "pool" *)

CopyTop(x, s) ==
    /\ pc[x] = <<"put", s>>
    /\ old' = [old EXCEPT ![x] = top[s]]
    /\ Goto(x, "set", s)
    /\ UNCHANGED <<top, next, v, fresh, calls, new, mine, t>>

SetNext(x, s) ==
    /\ pc[x] = <<"set", s>>
    /\ next' = [next EXCEPT ![mine[x]] = old[x].ptr]
    /\ Goto(x, "give", s)
    /\ UNCHANGED <<top, v, fresh, calls, old, new, mine, t>>

Give(x, s) ==
    /\ pc[x] = <<"give", s>>
    /\ \/ /\ Cas(x, s, mine[x])
          /\ mine' = [mine EXCEPT ![x] = NULL]
          /\ t' = [t EXCEPT ![x] = NoItem]
          /\ old' = [old EXCEPT ![x] = Null]
          /\ new' = [new EXCEPT ![x] = NULL]
          /\ Goto(x, "out", "tos")
       \/ /\ CasFails(x, s)
          /\ Goto(x, "put", s)
          /\ UNCHANGED <<mine, t, old, new>>
    /\ UNCHANGED <<next, v, fresh, calls>>

-----------------------------------------------------------------------------
\* Every call has returned and no more are made.
Finished ==
    /\ calls = MaxCalls
    /\ \A x \in Threads : pc[x][1] = "out"
    /\ UNCHANGED vars

Step(x) ==
    \/ Push(x) \/ Pop(x) \/ FindEmpty(x) \/ FindPoolEmpty(x) \/ Allocate(x) \/ TakeItem(x)
    \/ \E s \in Stacks : ReadTop(x, s) \/ ReadNext(x, s) \/ CopyTop(x, s) \/ SetNext(x, s) \/ Give(x, s)

Next == (\E x \in Threads : Step(x)) \/ Finished

Spec == Init /\ [][Next]_vars

-----------------------------------------------------------------------------
(* Properties *)

stack == [i \in DOMAIN Chain("tos") |-> v[Chain("tos")[i]]]

Pushing(x) == pc[x] \in ({"put", "set", "give"} \X {"tos"}) \cup ({"take", "next", "swap"} \X {"pool"})
Abstract == INSTANCE Lifo WITH
    offered <- [x \in Threads |-> IF Pushing(x) THEN t[x] ELSE NoItem],
    taken <- [x \in Threads |-> IF Pushing(x) THEN NoItem ELSE t[x]]

\* stack is a stack: an item that has been pushed is popped once, and the
\* one on top first, although a node may leave the stack, pass through the
\* pool and come back on top while another thread holds its address
\* (stack.hpp 64-103).
ImplementsLifo == Abstract!Spec

\* The tags tell the tops apart: no thread is overtaken by as many swaps as there are tags
\* while it has a copy of a top.
TagsTell ==
    \A x \in Threads :
        pc[x][1] \in {"next", "swap", "set", "give"} => top[pc[x][2]].tag - old[x].tag < Tags

\* A node is on the stack, in the pool, unused or in the hands of one
\* thread, never in two of these places and never lost (freelist.hpp).
NodesApart ==
    LET inLists == Chain("tos") \o Chain("pool")
        held == {mine[x] : x \in Threads} \ {NULL}
    IN /\ IsInjective(inLists)
       /\ \A x, y \in Threads : x # y /\ mine[x] = mine[y] => mine[x] = NULL
       /\ ToSet(inLists) \cap held = {}
       /\ fresh = Nodes \ (ToSet(inLists) \cup held)
=============================================================================
