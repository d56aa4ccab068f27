--------------------------- MODULE LockFreeQueue ---------------------------
(***************************************************************************)
(* The lock-free queues of common/include: pion::PionLockFreeQueue and     *)
(* boost::lockfree::fifo, which its authors took it from.  Both are the    *)
(* list of Michael and Scott with tagged pointers against reuse of nodes.  *)
(* They differ in what the constructor of a node does to the tag of its    *)
(* next pointer (KeepsTags).                                               *)
(*                                                                         *)
(* A step reads or writes one shared word.  The free list of the nodes is  *)
(* LockFreeStack: here allocate() and deallocate() are one step each, and  *)
(* deallocate() writes the next pointer of the node, as it does there.     *)
(***************************************************************************)
EXTENDS Integers, Sequences, FiniteSets, SequencesExt

CONSTANTS
    Producers, Consumers, Items,
    Active,     \* the producers and consumers that use the queue
    Nodes,      \* bound: the memory there is
    KeepsTags,  \* fifo: node(T const &) increments the tag its memory has
    Tags,       \* how many tags there are: 2^16 beside a compressed pointer
    MaxPushes,  \* bound: calls of push()
    NoItem, NULL

\* There is memory, not without end, and the constants are none of the values.
QueueAssumption ==
    /\ IsFiniteSet(Nodes) /\ Nodes # {} /\ NULL \notin Nodes
    /\ NoItem \notin Items
    /\ Producers \cap Consumers = {}
    /\ Tags \in Nat \ {0}

VARIABLES
    m_head_ptr, m_tail_ptr,  \* [ptr, tag], the tag counted on beyond Tags
    next, data,   \* of each node
    m_size,
    m_free_list,  \* the nodes to be used again, the last one freed first
    fresh,        \* the memory that has not been used yet
    pushes,       \* calls of push() so far
    pc,
    node_ptr,     \* the node a thread has created
    head_ptr, tail_ptr, next_ptr,  \* the copies a thread has made
    t,            \* the item a thread pushes or has popped
    sawEmpty      \* whether the queue was empty when a consumer read the next pointer

locals == <<node_ptr, head_ptr, tail_ptr, next_ptr, t, sawEmpty>>
memory == <<m_head_ptr, m_tail_ptr, next, data, m_size, m_free_list, fresh>>
vars == <<memory, pushes, pc, locals>>

Threads == Producers \cup Consumers
Null == [ptr |-> NULL, tag |-> 0]
First == CHOOSE n \in Nodes : TRUE

Init ==
    /\ m_head_ptr = [ptr |-> First, tag |-> 0]
    /\ m_tail_ptr = m_head_ptr
    /\ next = [n \in Nodes |-> Null]
    /\ data = [n \in Nodes |-> NoItem]
    /\ m_size = 0
    /\ m_free_list = <<>>
    /\ fresh = Nodes \ {First}
    /\ pushes = 0
    /\ pc = [x \in Threads |-> "out"]
    /\ node_ptr = [p \in Producers |-> NULL]
    /\ head_ptr = [c \in Consumers |-> Null]
    /\ tail_ptr = [x \in Threads |-> Null]
    /\ next_ptr = [x \in Threads |-> Null]
    /\ t = [x \in Threads |-> NoItem]
    /\ sawEmpty = [c \in Consumers |-> FALSE]

\* The nodes along the links from one of them, those of the queue from m_head_ptr on, and
\* the items of the nodes behind the first.
Begun(n) == IF n = NULL THEN <<>> ELSE <<n>>
Longer(w, link) == IF w = <<>> \/ link[w[Len(w)]] = NULL THEN w ELSE Append(w, link[w[Len(w)]])
Walk(first, link) ==
    LET walk[k \in 0..Cardinality(Nodes)] ==
            IF k = 0 THEN Begun(first) ELSE Longer(walk[k - 1], link)
    IN walk[Cardinality(Nodes)]
Links == [n \in Nodes |-> next[n].ptr]
Chain == Walk(m_head_ptr.ptr, Links)
Linked == Tail(Chain)
queue == [i \in DOMAIN Linked |-> data[Linked[i]]]

Index(s, e) == CHOOSE i \in DOMAIN s : s[i] = e

Goto(x, label) == pc' = [pc EXCEPT ![x] = label]

\* Mutant: a plain pointer, without the tag.
SwappedUntagged(old, n) == [ptr |-> n, tag |-> old.tag]

\* tagged_ptr::operator== and cas(): compare pointer and tag; cas() increments the tag.
Same(p, q) == p.ptr = q.ptr /\ (p.tag - q.tag) % Tags = 0
Swapped(old, n) == [ptr |-> n, tag |-> old.tag + 1]

-----------------------------------------------------------------------------
(* push() *)

\* createNode() for the node n: where its memory is, and its next pointer.
Constructed(n) == [ptr |-> NULL, tag |-> IF KeepsTags THEN next[n].tag + 1 ELSE 0]

Create(p, n) ==
    /\ next' = [next EXCEPT ![n] = Constructed(n)]
    /\ node_ptr' = [node_ptr EXCEPT ![p] = n]
    /\ \E i \in Items : /\ data' = [data EXCEPT ![n] = i]
                        /\ t' = [t EXCEPT ![p] = i]

Push(p) ==
    /\ pc[p] = "out"
    /\ pushes < MaxPushes
    /\ pushes' = pushes + 1
    /\ \/ /\ m_free_list # <<>>
          /\ Create(p, Head(m_free_list))
          /\ m_free_list' = Tail(m_free_list)
          /\ UNCHANGED fresh
       \/ /\ m_free_list = <<>>
          /\ fresh # {}
          /\ Create(p, CHOOSE n \in fresh : TRUE)
          /\ fresh' = fresh \ {CHOOSE n \in fresh : TRUE}
          /\ UNCHANGED m_free_list
    /\ Goto(p, "tail")
    /\ UNCHANGED <<m_head_ptr, m_tail_ptr, m_size, head_ptr, tail_ptr, next_ptr, sawEmpty>>

ReadTail(p) ==
    /\ pc[p] = "tail"
    /\ tail_ptr' = [tail_ptr EXCEPT ![p] = m_tail_ptr]
    /\ Goto(p, "next")
    /\ UNCHANGED <<memory, pushes, node_ptr, head_ptr, next_ptr, t, sawEmpty>>

ReadNext(p) ==
    /\ pc[p] = "next"
    /\ next_ptr' = [next_ptr EXCEPT ![p] = next[tail_ptr[p].ptr]]
    /\ Goto(p, "check")
    /\ UNCHANGED <<memory, pushes, node_ptr, head_ptr, tail_ptr, t, sawEmpty>>

CheckTail(p) ==
    /\ pc[p] = "check"
    /\ Goto(p, IF ~Same(m_tail_ptr, tail_ptr[p]) THEN "tail"
               ELSE IF next_ptr[p].ptr = NULL THEN "link" ELSE "help")
    /\ UNCHANGED <<memory, pushes, locals>>

Link(p) ==
    /\ pc[p] = "link"
    /\ IF Same(next[tail_ptr[p].ptr], next_ptr[p])
       THEN /\ next' = [next EXCEPT ![tail_ptr[p].ptr] = Swapped(@, node_ptr[p])]
            /\ t' = [t EXCEPT ![p] = NoItem]
            /\ Goto(p, "swing")
       ELSE /\ Goto(p, "tail")
            /\ UNCHANGED <<next, t>>
    /\ UNCHANGED <<m_head_ptr, m_tail_ptr, data, m_size, m_free_list, fresh, pushes, node_ptr,
                   head_ptr, tail_ptr, next_ptr, sawEmpty>>

\* m_tail_ptr.cas(tail_ptr, n): it may fail, somebody else has done it then.
CasTail(x, n) ==
    m_tail_ptr' = IF Same(m_tail_ptr, tail_ptr[x]) THEN Swapped(m_tail_ptr, n) ELSE m_tail_ptr

\* The tail to the inserted node, and ++m_size.
Swing(p) ==
    /\ pc[p] = "swing"
    /\ CasTail(p, node_ptr[p])
    /\ m_size' = m_size + 1
    /\ node_ptr' = [node_ptr EXCEPT ![p] = NULL]
    /\ tail_ptr' = [tail_ptr EXCEPT ![p] = Null]
    /\ next_ptr' = [next_ptr EXCEPT ![p] = Null]
    /\ Goto(p, "out")
    /\ UNCHANGED <<m_head_ptr, next, data, m_free_list, fresh, pushes, head_ptr, t, sawEmpty>>

Help(x, label) ==
    /\ pc[x] = "help"
    /\ CasTail(x, next_ptr[x].ptr)
    /\ Goto(x, label)
    /\ UNCHANGED <<m_head_ptr, next, data, m_size, m_free_list, fresh, pushes, locals>>

-----------------------------------------------------------------------------
(* pop(), empty() and clear() *)

ReadHead(c) ==
    /\ pc[c] \in {"out", "head"}
    /\ head_ptr' = [head_ptr EXCEPT ![c] = m_head_ptr]
    /\ Goto(c, "tail")
    /\ UNCHANGED <<memory, pushes, node_ptr, tail_ptr, next_ptr, t, sawEmpty>>

ReadNextOfHead(c) ==
    /\ pc[c] = "next"
    /\ next_ptr' = [next_ptr EXCEPT ![c] = next[head_ptr[c].ptr]]
    /\ sawEmpty' = [sawEmpty EXCEPT ![c] = (queue = <<>>)]
    /\ Goto(c, "check")
    /\ UNCHANGED <<memory, pushes, node_ptr, head_ptr, tail_ptr, t>>

CheckHead(c) ==
    /\ pc[c] = "check"
    /\ Goto(c, IF ~Same(m_head_ptr, head_ptr[c]) THEN "head"
               ELSE IF head_ptr[c].ptr # tail_ptr[c].ptr THEN "value"
               ELSE IF next_ptr[c].ptr = NULL THEN "empty" ELSE "help")
    /\ UNCHANGED <<memory, pushes, locals>>

Forget(c) ==
    /\ head_ptr' = [head_ptr EXCEPT ![c] = Null]
    /\ tail_ptr' = [tail_ptr EXCEPT ![c] = Null]
    /\ next_ptr' = [next_ptr EXCEPT ![c] = Null]
    /\ sawEmpty' = [sawEmpty EXCEPT ![c] = FALSE]
    /\ UNCHANGED node_ptr

ReturnEmpty(c) ==
    /\ pc[c] = "empty"
    /\ Goto(c, "out")
    /\ Forget(c)
    /\ UNCHANGED <<memory, pushes, t>>

\* The value is read before the swap: afterwards the node may be anyone's.
ReadValue(c) ==
    /\ pc[c] = "value"
    /\ t' = [t EXCEPT ![c] = data[next_ptr[c].ptr]]
    /\ Goto(c, "swap")
    /\ UNCHANGED <<memory, pushes, node_ptr, head_ptr, tail_ptr, next_ptr, sawEmpty>>

\* Mutant: a store in the place of the compare-and-swap.
SwapHeadStored(c) ==
    /\ pc[c] = "swap"
    /\ m_head_ptr' = Swapped(head_ptr[c], next_ptr[c].ptr)
    /\ Goto(c, "destroy")
    /\ UNCHANGED <<m_tail_ptr, next, data, m_size, m_free_list, fresh, pushes, locals>>

SwapHead(c) ==
    /\ pc[c] = "swap"
    /\ IF Same(m_head_ptr, head_ptr[c])
       THEN /\ m_head_ptr' = Swapped(m_head_ptr, next_ptr[c].ptr)
            /\ Goto(c, "destroy")
       ELSE /\ Goto(c, "head")
            /\ UNCHANGED m_head_ptr
    /\ UNCHANGED <<m_tail_ptr, next, data, m_size, m_free_list, fresh, pushes, locals>>

Top == IF m_free_list = <<>> THEN NULL ELSE Head(m_free_list)

\* destroyNode() of the old head, --m_size, and the item is the caller's.
Destroy(c) ==
    /\ pc[c] = "destroy"
    /\ next' = [next EXCEPT ![head_ptr[c].ptr] = [ptr |-> Top, tag |-> @.tag]]
    /\ m_free_list' = <<head_ptr[c].ptr>> \o m_free_list
    /\ m_size' = m_size - 1
    /\ t' = [t EXCEPT ![c] = NoItem]
    /\ Goto(c, "out")
    /\ Forget(c)
    /\ UNCHANGED <<m_head_ptr, m_tail_ptr, data, fresh, pushes>>

\* clear() of the pion queue, "NOT thread-safe": while no other thread is
\* inside.  The nodes go to the free list in their order, and the head takes
\* over the tag of the last next pointer it follows.
Clear ==
    /\ ~KeepsTags
    /\ \A x \in Threads : pc[x] = "out"
    /\ m_head_ptr.ptr # m_tail_ptr.ptr
    /\ LET gone == Front(Chain)
           before == <<Top>> \o gone
       IN /\ m_head_ptr' = next[Last(gone)]
          /\ next' = [n \in Nodes |->
                IF n \in ToSet(gone) THEN [next[n] EXCEPT !.ptr = before[Index(gone, n)]] ELSE next[n]]
          /\ m_free_list' = Reverse(gone) \o m_free_list
          /\ m_size' = m_size - Len(gone)
    /\ UNCHANGED <<m_tail_ptr, data, fresh, pushes, pc, locals>>

-----------------------------------------------------------------------------
Pushing(p) == ReadTail(p) \/ ReadNext(p) \/ CheckTail(p) \/ Link(p) \/ Swing(p) \/ Help(p, "tail")
Popping(c) ==
    \/ ReadHead(c) \/ ReadTail(c) \/ ReadNextOfHead(c) \/ CheckHead(c) \/ Help(c, "head")
    \/ ReturnEmpty(c) \/ ReadValue(c) \/ SwapHead(c) \/ Destroy(c)

Next ==
    \/ \E p \in Producers \cap Active : Push(p) \/ Pushing(p)
    \/ \E c \in Consumers \cap Active : Popping(c)
    \/ Clear

Spec == Init /\ [][Next]_vars

-----------------------------------------------------------------------------
(* Properties *)

\* The item of a pop() counts from the swap of the head, that of a push()
\* up to the link.
Abstract == INSTANCE Fifo WITH
    offered <- [p \in Producers |-> t[p]],
    taken <- [c \in Consumers |-> IF pc[c] = "destroy" THEN t[c] ELSE NoItem]

\* "a FIFO queue that is thread-safe and lock-free": the link makes the item
\* the last of the queue and the swap of the head removes the first one,
\* although nodes are reused while other threads still hold pointers to them.
ImplementsFifo == Abstract!Spec

\* pop() says "empty" only when the queue really was empty when it read the
\* next pointer of the head.
EmptyIsTrue == \A c \in Consumers : pc[c] = "empty" => sawEmpty[c]

\* The tags tell the pointers apart: no pointer is swapped as many times as there are tags
\* while a thread has a copy of it that it will compare.
TagsTell ==
    /\ \A x \in Threads :
        pc[x] \in {"next", "check", "link", "swing", "help"} =>
            m_tail_ptr.tag - tail_ptr[x].tag < Tags
    /\ \A c \in Consumers :
        pc[c] \in {"tail", "next", "check", "value", "swap"} =>
            m_head_ptr.tag - head_ptr[c].tag < Tags
    /\ \A p \in Producers :
        pc[p] = "link" => next[tail_ptr[p].ptr].tag - next_ptr[p].tag < Tags

\* The node in the hands of a thread, if there is one.
Held(x) ==
    IF x \in Producers
    THEN IF pc[x] \in {"tail", "next", "check", "link", "help"} THEN {node_ptr[x]} ELSE {}
    ELSE IF pc[x] = "destroy" THEN {head_ptr[x].ptr} ELSE {}

\* A node is in one place: linked, free, unused or in the hands of one
\* thread.  m_tail_ptr always points at a linked node.
NodesApart ==
    LET linked == Chain
        inLists == ToSet(linked \o m_free_list)
    IN /\ IsInjective(linked \o m_free_list)
       /\ inLists \cap fresh = {}
       /\ \A x \in Threads : Held(x) \cap (inLists \cup fresh) = {}
       /\ \A x, y \in Threads : x # y => Held(x) \cap Held(y) = {}
       /\ m_tail_ptr.ptr \in ToSet(linked)
=============================================================================
