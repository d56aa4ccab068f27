------------------------ MODULE LockFreeQueue_proofs ------------------------
(***************************************************************************)
(* Proofs about boost's lock-free fifo, for any numbers of producers,      *)
(* consumers, nodes, items and calls: it implements Fifo, a node is in one *)
(* place, and pop() says "empty" only of a queue that was, as long as no   *)
(* thread is overtaken by as many swaps as there are tags.                 *)
(*                                                                         *)
(* The lemmas about walks are those of LockFreeStack_proofs.               *)
(***************************************************************************)
EXTENDS LockFreeQueue, FiniteSetTheorems, WellFoundedInduction, TLAPS

\* Every set of natural numbers that is not empty has a least element.
LEMMA LeastElement == ASSUME NEW T \in SUBSET Nat, T # {} PROVE \E x \in T : \A y \in T : x <= y
<1> DEFINE R == OpToRel(<,Nat)
<1>1. IsWellFoundedOn(R, Nat)
  BY NatLessThanWellFounded
<1>2. \A x, y \in Nat : x < y => <<x, y>> \in R
  BY DEF OpToRel
<1> HIDE DEF R
<1>3. PICK x \in T : \A y \in T : ~(<<y, x>> \in R)
  BY <1>1, WFMin
<1>4. ASSUME NEW y \in T PROVE x <= y
  <2>1. ~(y < x)
    BY <1>2, <1>3
  <2> QED
    BY <2>1
<1> QED
  BY <1>4

\* Sequences of the same length and the same elements are equal.
LEMMA SameSequence ==
    ASSUME NEW S, NEW s \in Seq(S), NEW u \in Seq(S), Len(s) = Len(u),
           \A i \in 1..Len(s) : s[i] = u[i]
    PROVE  s = u
OBVIOUS

\* Sequence c is what the links hang together from the first of its nodes.
Chained(c, first, link) ==
    /\ c \in Seq(Nodes) /\ IsInjective(c)
    /\ c = <<>> => first = NULL
    /\ c # <<>> => first = c[1] /\ link[c[Len(c)]] = NULL
    /\ \A i \in 1..Len(c) - 1 : link[c[i]] = c[i + 1]

\* A sequence without repetitions is no longer than there are nodes.
LEMMA ShortEnough ==
    ASSUME QueueAssumption, NEW c \in Seq(Nodes), IsInjective(c)
    PROVE  Len(c) <= Cardinality(Nodes)
<1>1. c \in [1..Len(c) -> Nodes] /\ Len(c) \in Nat
  OBVIOUS
<1>2. c \in Injection(1..Len(c), Nodes)
  BY <1>1 DEF IsInjective, Injection
<1>3. IsFiniteSet(Nodes)
  BY DEF QueueAssumption
<1>4. Cardinality(1..Len(c)) <= Cardinality(Nodes)
  BY <1>2, <1>3, FS_Injection
<1>5. Cardinality(1..Len(c)) = Len(c)
  <2>1. 1 \in Int /\ Len(c) \in Int /\ Len(c) >= 0
    BY <1>1
  <2>2. Cardinality(1..Len(c)) = IF 1 > Len(c) THEN 0 ELSE Len(c) - 1 + 1
    BY <2>1, FS_Interval
  <2> QED
    BY <2>1, <2>2
<1> QED
  BY <1>4, <1>5

\* The walk along the links finds the sequence that is linked.
LEMMA WalkFinds ==
    ASSUME QueueAssumption, NEW first, NEW link, NEW c, Chained(c, first, link)
    PROVE  Walk(first, link) = c
<1> DEFINE N == Cardinality(Nodes)
           Eq(g) == g = [k \in 0..N |-> IF k = 0 THEN Begun(first) ELSE Longer(g[k - 1], link)]
           f == [k \in 0..N |-> IF k + 1 <= Len(c) THEN SubSeq(c, 1, k + 1) ELSE c]
<1>1. Walk(first, link) = (CHOOSE g : Eq(g))[N]
  BY DEF Walk
<1>2. /\ c \in Seq(Nodes) /\ IsInjective(c) /\ Len(c) \in Nat
      /\ c = <<>> => first = NULL
      /\ c # <<>> => first = c[1] /\ link[c[Len(c)]] = NULL
      /\ \A i \in 1..Len(c) - 1 : link[c[i]] = c[i + 1]
      /\ \A i \in 1..Len(c) : c[i] \in Nodes
  BY DEF Chained
<1>3. N \in Nat /\ Len(c) <= N /\ NULL \notin Nodes
  BY <1>2, ShortEnough, FS_CardinalityType DEF QueueAssumption
<1> HIDE DEF N
<1>4. f[0] = Begun(first)
  <2>1. CASE c = <<>>
    BY <1>2, <1>3, <2>1 DEF Begun
  <2>2. CASE c # <<>>
    <3>1. Len(c) >= 1 /\ 0 \in 0..N /\ first # NULL /\ c[1] = first
      BY <1>2, <1>3, <2>2
    <3>2. f[0] = SubSeq(c, 1, 1)
      BY <1>2, <3>1
    <3>3. SubSeq(c, 1, 1) = <<c[1]>>
      <4>1. Len(SubSeq(c, 1, 1)) = 1 /\ SubSeq(c, 1, 1)[1] = c[1] /\ SubSeq(c, 1, 1) \in Seq(Nodes)
        BY <1>2, <3>1
      <4>2. c[1] \in Nodes
        BY <1>2, <3>1
      <4>3. <<c[1]>> \in Seq(Nodes) /\ Len(<<c[1]>>) = 1 /\ <<c[1]>>[1] = c[1]
        BY <4>2
      <4>4. \A i \in 1..1 : SubSeq(c, 1, 1)[i] = <<c[1]>>[i]
        BY <4>1, <4>3
      <4> QED
        BY <4>1, <4>3, <4>4, SameSequence
    <3> QED
      BY <3>1, <3>2, <3>3 DEF Begun
  <2> QED
    BY <2>1, <2>2
<1>5. ASSUME NEW k \in 1..N PROVE f[k] = Longer(f[k - 1], link)
  <2>1. k - 1 \in 0..N /\ k \in 0..N /\ k \in Nat
    BY <1>3
  <2>2. CASE k + 1 <= Len(c)
    <3> DEFINE w == SubSeq(c, 1, k)
    <3>1. f[k] = SubSeq(c, 1, k + 1) /\ f[k - 1] = w
      BY <1>2, <2>1, <2>2
    <3>2. w \in Seq(Nodes) /\ Len(w) = k /\ \A i \in 1..k : w[i] = c[i]
      BY <1>2, <2>1, <2>2
    <3> HIDE DEF w
    <3>3. w # <<>> /\ w[Len(w)] = c[k] /\ link[c[k]] = c[k + 1] /\ c[k + 1] \in Nodes
      BY <1>2, <2>1, <2>2, <3>2
    <3>4. Longer(w, link) = Append(w, c[k + 1])
      BY <1>3, <3>3 DEF Longer
    <3>5. SubSeq(c, 1, k + 1) = Append(w, c[k + 1])
      BY <1>2, <2>1, <2>2 DEF w
    <3> QED
      BY <3>1, <3>4, <3>5
  <2>3. CASE k = Len(c)
    <3>1. f[k] = c /\ f[k - 1] = SubSeq(c, 1, k)
      BY <1>2, <2>1, <2>3
    <3>2. SubSeq(c, 1, k) = c /\ c # <<>>
      BY <1>2, <2>1, <2>3
    <3> QED
      BY <1>2, <2>3, <3>1, <3>2 DEF Longer
  <2>4. CASE k > Len(c)
    <3>1. f[k] = c
      BY <1>2, <2>1, <2>4
    <3>2. f[k - 1] = c
      BY <1>2, <2>1, <2>4
    <3>3. c = <<>> \/ link[c[Len(c)]] = NULL
      BY <1>2
    <3> QED
      BY <3>1, <3>2, <3>3 DEF Longer
  <2> QED
    BY <1>2, <2>1, <2>2, <2>3, <2>4
<1>6. Eq(f)
  <2> DEFINE h == [k \in 0..N |-> IF k = 0 THEN Begun(first) ELSE Longer(f[k - 1], link)]
  <2>1. ASSUME NEW k \in 0..N PROVE f[k] = h[k]
    <3> HIDE DEF f
    <3>1. h[k] = IF k = 0 THEN Begun(first) ELSE Longer(f[k - 1], link)
      OBVIOUS
    <3>2. k # 0 => k \in 1..N
      BY <1>3
    <3> QED
      BY <1>4, <1>5, <3>1, <3>2
  <2>2. f \in [0..N -> {f[k] : k \in 0..N}] /\ h \in [0..N -> {h[k] : k \in 0..N}]
    OBVIOUS
  <2>3. DOMAIN f = 0..N /\ DOMAIN h = 0..N
    OBVIOUS
  <2>4. f = [k \in 0..N |-> f[k]] /\ h = [k \in 0..N |-> h[k]]
    OBVIOUS
  <2> HIDE DEF f, h
  <2>5. f = h
    BY <2>1, <2>4
  <2> QED
    BY <2>5 DEF h
<1> HIDE DEF f
<1>7. ASSUME NEW g, Eq(g) PROVE g[N] = f[N]
  <2> DEFINE T == {k \in 0..N : g[k] # f[k]}
  <2>0. \A k \in 0..N : /\ g[k] = IF k = 0 THEN Begun(first) ELSE Longer(g[k - 1], link)
                        /\ f[k] = IF k = 0 THEN Begun(first) ELSE Longer(f[k - 1], link)
    <3>1. \A k \in 0..N : g[k] = IF k = 0 THEN Begun(first) ELSE Longer(g[k - 1], link)
      BY <1>7
    <3>2. \A k \in 0..N : f[k] = IF k = 0 THEN Begun(first) ELSE Longer(f[k - 1], link)
      BY <1>6
    <3> QED
      BY <3>1, <3>2
  <2>1. SUFFICES ASSUME T # {} PROVE FALSE
    BY <1>3
  <2>2. T \in SUBSET Nat
    BY <1>3
  <2>3. PICK k \in T : \A j \in T : k <= j
    BY <2>1, <2>2, LeastElement
  <2>4. k \in 0..N /\ g[k] # f[k]
    BY <2>3
  <2>5. CASE k = 0
    BY <2>0, <2>4, <2>5
  <2>6. CASE k # 0
    <3>1. k - 1 \in 0..N /\ ~(k <= k - 1)
      BY <1>3, <2>4, <2>6
    <3>2. g[k - 1] = f[k - 1]
      BY <2>3, <3>1
    <3> QED
      BY <2>0, <2>4, <2>6, <3>2
  <2> QED
    BY <2>5, <2>6
<1>8. Eq(CHOOSE g : Eq(g))
  BY <1>6
<1>9. Walk(first, link) = f[N]
  BY <1>1, <1>7, <1>8
<1>10. f[N] = c
  <2>1. N \in 0..N
    BY <1>3
  <2>2. N + 1 > Len(c)
    BY <1>2, <1>3
  <2> QED
    BY <1>2, <1>3, <2>1, <2>2 DEF f
<1> QED
  BY <1>9, <1>10

-----------------------------------------------------------------------------
(* The invariant *)

Tagged == [ptr : Nodes \cup {NULL}, tag : Nat]

\* Where a producer has the node of its item, where a thread has read the tail, and where a
\* consumer has read the head and not swapped it.
Giving == {"tail", "next", "check", "link", "help"}
AfterTail == {"next", "check", "link", "swing", "help", "value", "swap"}
AfterHead == {"tail", "next", "check", "value", "swap"}

Typed ==
    /\ m_head_ptr \in Tagged /\ m_tail_ptr \in Tagged
    /\ next \in [Nodes -> Tagged] /\ data \in [Nodes -> Items \cup {NoItem}]
    /\ m_free_list \in Seq(Nodes) /\ fresh \subseteq Nodes
    /\ node_ptr \in [Producers -> Nodes \cup {NULL}] /\ head_ptr \in [Consumers -> Tagged]
    /\ tail_ptr \in [Threads -> Tagged] /\ next_ptr \in [Threads -> Tagged]
    /\ t \in [Threads -> Items \cup {NoItem}] /\ sawEmpty \in [Consumers -> BOOLEAN]

\* The places in push(), those in pop(), and those of all threads.
InPush == Giving \cup {"out", "swing"}
InPop == {"out", "head", "tail", "next", "check", "value", "swap", "destroy", "empty", "help"}
Labelled ==
    /\ pc \in [Threads -> InPush \cup InPop]
    /\ \A p \in Producers : pc[p] \in InPush
    /\ \A c \in Consumers : pc[c] \in InPop

\* The nodes of the queue, its dummy first, and those of the free list.
On == ToSet(Chain)
Free == ToSet(m_free_list)

\* The queue is linked, it has its dummy, its tail is one of its nodes, and a node is in one place.
Lists ==
    /\ Chained(Chain, m_head_ptr.ptr, Links) /\ m_head_ptr.ptr # NULL
    /\ m_tail_ptr.ptr \in On
    /\ IsInjective(m_free_list)
    /\ On \cap Free = {} /\ fresh \cap (On \cup Free) = {}
    /\ \A x \in Threads : Held(x) \subseteq Nodes \ (On \cup Free \cup fresh)
    /\ \A x, y \in Threads : x # y => Held(x) \cap Held(y) = {}

\* Whether the copy is still what it was made of.
SameTail(x) == tail_ptr[x].tag = m_tail_ptr.tag
SameHead(c) == head_ptr[c].tag = m_head_ptr.tag

\* A tail with the tag of the copy is the copy; who helps has the link of that node.
TailHolds(x) ==
    /\ pc[x] \in AfterTail =>
        /\ tail_ptr[x].ptr \in Nodes /\ tail_ptr[x].tag <= m_tail_ptr.tag
        /\ SameTail(x) => tail_ptr[x].ptr = m_tail_ptr.ptr
    /\ pc[x] = "help" =>
        /\ next_ptr[x].ptr \in Nodes
        /\ SameTail(x) => next_ptr[x].ptr = next[tail_ptr[x].ptr].ptr

\* The next pointer that a producer has read only ever gets a higher tag; as long as it has
\* not, the node is the last of the queue, and the node of the item is not linked.
NextHolds(p) ==
    /\ pc[p] \in {"check", "link"} => next_ptr[p].tag <= next[tail_ptr[p].ptr].tag
    /\ pc[p] = "check" /\ SameTail(p) =>
        /\ next_ptr[p].tag = next[tail_ptr[p].ptr].tag => next_ptr[p].ptr = next[tail_ptr[p].ptr].ptr
        /\ next_ptr[p].ptr # NULL => next_ptr[p].ptr = next[tail_ptr[p].ptr].ptr
    /\ pc[p] = "link" /\ next_ptr[p].tag = next[tail_ptr[p].ptr].tag =>
        tail_ptr[p].ptr \in On /\ next[tail_ptr[p].ptr].ptr = NULL
    /\ pc[p] = "swing" =>
        /\ node_ptr[p] \in Nodes
        /\ SameTail(p) => next[tail_ptr[p].ptr].ptr = node_ptr[p]
    /\ pc[p] \in Giving =>
        t[p] \in Items /\ data[node_ptr[p]] = t[p] /\ next[node_ptr[p]].ptr = NULL
    /\ pc[p] \notin Giving => t[p] = NoItem

\* As long as the head has not been swapped since a consumer read it, what the consumer has
\* read after it is true of the head: that the tail is further on, the node behind it and the
\* item of that one.
HeadHolds(c) ==
    /\ pc[c] \in AfterHead =>
        /\ head_ptr[c].ptr \in Nodes /\ head_ptr[c].tag <= m_head_ptr.tag
        /\ SameHead(c) => head_ptr[c].ptr = m_head_ptr.ptr
    /\ pc[c] \in {"next", "check"} /\ SameHead(c) /\ tail_ptr[c].ptr # head_ptr[c].ptr
        => m_tail_ptr.ptr # m_head_ptr.ptr
    /\ pc[c] = "check" /\ SameHead(c) =>
        /\ next_ptr[c].ptr # NULL => next_ptr[c].ptr = next[head_ptr[c].ptr].ptr
        /\ tail_ptr[c].ptr # head_ptr[c].ptr => next_ptr[c].ptr # NULL
        /\ next_ptr[c].ptr = NULL => sawEmpty[c]
    /\ pc[c] \in {"value", "swap"} =>
        /\ next_ptr[c].ptr \in Nodes
        /\ SameHead(c) => /\ next_ptr[c].ptr = next[head_ptr[c].ptr].ptr
                          /\ m_tail_ptr.ptr # m_head_ptr.ptr
    /\ pc[c] = "swap" /\ SameHead(c) => t[c] = data[next_ptr[c].ptr]
    /\ pc[c] = "destroy" => t[c] \in Items
    /\ pc[c] = "empty" => sawEmpty[c]

Sound(x) ==
    /\ TailHolds(x)
    /\ x \in Producers => NextHolds(x)
    /\ x \in Consumers => HeadHolds(x)

Copies == \A x \in Threads : Sound(x)

\* The nodes behind the dummy have items.
Placed == \A n \in On \ {m_head_ptr.ptr} : data[n] \in Items

Inv == Typed /\ Labelled /\ Lists /\ Copies /\ Placed

-----------------------------------------------------------------------------
(* Linked sequences *)

\* The elements of a sequence, and its places.
LEMMA Elements ==
    ASSUME NEW c \in Seq(Nodes)
    PROVE  /\ Len(c) \in Nat /\ DOMAIN c = 1..Len(c)
           /\ \A i \in 1..Len(c) : c[i] \in Nodes /\ c[i] \in ToSet(c)
           /\ \A n \in ToSet(c) : n \in Nodes /\ \E i \in 1..Len(c) : c[i] = n
BY DEF ToSet

\* A link that begins outside of the sequence is none of its links.
LEMMA OtherLink ==
    ASSUME NEW link \in [Nodes -> Nodes \cup {NULL}], NEW c, NEW first, NEW n \in Nodes, NEW m,
           Chained(c, first, link), n \notin ToSet(c)
    PROVE  Chained(c, first, [link EXCEPT ![n] = m])
<1>1. c \in Seq(Nodes)
  BY DEF Chained
<1>2. \A i \in 1..Len(c) : c[i] \in Nodes /\ c[i] # n
  BY <1>1, Elements
<1>3. \A i \in 1..Len(c) : [link EXCEPT ![n] = m][c[i]] = link[c[i]]
  BY <1>2
<1>4. c # <<>> => Len(c) \in 1..Len(c)
  BY <1>1
<1>5. \A i \in 1..Len(c) - 1 : i \in 1..Len(c)
  BY <1>1
<1> QED
  BY <1>1, <1>3, <1>4, <1>5 DEF Chained

\* A node of a linked sequence is its last one and links to none, or it links to another one
\* behind the first.
LEMMA OnChain ==
    ASSUME NEW link \in [Nodes -> Nodes \cup {NULL}], NEW c, NEW first, Chained(c, first, link),
           NULL \notin Nodes, NEW n \in ToSet(c)
    PROVE  /\ n \in Nodes /\ first = c[1] /\ first \in ToSet(c)
           /\ link[n] = NULL => n = c[Len(c)]
           /\ link[n] # NULL => link[n] \in ToSet(c) /\ link[n] # first
<1>1. /\ c \in Seq(Nodes) /\ Len(c) \in Nat /\ DOMAIN c = 1..Len(c)
      /\ \A i, j \in 1..Len(c) : c[i] = c[j] => i = j
      /\ \A i \in 1..Len(c) - 1 : link[c[i]] = c[i + 1]
      /\ c # <<>> => first = c[1] /\ link[c[Len(c)]] = NULL
  BY DEF Chained, IsInjective
<1>2. PICK i \in 1..Len(c) : c[i] = n
  BY <1>1, Elements
<1>3. c # <<>> /\ 1 \in 1..Len(c) /\ \A j \in 1..Len(c) : c[j] \in Nodes /\ c[j] \in ToSet(c)
  BY <1>1, <1>2, Elements
<1>4. CASE i = Len(c)
  BY <1>1, <1>2, <1>3, <1>4
<1>5. CASE i # Len(c)
  <2>1. i \in 1..Len(c) - 1 /\ i + 1 \in 1..Len(c) /\ i + 1 # 1
    <3>1. Len(c) \in Nat /\ i \in 1..Len(c)
      BY <1>1, <1>2
    <3> QED
      BY <1>5, <3>1
  <2>2. link[n] = c[i + 1] /\ c[i + 1] # c[1]
    BY <1>1, <1>2, <1>3, <2>1
  <2> QED
    BY <1>1, <1>2, <1>3, <2>1, <2>2
<1> QED
  BY <1>4, <1>5

\* The elements of a sequence with one more.
LEMMA OneMore ==
    ASSUME NEW c \in Seq(Nodes), NEW m \in Nodes
    PROVE  ToSet(Append(c, m)) = ToSet(c) \cup {m}
<1> DEFINE d == Append(c, m)
<1>1. /\ Len(c) \in Nat /\ DOMAIN c = 1..Len(c) /\ DOMAIN d = 1..Len(c) + 1
      /\ d[Len(c) + 1] = m /\ \A i \in 1..Len(c) : d[i] = c[i]
      /\ \A i \in 1..Len(c) + 1 : i \in 1..Len(c) \/ i = Len(c) + 1
  OBVIOUS
<1> HIDE DEF d
<1>2. ASSUME NEW k \in ToSet(d) PROVE k \in ToSet(c) \cup {m}
  BY <1>1 DEF ToSet
<1>3. m \in ToSet(d)
  <2>1. Len(c) + 1 \in DOMAIN d
    BY <1>1
  <2> QED
    BY <1>1, <2>1 DEF ToSet
<1>4. ASSUME NEW k \in ToSet(c) PROVE k \in ToSet(d)
  <2>1. PICK i \in 1..Len(c) : c[i] = k
    BY <1>1 DEF ToSet
  <2>2. i \in DOMAIN d /\ d[i] = k
    BY <1>1, <2>1
  <2> QED
    BY <2>2 DEF ToSet
<1> QED
  BY <1>2, <1>3, <1>4 DEF d

\* A node that links to none, behind the last of a sequence.
LEMMA LinkedAtEnd ==
    ASSUME NEW link \in [Nodes -> Nodes \cup {NULL}], NEW c, NEW first, Chained(c, first, link),
           NULL \notin Nodes, NEW n \in ToSet(c), link[n] = NULL,
           NEW m \in Nodes, m \notin ToSet(c), link[m] = NULL
    PROVE  Chained(Append(c, m), first, [link EXCEPT ![n] = m])
<1> DEFINE d == Append(c, m)
           after == [link EXCEPT ![n] = m]
<1>1. /\ c \in Seq(Nodes) /\ Len(c) \in Nat /\ DOMAIN c = 1..Len(c) /\ c # <<>> /\ Len(c) >= 1
      /\ \A i, j \in 1..Len(c) : c[i] = c[j] => i = j
      /\ \A i \in 1..Len(c) - 1 : link[c[i]] = c[i + 1]
      /\ \A i \in 1..Len(c) : c[i] \in Nodes /\ c[i] # m /\ c[i] \in ToSet(c)
      /\ \A k \in ToSet(c) : \E i \in 1..Len(c) : c[i] = k
      /\ first = c[1] /\ n = c[Len(c)] /\ n \in Nodes
  <2>1. c \in Seq(Nodes) /\ \A i \in 1..Len(c) - 1 : link[c[i]] = c[i + 1]
    BY DEF Chained
  <2>2. /\ Len(c) \in Nat /\ DOMAIN c = 1..Len(c)
        /\ \A i \in 1..Len(c) : c[i] \in Nodes /\ c[i] \in ToSet(c)
        /\ \A k \in ToSet(c) : k \in Nodes /\ \E i \in 1..Len(c) : c[i] = k
    BY <2>1, Elements
  <2>3. first = c[1] /\ n = c[Len(c)] /\ n \in Nodes
    BY OnChain
  <2>4. c # <<>> /\ Len(c) >= 1
    BY <2>1, <2>2
  <2>5. \A i, j \in 1..Len(c) : c[i] = c[j] => i = j
    BY <2>2 DEF Chained, IsInjective
  <2>6. \A i \in 1..Len(c) : c[i] # m
    BY <2>2
  <2> QED
    BY <2>1, <2>2, <2>3, <2>4, <2>5, <2>6
<1>2. /\ d \in Seq(Nodes) /\ Len(d) = Len(c) + 1 /\ d # <<>> /\ d[Len(c) + 1] = m
      /\ \A i \in 1..Len(c) : d[i] = c[i]
  BY <1>1
<1>3. /\ after[n] = m /\ after[m] = NULL
      /\ \A k \in Nodes : k # n => after[k] = link[k]
  BY <1>1
<1> HIDE DEF d, after
<1>4. DOMAIN d = 1..Len(c) + 1 /\ \A i \in 1..Len(c) + 1 : i \in 1..Len(c) \/ i = Len(c) + 1
  BY <1>1, <1>2
<1>5. IsInjective(d)
  <2> SUFFICES ASSUME NEW i \in 1..Len(c) + 1, NEW j \in 1..Len(c) + 1, d[i] = d[j]
               PROVE  i = j
    BY <1>4 DEF IsInjective
  <2>1. CASE i \in 1..Len(c) /\ j \in 1..Len(c)
    BY <1>1, <1>2, <2>1
  <2>2. CASE i = Len(c) + 1 /\ j = Len(c) + 1
    BY <2>2
  <2>3. CASE i \in 1..Len(c) /\ j = Len(c) + 1
    BY <1>1, <1>2, <2>3
  <2>4. CASE i = Len(c) + 1 /\ j \in 1..Len(c)
    BY <1>1, <1>2, <2>4
  <2> QED
    BY <1>4, <2>1, <2>2, <2>3, <2>4
<1>7. \A i \in 1..Len(d) - 1 : after[d[i]] = d[i + 1]
  <2> SUFFICES ASSUME NEW i \in 1..Len(c) PROVE after[c[i]] = d[i + 1]
    BY <1>1, <1>2
  <2>1. CASE i = Len(c)
    BY <1>1, <1>2, <1>3, <2>1
  <2>2. CASE i # Len(c)
    <3>1. i \in 1..Len(c) - 1 /\ i + 1 \in 1..Len(c) /\ Len(c) \in 1..Len(c)
      <4>1. Len(c) \in Nat /\ i \in 1..Len(c)
        BY <1>1
      <4> QED
        BY <2>2, <4>1
    <3>2. c[i] # n
      BY <1>1, <2>2, <3>1
    <3> QED
      BY <1>1, <1>2, <1>3, <3>1, <3>2
  <2> QED
    BY <2>1, <2>2
<1>8. first = d[1] /\ after[d[Len(d)]] = NULL
  <2>1. 1 \in 1..Len(c)
    BY <1>1
  <2> QED
    BY <1>1, <1>2, <1>3, <2>1
<1> QED
  BY <1>2, <1>5, <1>7, <1>8 DEF Chained, d, after

\* A sequence without repetitions, without its first node and with one more in front.
LEMMA WithoutFirst ==
    ASSUME NEW c \in Seq(Nodes), IsInjective(c), c # <<>>
    PROVE  /\ Head(c) = c[1] /\ Head(c) \in Nodes /\ Head(c) \in ToSet(c)
           /\ Tail(c) \in Seq(Nodes) /\ IsInjective(Tail(c))
           /\ ToSet(Tail(c)) = ToSet(c) \ {Head(c)}
<1> DEFINE d == Tail(c)
<1>1. /\ Len(c) \in Nat /\ Len(c) >= 1 /\ Head(c) = c[1] /\ c[1] \in Nodes
      /\ d \in Seq(Nodes) /\ Len(d) = Len(c) - 1 /\ \A i \in 1..Len(c) - 1 : d[i] = c[i + 1]
  OBVIOUS
<1> HIDE DEF d
<1>2. DOMAIN d = 1..Len(c) - 1 /\ DOMAIN c = 1..Len(c)
  BY <1>1
<1>3. \A i, j \in 1..Len(c) : c[i] = c[j] => i = j
  BY <1>2 DEF IsInjective
<1>4. \A i \in 1..Len(c) - 1 : i + 1 \in 1..Len(c) /\ i + 1 # 1
  BY <1>1
<1>5. IsInjective(d)
  <2> SUFFICES ASSUME NEW i \in 1..Len(c) - 1, NEW j \in 1..Len(c) - 1, d[i] = d[j]
               PROVE  i = j
    BY <1>2 DEF IsInjective
  <2>1. i + 1 = j + 1
    BY <1>1, <1>3, <1>4
  <2> QED
    BY <2>1
<1>6. c[1] \in ToSet(c)
  BY <1>1, Elements
<1>7. ToSet(d) = ToSet(c) \ {c[1]}
  <2>1. ASSUME NEW m \in ToSet(d) PROVE m \in ToSet(c) \ {c[1]}
    <3>1. PICK i \in 1..Len(c) - 1 : d[i] = m
      BY <1>2 DEF ToSet
    <3>2. m = c[i + 1] /\ i + 1 \in 1..Len(c) /\ 1 \in 1..Len(c) /\ i + 1 # 1
      BY <1>1, <1>4, <3>1
    <3> QED
      BY <1>2, <1>3, <3>2 DEF ToSet
  <2>2. ASSUME NEW m \in ToSet(c), m # c[1] PROVE m \in ToSet(d)
    <3>1. PICK i \in 1..Len(c) : c[i] = m
      BY <1>2 DEF ToSet
    <3>2. i # 1
      BY <2>2, <3>1
    <3>3. i - 1 \in 1..Len(c) - 1 /\ (i - 1) + 1 = i
      BY <1>1, <3>2
    <3>4. d[i - 1] = m
      BY <1>1, <3>1, <3>3
    <3> QED
      BY <1>2, <3>3, <3>4 DEF ToSet
  <2> QED
    BY <2>1, <2>2
<1> QED
  BY <1>1, <1>5, <1>6, <1>7 DEF d

LEMMA WithOneInFront ==
    ASSUME NEW c \in Seq(Nodes), IsInjective(c), NEW n \in Nodes, n \notin ToSet(c)
    PROVE  /\ <<n>> \o c \in Seq(Nodes) /\ IsInjective(<<n>> \o c)
           /\ ToSet(<<n>> \o c) = ToSet(c) \cup {n}
<1> DEFINE d == <<n>> \o c
<1>1. Len(c) \in Nat /\ <<n>> \in Seq(Nodes)
  OBVIOUS
<1>2. /\ d \in Seq(Nodes) /\ Len(d) = Len(c) + 1 /\ d[1] = n
      /\ \A i \in 2..Len(c) + 1 : d[i] = c[i - 1]
  BY <1>1
<1> HIDE DEF d
<1>3. \A i \in 1..Len(c) + 1 : i = 1 \/ (i \in 2..Len(c) + 1 /\ i - 1 \in 1..Len(c))
  BY <1>1
<1>4. DOMAIN d = 1..Len(c) + 1 /\ DOMAIN c = 1..Len(c) /\ \A i \in 1..Len(c) : c[i] # n
  BY <1>1, <1>2, Elements
<1>5. \A i, j \in 1..Len(c) : c[i] = c[j] => i = j
  BY <1>4 DEF IsInjective
<1>6. IsInjective(d)
  <2> SUFFICES ASSUME NEW i \in 1..Len(c) + 1, NEW j \in 1..Len(c) + 1, d[i] = d[j]
               PROVE  i = j
    BY <1>4 DEF IsInjective
  <2>1. CASE i = 1
    BY <1>2, <1>3, <1>4, <2>1
  <2>2. CASE j = 1
    BY <1>2, <1>3, <1>4, <2>2
  <2>3. CASE i # 1 /\ j # 1
    <3>1. c[i - 1] = c[j - 1] /\ i - 1 \in 1..Len(c) /\ j - 1 \in 1..Len(c)
      BY <1>2, <1>3, <2>3
    <3>2. i - 1 = j - 1
      BY <1>5, <3>1
    <3> QED
      BY <3>2
  <2> QED
    BY <2>1, <2>2, <2>3
<1>7. ToSet(d) = ToSet(c) \cup {n}
  <2>1. ASSUME NEW m \in ToSet(d) PROVE m \in ToSet(c) \cup {n}
    BY <1>2, <1>3, <1>4 DEF ToSet
  <2>2. n \in ToSet(d)
    BY <1>1, <1>2, <1>4 DEF ToSet
  <2>3. ASSUME NEW m \in ToSet(c) PROVE m \in ToSet(d)
    <3>1. PICK i \in 1..Len(c) : c[i] = m
      BY <1>4 DEF ToSet
    <3>2. i + 1 \in 2..Len(c) + 1 /\ i + 1 \in 1..Len(c) + 1 /\ (i + 1) - 1 = i
      BY <1>1
    <3>3. d[i + 1] = m
      BY <1>2, <3>1, <3>2
    <3> QED
      BY <1>4, <3>2, <3>3 DEF ToSet
  <2> QED
    BY <2>1, <2>2, <2>3
<1> QED
  BY <1>2, <1>6, <1>7 DEF d

\* Without its first node a linked sequence goes on from that node's link.
LEMMA LinkedBehind ==
    ASSUME NEW link \in [Nodes -> Nodes \cup {NULL}], NEW c, NEW first,
           Chained(c, first, link), first # NULL
    PROVE  /\ c # <<>> /\ first = Head(c)
           /\ Chained(Tail(c), link[first], link) /\ ToSet(Tail(c)) = ToSet(c) \ {first}
<1> DEFINE d == Tail(c)
<1>1. /\ c \in Seq(Nodes) /\ IsInjective(c) /\ Len(c) \in Nat /\ c # <<>> /\ first = c[1]
      /\ Len(c) >= 1 /\ link[c[Len(c)]] = NULL
      /\ \A i \in 1..Len(c) - 1 : link[c[i]] = c[i + 1]
  BY DEF Chained
<1>2. /\ d \in Seq(Nodes) /\ IsInjective(d) /\ ToSet(d) = ToSet(c) \ {first} /\ first = Head(c)
  BY <1>1, WithoutFirst
<1>3. Len(d) = Len(c) - 1 /\ \A i \in 1..Len(c) - 1 : d[i] = c[i + 1]
  BY <1>1
<1> HIDE DEF d
<1>4. d = <<>> => link[first] = NULL
  <2> SUFFICES ASSUME Len(d) = 0 PROVE link[first] = NULL
    BY <1>2
  <2>1. Len(c) = 1
    BY <1>1, <1>3
  <2> QED
    BY <1>1, <2>1
<1>5. d # <<>> => link[first] = d[1] /\ link[d[Len(d)]] = NULL
  <2> SUFFICES ASSUME d # <<>> PROVE link[first] = d[1] /\ link[d[Len(d)]] = NULL
    OBVIOUS
  <2>1. 1 \in 1..Len(c) - 1 /\ Len(c) - 1 \in 1..Len(c) - 1
    BY <1>1, <1>2, <1>3
  <2> QED
    BY <1>1, <1>3, <2>1
<1>6. \A i \in 1..Len(d) - 1 : link[d[i]] = d[i + 1]
  <2> SUFFICES ASSUME NEW i \in 1..Len(c) - 1 - 1 PROVE link[d[i]] = d[i + 1]
    BY <1>3
  <2>1. i \in 1..Len(c) - 1 /\ i + 1 \in 1..Len(c) - 1
    BY <1>1
  <2> QED
    BY <1>1, <1>3, <2>1
<1> QED
  BY <1>1, <1>2, <1>4, <1>5, <1>6 DEF Chained, d

-----------------------------------------------------------------------------
(* The queue as it is linked *)

\* What the invariant says of the nodes of the queue.
LEMMA Facts ==
    ASSUME QueueAssumption, Inv
    PROVE  /\ NULL \notin Nodes
           /\ Links \in [Nodes -> Nodes \cup {NULL}]
           /\ \A n \in Nodes : /\ Links[n] = next[n].ptr /\ next[n] \in Tagged /\ next[n].tag \in Nat
                               /\ next[n].ptr \in Nodes \cup {NULL}
           /\ Chained(Chain, m_head_ptr.ptr, Links)
           /\ m_head_ptr.ptr \in On /\ m_tail_ptr.ptr \in On /\ On \subseteq Nodes
           /\ m_head_ptr.tag \in Nat /\ m_tail_ptr.tag \in Nat
           /\ \A n \in On : next[n].ptr # NULL => next[n].ptr \in On /\ next[n].ptr # m_head_ptr.ptr
<1>1. NULL \notin Nodes
  BY DEF QueueAssumption
<1>2. next \in [Nodes -> Tagged] /\ m_head_ptr \in Tagged /\ m_tail_ptr \in Tagged
  BY DEF Inv, Typed
<1>3. \A n \in Nodes : next[n] \in Tagged /\ next[n].tag \in Nat /\ next[n].ptr \in Nodes \cup {NULL}
  BY <1>2 DEF Tagged
<1>4. Links \in [Nodes -> Nodes \cup {NULL}] /\ \A n \in Nodes : Links[n] = next[n].ptr
  BY <1>3 DEF Links
<1>5. Chained(Chain, m_head_ptr.ptr, Links) /\ m_tail_ptr.ptr \in On
  BY DEF Inv, Lists
<1>6. Chain \in Seq(Nodes)
  BY <1>5 DEF Chained
<1>7. On \subseteq Nodes
  BY <1>6, Elements DEF On
<1>8. ASSUME NEW n \in On
      PROVE  /\ m_head_ptr.ptr \in On
             /\ next[n].ptr # NULL => next[n].ptr \in On /\ next[n].ptr # m_head_ptr.ptr
  <2> DEFINE c == Chain
  <2> HIDE DEF c
  <2>1. Chained(c, m_head_ptr.ptr, Links) /\ n \in ToSet(c)
    BY <1>5 DEF On, c
  <2>2. m_head_ptr.ptr \in ToSet(c)
        /\ (Links[n] # NULL => Links[n] \in ToSet(c) /\ Links[n] # m_head_ptr.ptr)
    BY <1>1, <1>4, <2>1, OnChain
  <2>3. Links[n] = next[n].ptr
    BY <1>4, <1>7
  <2> QED
    BY <2>2, <2>3 DEF On, c
<1>9. m_head_ptr.tag \in Nat /\ m_tail_ptr.tag \in Nat
  BY <1>2 DEF Tagged
<1> QED
  BY <1>1, <1>3, <1>4, <1>5, <1>7, <1>8, <1>9

\* The links after a next pointer is written.
LEMMA LinkWritten ==
    ASSUME QueueAssumption, Inv, NEW n \in Nodes, NEW w, next' = [next EXCEPT ![n] = w]
    PROVE  Links' = [Links EXCEPT ![n] = w.ptr]
<1>1. next \in [Nodes -> Tagged]
  BY DEF Inv, Typed
<1>2. Links' = [m \in Nodes |-> next'[m].ptr]
  BY DEF Links
<1>3. [Links EXCEPT ![n] = w.ptr] = [m \in Nodes |-> IF m = n THEN w.ptr ELSE next[m].ptr]
  BY DEF Links
<1>4. \A m \in Nodes : next'[m].ptr = IF m = n THEN w.ptr ELSE next[m].ptr
  BY <1>1
<1> QED
  BY <1>2, <1>3, <1>4

\* The queue from the same head along the same links.
LEMMA SameChain ==
    ASSUME m_head_ptr'.ptr = m_head_ptr.ptr, next' = next
    PROVE  Chain' = Chain /\ On' = On
BY DEF Chain, On, Links

\* The next pointer of a node that is not in the queue.
LEMMA OutsideWritten ==
    ASSUME QueueAssumption, Inv, m_head_ptr' = m_head_ptr, NEW n \in Nodes, n \notin On, NEW w,
           next' = [next EXCEPT ![n] = w]
    PROVE  Chain' = Chain /\ On' = On /\ Chained(Chain, m_head_ptr.ptr, Links)'
<1> DEFINE c == Chain
<1>1. Chained(c, m_head_ptr.ptr, Links) /\ Links \in [Nodes -> Nodes \cup {NULL}] /\ n \notin ToSet(c)
  BY Facts DEF On
<1>2. Links' = [Links EXCEPT ![n] = w.ptr]
  BY LinkWritten
<1> HIDE DEF c
<1>3. Chained(c, m_head_ptr.ptr, Links')
  BY <1>1, <1>2, OtherLink
<1>4. Walk(m_head_ptr.ptr, Links') = c
  BY <1>3, WalkFinds
<1>5. Chain' = c /\ Chained(Chain, m_head_ptr.ptr, Links)'
  BY <1>3, <1>4 DEF Chain
<1> QED
  BY <1>5 DEF c, On

\* The link of the last node.
LEMMA LastLinked ==
    ASSUME QueueAssumption, Inv, m_head_ptr' = m_head_ptr,
           NEW n \in On, next[n].ptr = NULL, NEW m \in Nodes, m \notin On, next[m].ptr = NULL,
           NEW w, w.ptr = m, next' = [next EXCEPT ![n] = w]
    PROVE  Chain' = Append(Chain, m) /\ On' = On \cup {m} /\ Chained(Chain, m_head_ptr.ptr, Links)'
<1> DEFINE c == Chain
<1>1. /\ Chained(c, m_head_ptr.ptr, Links) /\ Links \in [Nodes -> Nodes \cup {NULL}]
      /\ n \in ToSet(c) /\ m \notin ToSet(c) /\ n \in Nodes /\ NULL \notin Nodes
      /\ Links[n] = NULL /\ Links[m] = NULL
  BY Facts DEF On
<1>2. Links' = [Links EXCEPT ![n] = m]
  BY <1>1, LinkWritten
<1> HIDE DEF c
<1>3. Chained(Append(c, m), m_head_ptr.ptr, Links')
  BY <1>1, <1>2, LinkedAtEnd
<1>4. ToSet(Append(c, m)) = ToSet(c) \cup {m}
  BY <1>1, OneMore DEF Chained
<1>5. Walk(m_head_ptr.ptr, Links') = Append(c, m)
  BY <1>3, WalkFinds
<1>6. Chain' = Append(c, m) /\ Chained(Chain, m_head_ptr.ptr, Links)'
  BY <1>3, <1>5 DEF Chain
<1> QED
  BY <1>4, <1>6 DEF c, On

\* The head on to the next node.
LEMMA HeadOn ==
    ASSUME QueueAssumption, Inv, m_head_ptr'.ptr = next[m_head_ptr.ptr].ptr, next' = next
    PROVE  /\ Chain # <<>> /\ Head(Chain) = m_head_ptr.ptr
           /\ Chain' = Tail(Chain) /\ On' = On \ {m_head_ptr.ptr}
           /\ Chained(Chain, m_head_ptr.ptr, Links)'
<1> DEFINE c == Chain
<1>1. /\ Chained(c, m_head_ptr.ptr, Links) /\ Links \in [Nodes -> Nodes \cup {NULL}]
      /\ m_head_ptr.ptr \in Nodes /\ NULL \notin Nodes
      /\ Links[m_head_ptr.ptr] = next[m_head_ptr.ptr].ptr
  BY Facts
<1>2. Links' = Links /\ m_head_ptr.ptr # NULL
  BY <1>1 DEF Links
<1> HIDE DEF c
<1>3. /\ c # <<>> /\ Head(c) = m_head_ptr.ptr
      /\ Chained(Tail(c), m_head_ptr'.ptr, Links') /\ ToSet(Tail(c)) = ToSet(c) \ {m_head_ptr.ptr}
  BY <1>1, <1>2, LinkedBehind
<1>4. Walk(m_head_ptr'.ptr, Links') = Tail(c)
  BY <1>3, WalkFinds
<1>5. Chain' = Tail(c) /\ Chained(Chain, m_head_ptr.ptr, Links)'
  BY <1>3, <1>4 DEF Chain
<1> QED
  BY <1>3, <1>5 DEF c, On

-----------------------------------------------------------------------------
(* What the swaps do *)

\* As long as the tags tell the pointers apart, a pointer that is the same as an older copy
\* is that copy.
LEMMA SamePointer ==
    ASSUME QueueAssumption, NEW p \in Tagged, NEW q \in Tagged,
           q.tag <= p.tag, p.tag - q.tag < Tags, Same(p, q)
    PROVE  p.tag = q.tag /\ p.ptr = q.ptr
<1>1. p.tag \in Nat /\ q.tag \in Nat /\ Tags \in Nat \ {0}
  BY DEF Tagged, QueueAssumption
<1>2. p.ptr = q.ptr /\ (p.tag - q.tag) % Tags = 0
  BY DEF Same
<1> DEFINE d == p.tag - q.tag
<1>3. d \in Nat /\ d < Tags /\ d % Tags = 0
  BY <1>1, <1>2
<1> HIDE DEF d
<1>4. d = 0
  BY <1>1, <1>3
<1> QED
  BY <1>1, <1>2, <1>4 DEF d

\* A copy and its places.
LEMMA Places ==
    ASSUME QueueAssumption, Inv
    PROVE  /\ \A x \in Threads : /\ pc[x] \in AfterTail => tail_ptr[x].ptr \in Nodes
                                 /\ tail_ptr[x] \in Tagged /\ next_ptr[x] \in Tagged
           /\ \A p \in Producers : /\ p \in Threads /\ p \notin Consumers
                                   /\ pc[p] \in Giving \cup {"swing"} => node_ptr[p] \in Nodes
                                   /\ pc[p] \in Giving => node_ptr[p] \notin On \cup Free \cup fresh
           /\ \A c \in Consumers : /\ c \in Threads /\ c \notin Producers /\ head_ptr[c] \in Tagged
                                   /\ pc[c] \in AfterHead \cup {"destroy"} => head_ptr[c].ptr \in Nodes
                                   /\ pc[c] = "destroy" => head_ptr[c].ptr \notin On \cup Free \cup fresh
                                   /\ pc[c] \in {"value", "swap"} => next_ptr[c].ptr \in Nodes
<1>1. ASSUME NEW x \in Threads
      PROVE  /\ pc[x] \in AfterTail => tail_ptr[x].ptr \in Nodes
             /\ tail_ptr[x] \in Tagged /\ next_ptr[x] \in Tagged
  BY DEF Inv, Typed, Copies, Sound, TailHolds
<1>2. ASSUME NEW p \in Producers
      PROVE  /\ p \in Threads /\ p \notin Consumers
             /\ pc[p] \in Giving \cup {"swing"} => node_ptr[p] \in Nodes
             /\ pc[p] \in Giving => node_ptr[p] \notin On \cup Free \cup fresh
  <2>1. p \in Threads /\ p \notin Consumers
    BY DEF Threads, QueueAssumption
  <2>2. pc[p] \in Giving => Held(p) = {node_ptr[p]}
    BY DEF Held, Giving
  <2>3. Held(p) \subseteq Nodes \ (On \cup Free \cup fresh)
    BY <2>1 DEF Inv, Lists
  <2>4. pc[p] = "swing" => node_ptr[p] \in Nodes
    BY <2>1 DEF Inv, Copies, Sound, NextHolds
  <2> QED
    BY <2>1, <2>2, <2>3, <2>4
<1>3. ASSUME NEW c \in Consumers
      PROVE  /\ c \in Threads /\ c \notin Producers /\ head_ptr[c] \in Tagged
             /\ pc[c] \in AfterHead \cup {"destroy"} => head_ptr[c].ptr \in Nodes
             /\ pc[c] = "destroy" => head_ptr[c].ptr \notin On \cup Free \cup fresh
             /\ pc[c] \in {"value", "swap"} => next_ptr[c].ptr \in Nodes
  <2>1. c \in Threads /\ c \notin Producers /\ head_ptr[c] \in Tagged
    BY DEF Threads, QueueAssumption, Inv, Typed
  <2>2. pc[c] = "destroy" => Held(c) = {head_ptr[c].ptr}
    BY <2>1 DEF Held
  <2>3. Held(c) \subseteq Nodes \ (On \cup Free \cup fresh)
    BY <2>1 DEF Inv, Lists
  <2>4. /\ pc[c] \in AfterHead => head_ptr[c].ptr \in Nodes
        /\ pc[c] \in {"value", "swap"} => next_ptr[c].ptr \in Nodes
    BY <2>1 DEF Inv, Copies, Sound, HeadHolds
  <2> QED
    BY <2>1, <2>2, <2>3, <2>4
<1> QED
  BY <1>1, <1>2, <1>3

\* m_tail_ptr stays, or goes on to the node that its node links to.
TailOn ==
    \/ m_tail_ptr' = m_tail_ptr
    \/ /\ m_tail_ptr' \in Tagged /\ m_tail_ptr'.tag = m_tail_ptr.tag + 1
       /\ m_tail_ptr'.ptr \in On /\ m_tail_ptr'.ptr # m_head_ptr.ptr

LEMMA TailGoesOn ==
    ASSUME QueueAssumption, TagsTell, Inv, NEW x \in Threads, NEW n, CasTail(x, n),
           \/ pc[x] = "help" /\ n = next_ptr[x].ptr
           \/ x \in Producers /\ pc[x] = "swing" /\ n = node_ptr[x]
    PROVE  TailOn
<1> SUFFICES ASSUME Same(m_tail_ptr, tail_ptr[x]) PROVE TailOn
  BY DEF CasTail, TailOn
<1>1. m_tail_ptr \in Tagged /\ tail_ptr[x] \in Tagged
  BY DEF Inv, Typed
<1>2. TailHolds(x) /\ (x \in Producers => NextHolds(x))
  BY DEF Inv, Copies, Sound
<1>3. tail_ptr[x].tag <= m_tail_ptr.tag /\ m_tail_ptr.tag - tail_ptr[x].tag < Tags
  BY <1>2 DEF TailHolds, AfterTail, TagsTell
<1>4. m_tail_ptr.tag = tail_ptr[x].tag /\ m_tail_ptr.ptr = tail_ptr[x].ptr
  BY <1>1, <1>3, SamePointer
<1>5. n = next[m_tail_ptr.ptr].ptr /\ n \in Nodes
  BY <1>2, <1>4 DEF TailHolds, NextHolds, SameTail, AfterTail
<1>6. n \in On /\ n # m_head_ptr.ptr /\ m_tail_ptr.tag \in Nat
  BY <1>5, Facts
<1>7. m_tail_ptr' = [ptr |-> n, tag |-> m_tail_ptr.tag + 1]
  BY DEF CasTail, Swapped
<1>8. m_tail_ptr' \in Tagged
  BY <1>5, <1>6, <1>7 DEF Tagged
<1> QED
  BY <1>6, <1>7, <1>8 DEF TailOn

\* push() links its node behind the last one.
LEMMA LinksLast ==
    ASSUME QueueAssumption, TagsTell, Inv, NEW p \in Producers, pc[p] = "link",
           Same(next[tail_ptr[p].ptr], next_ptr[p])
    PROVE  tail_ptr[p].ptr \in On /\ next[tail_ptr[p].ptr].ptr = NULL
<1>1. p \in Threads /\ tail_ptr[p].ptr \in Nodes /\ next_ptr[p] \in Tagged
  BY Places DEF AfterTail
<1>2. next[tail_ptr[p].ptr] \in Tagged
  BY <1>1, Facts
<1>3. NextHolds(p)
  BY <1>1 DEF Inv, Copies, Sound
<1>4. /\ next_ptr[p].tag <= next[tail_ptr[p].ptr].tag
      /\ next[tail_ptr[p].ptr].tag - next_ptr[p].tag < Tags
  BY <1>3 DEF NextHolds, TagsTell
<1>5. next[tail_ptr[p].ptr].tag = next_ptr[p].tag
  BY <1>1, <1>2, <1>4, SamePointer
<1> QED
  BY <1>3, <1>5 DEF NextHolds

\* pop() moves the head to the node that it has read the item of.
LEMMA SwapsHead ==
    ASSUME QueueAssumption, TagsTell, Inv, NEW c \in Consumers, pc[c] = "swap",
           Same(m_head_ptr, head_ptr[c])
    PROVE  /\ head_ptr[c].ptr = m_head_ptr.ptr /\ next_ptr[c].ptr = next[m_head_ptr.ptr].ptr
           /\ next_ptr[c].ptr \in On /\ next_ptr[c].ptr # m_head_ptr.ptr
           /\ m_tail_ptr.ptr # m_head_ptr.ptr /\ t[c] = data[next_ptr[c].ptr]
<1>1. c \in Threads /\ head_ptr[c] \in Tagged /\ m_head_ptr \in Tagged
  BY Places DEF Inv, Typed
<1>2. HeadHolds(c)
  BY <1>1 DEF Inv, Copies, Sound
<1>3. head_ptr[c].tag <= m_head_ptr.tag /\ m_head_ptr.tag - head_ptr[c].tag < Tags
  BY <1>2 DEF HeadHolds, AfterHead, TagsTell
<1>4. SameHead(c)
  BY <1>1, <1>3, SamePointer DEF SameHead
<1>5. head_ptr[c].ptr = m_head_ptr.ptr
  BY <1>2, <1>4 DEF HeadHolds, AfterHead
<1>6. /\ next_ptr[c].ptr \in Nodes /\ next_ptr[c].ptr = next[m_head_ptr.ptr].ptr
      /\ m_tail_ptr.ptr # m_head_ptr.ptr /\ t[c] = data[next_ptr[c].ptr]
  BY <1>2, <1>4, <1>5 DEF HeadHolds
<1> QED
  BY <1>5, <1>6, Facts

-----------------------------------------------------------------------------
(* What the steps change *)

Step(x) ==
    \/ x \in Producers /\ (Push(x) \/ Pushing(x))
    \/ x \in Consumers /\ Popping(x)

LEMMA Steps ==
    ASSUME KeepsTags, [Next]_vars
    PROVE  UNCHANGED vars \/ \E x \in Threads : Step(x)
BY DEF Next, Step, Threads, Clear

\* A step changes the places of one thread.
LEMMA OtherThreads ==
    ASSUME Inv, NEW x \in Threads, Step(x), NEW y \in Threads, y # x
    PROVE  /\ pc'[y] = pc[y] /\ tail_ptr'[y] = tail_ptr[y] /\ next_ptr'[y] = next_ptr[y] /\ t'[y] = t[y]
           /\ y \in Producers => node_ptr'[y] = node_ptr[y]
           /\ y \in Consumers => head_ptr'[y] = head_ptr[y] /\ sawEmpty'[y] = sawEmpty[y]
<1>1. CASE x \in Producers
  BY <1>1 DEF Inv, Typed, Labelled, Step, Push, Create, Pushing, ReadTail, ReadNext, CheckTail, Link, Swing,
              Help, Popping, ReadHead, ReadNextOfHead, CheckHead, ReturnEmpty, Forget, ReadValue,
              SwapHead, Destroy, Goto, memory, locals
<1>2. CASE x \in Consumers
  BY <1>2 DEF Inv, Typed, Labelled, Step, Push, Create, Pushing, ReadTail, ReadNext, CheckTail, Link, Swing,
              Help, Popping, ReadHead, ReadNextOfHead, CheckHead, ReturnEmpty, Forget, ReadValue,
              SwapHead, Destroy, Goto, memory, locals
<1> QED
  BY <1>1, <1>2 DEF Threads

\* Where a thread goes.
LEMMA Went ==
    ASSUME Labelled, NEW x \in Threads, NEW l, Goto(x, l),
           x \in Producers => l \in InPush, x \in Consumers => l \in InPop
    PROVE  Labelled' /\ pc'[x] = l
BY DEF Labelled, Goto, Threads

LEMMA LabelsKept ==
    ASSUME QueueAssumption, Inv, NEW x \in Threads, Step(x)
    PROVE  Labelled'
<1>1. Labelled
  BY DEF Inv
<1>2. CASE x \in Producers /\ (Push(x) \/ Pushing(x))
  <2>1. x \notin Consumers
    BY <1>2 DEF QueueAssumption
  <2>2. ASSUME NEW l \in InPush, Goto(x, l) PROVE Labelled'
    BY <1>1, <1>2, <2>1, <2>2, Went
  <2>3. \A l \in {"tail", "next", "check", "link", "help", "swing", "out"} : l \in InPush
    BY DEF InPush, Giving
  <2> QED
    BY <1>2, <2>2, <2>3 DEF Push, Pushing, ReadTail, ReadNext, CheckTail, Link, Swing, Help
<1>3. CASE x \in Consumers /\ Popping(x)
  <2>1. x \notin Producers
    BY <1>3 DEF QueueAssumption
  <2>2. ASSUME NEW l \in InPop, Goto(x, l) PROVE Labelled'
    BY <1>1, <1>3, <2>1, <2>2, Went
  <2>3. \A l \in {"tail", "next", "check", "help", "out", "head", "value", "swap", "destroy", "empty"} :
            l \in InPop
    BY DEF InPop
  <2> QED
    BY <1>3, <2>2, <2>3 DEF Popping, ReadHead, ReadTail, ReadNextOfHead, CheckHead, Help, ReturnEmpty,
                            ReadValue, SwapHead, Destroy
<1> QED
  BY <1>2, <1>3 DEF Step

\* push() takes a node that is free or unused, for its item.
LEMMA PushTakes ==
    ASSUME QueueAssumption, KeepsTags, Inv, NEW p \in Producers, Push(p)
    PROVE  \E n \in Nodes, i \in Items, w \in Tagged :
             /\ n \in Free \cup fresh /\ n \notin On /\ \A y \in Threads : n \notin Held(y)
             /\ w.ptr = NULL /\ w.tag = next[n].tag + 1
             /\ next' = [next EXCEPT ![n] = w] /\ data' = [data EXCEPT ![n] = i]
             /\ node_ptr' = [node_ptr EXCEPT ![p] = n] /\ t' = [t EXCEPT ![p] = i]
             /\ m_free_list' \in Seq(Nodes) /\ IsInjective(m_free_list') /\ fresh' \subseteq Nodes
             /\ Free' \cup fresh' = (Free \cup fresh) \ {n} /\ Free' \cap fresh' = {}
<1>1. /\ m_free_list \in Seq(Nodes) /\ IsInjective(m_free_list) /\ fresh \subseteq Nodes
      /\ On \cap Free = {} /\ fresh \cap (On \cup Free) = {}
      /\ \A y \in Threads : Held(y) \subseteq Nodes \ (On \cup Free \cup fresh)
  BY DEF Inv, Typed, Lists
<1>2. ASSUME NEW n \in Nodes, n \in Free \cup fresh, Create(p, n),
             m_free_list' \in Seq(Nodes), IsInjective(m_free_list'), fresh' \subseteq Nodes,
             Free' \cup fresh' = (Free \cup fresh) \ {n}, Free' \cap fresh' = {}
      PROVE  \E m \in Nodes, i \in Items, w \in Tagged :
             /\ m \in Free \cup fresh /\ m \notin On /\ \A y \in Threads : m \notin Held(y)
             /\ w.ptr = NULL /\ w.tag = next[m].tag + 1
             /\ next' = [next EXCEPT ![m] = w] /\ data' = [data EXCEPT ![m] = i]
             /\ node_ptr' = [node_ptr EXCEPT ![p] = m] /\ t' = [t EXCEPT ![p] = i]
             /\ m_free_list' \in Seq(Nodes) /\ IsInjective(m_free_list') /\ fresh' \subseteq Nodes
             /\ Free' \cup fresh' = (Free \cup fresh) \ {m} /\ Free' \cap fresh' = {}
  <2> DEFINE w == Constructed(n)
  <2>1. next[n].tag \in Nat
    BY Facts
  <2>2. w = [ptr |-> NULL, tag |-> next[n].tag + 1]
    BY DEF Constructed
  <2>3. w \in Tagged /\ w.ptr = NULL /\ w.tag = next[n].tag + 1
    BY <2>1, <2>2 DEF Tagged
  <2>4. next' = [next EXCEPT ![n] = w] /\ node_ptr' = [node_ptr EXCEPT ![p] = n]
    BY <1>2 DEF Create
  <2> HIDE DEF w
  <2>5. PICK i \in Items : data' = [data EXCEPT ![n] = i] /\ t' = [t EXCEPT ![p] = i]
    BY <1>2 DEF Create
  <2>6. n \notin On /\ \A y \in Threads : n \notin Held(y)
    BY <1>1, <1>2
  <2> QED
    BY <1>2, <2>3, <2>4, <2>5, <2>6
<1>3. CASE m_free_list # <<>> /\ Create(p, Head(m_free_list)) /\ m_free_list' = Tail(m_free_list)
           /\ UNCHANGED fresh
  <2> DEFINE n == Head(m_free_list)
  <2>1. /\ n \in Nodes /\ n \in Free /\ m_free_list' \in Seq(Nodes) /\ IsInjective(m_free_list')
        /\ Free' = Free \ {n}
    BY <1>1, <1>3, WithoutFirst DEF Free
  <2>2. Create(p, n)
    BY <1>3
  <2> HIDE DEF n
  <2>3. /\ n \in Free \cup fresh /\ fresh' \subseteq Nodes
        /\ Free' \cup fresh' = (Free \cup fresh) \ {n} /\ Free' \cap fresh' = {}
    BY <1>1, <1>3, <2>1
  <2> QED
    BY <1>2, <2>1, <2>2, <2>3
<1>4. CASE /\ m_free_list = <<>> /\ fresh # {} /\ Create(p, CHOOSE n \in fresh : TRUE)
           /\ fresh' = fresh \ {CHOOSE n \in fresh : TRUE} /\ UNCHANGED m_free_list
  <2> DEFINE n == CHOOSE n \in fresh : TRUE
  <2>1. n \in fresh /\ Create(p, n) /\ fresh' = fresh \ {n} /\ UNCHANGED m_free_list
    BY <1>4
  <2> HIDE DEF n
  <2>2. Free' = Free
    BY <2>1 DEF Free
  <2>3. /\ n \in Nodes /\ n \in Free \cup fresh /\ fresh' \subseteq Nodes
        /\ Free' \cup fresh' = (Free \cup fresh) \ {n} /\ Free' \cap fresh' = {}
    BY <1>1, <2>1, <2>2
  <2> QED
    BY <1>1, <1>2, <2>1, <2>3
<1> QED
  BY <1>3, <1>4 DEF Push

\* destroyNode() puts the node in front of the free list, with its tag.
LEMMA DestroyFrees ==
    ASSUME QueueAssumption, Inv, NEW c \in Consumers, Destroy(c)
    PROVE  \E n \in Nodes, w \in Tagged :
             /\ n = head_ptr[c].ptr /\ Held(c) = {n} /\ n \notin On \cup Free \cup fresh
             /\ w.tag = next[n].tag /\ next' = [next EXCEPT ![n] = w]
             /\ m_free_list' \in Seq(Nodes) /\ IsInjective(m_free_list') /\ Free' = Free \cup {n}
<1> DEFINE n == head_ptr[c].ptr
           w == [ptr |-> Top, tag |-> next[n].tag]
<1>1. pc[c] = "destroy" /\ c \in Threads /\ c \notin Producers /\ n \in Nodes /\ n \notin On \cup Free \cup fresh
  BY Places DEF Destroy
<1>2. m_free_list \in Seq(Nodes) /\ IsInjective(m_free_list)
  BY DEF Inv, Typed, Lists
<1>3. Top \in Nodes \cup {NULL}
  BY <1>2, WithoutFirst DEF Top
<1>4. Held(c) = {n}
  BY <1>1 DEF Held
<1>5. next[n].tag \in Nat /\ next \in [Nodes -> Tagged]
  BY <1>1, Facts DEF Inv, Typed
<1>6. m_free_list' = <<n>> \o m_free_list
  BY DEF Destroy
<1>7. w \in Tagged /\ w.tag = next[n].tag
  BY <1>3, <1>5 DEF Tagged
<1>8. next' = [next EXCEPT ![n] = w]
  BY <1>1, <1>5 DEF Destroy
<1> HIDE DEF n, w
<1>9. m_free_list' \in Seq(Nodes) /\ IsInjective(m_free_list') /\ Free' = Free \cup {n}
  BY <1>1, <1>2, <1>6, WithOneInFront DEF Free
<1> QED
  BY <1>1, <1>4, <1>7, <1>8, <1>9 DEF n

\* Link() writes the link of the last node, or nothing.
LEMMA LinkLinks ==
    ASSUME QueueAssumption, TagsTell, Inv, NEW p \in Producers, Link(p)
    PROVE  \/ /\ next' = next /\ t' = t /\ Goto(p, "tail")
           \/ /\ t' = [t EXCEPT ![p] = NoItem] /\ Goto(p, "swing")
              /\ \E n \in On, w \in Tagged :
                    /\ n = tail_ptr[p].ptr /\ n \in Nodes /\ next[n].ptr = NULL
                    /\ node_ptr[p] \in Nodes \ On /\ next[node_ptr[p]].ptr = NULL
                    /\ w.ptr = node_ptr[p] /\ w.tag = next[n].tag + 1
                    /\ next' = [next EXCEPT ![n] = w]
<1> DEFINE n == tail_ptr[p].ptr
           w == Swapped(next[n], node_ptr[p])
<1>1. pc[p] = "link"
  BY DEF Link
<1>2. CASE Same(next[n], next_ptr[p])
  <2>1. n \in On /\ n \in Nodes /\ next[n].ptr = NULL
    BY <1>1, <1>2, LinksLast, Facts
  <2>2. p \in Threads /\ node_ptr[p] \in Nodes \ On
    BY <1>1, Places DEF Giving
  <2>3. next[node_ptr[p]].ptr = NULL
    BY <1>1, <2>2 DEF Inv, Copies, Sound, NextHolds, Giving
  <2>4. next[n].tag \in Nat /\ next \in [Nodes -> Tagged]
    BY <2>1, Facts DEF Inv, Typed
  <2>5. w \in Tagged /\ w.ptr = node_ptr[p] /\ w.tag = next[n].tag + 1
    BY <2>2, <2>4 DEF Swapped, Tagged
  <2>6. next' = [next EXCEPT ![n] = w] /\ t' = [t EXCEPT ![p] = NoItem] /\ Goto(p, "swing")
    BY <1>2, <2>1, <2>4 DEF Link
  <2> QED
    BY <2>1, <2>2, <2>3, <2>5, <2>6
<1>3. CASE ~Same(next[n], next_ptr[p])
  BY <1>3 DEF Link
<1> QED
  BY <1>2, <1>3

\* SwapHead() moves the head to the next node, or leaves it.
LEMMA SwapMoves ==
    ASSUME QueueAssumption, TagsTell, Inv, NEW c \in Consumers, SwapHead(c)
    PROVE  \/ m_head_ptr' = m_head_ptr /\ Goto(c, "head")
           \/ /\ Goto(c, "destroy")
              /\ head_ptr[c].ptr = m_head_ptr.ptr /\ next_ptr[c].ptr = next[m_head_ptr.ptr].ptr
              /\ next_ptr[c].ptr \in On /\ next_ptr[c].ptr # m_head_ptr.ptr
              /\ m_tail_ptr.ptr # m_head_ptr.ptr /\ t[c] = data[next_ptr[c].ptr]
              /\ m_head_ptr' \in Tagged /\ m_head_ptr'.ptr = next_ptr[c].ptr
              /\ m_head_ptr'.tag = m_head_ptr.tag + 1
<1>1. pc[c] = "swap"
  BY DEF SwapHead
<1>2. CASE Same(m_head_ptr, head_ptr[c])
  <2>1. /\ head_ptr[c].ptr = m_head_ptr.ptr /\ next_ptr[c].ptr = next[m_head_ptr.ptr].ptr
        /\ next_ptr[c].ptr \in On /\ next_ptr[c].ptr # m_head_ptr.ptr
        /\ m_tail_ptr.ptr # m_head_ptr.ptr /\ t[c] = data[next_ptr[c].ptr]
    BY <1>1, <1>2, SwapsHead
  <2>2. next_ptr[c].ptr \in Nodes /\ m_head_ptr.tag \in Nat
    BY <2>1, Facts
  <2>3. m_head_ptr' = [ptr |-> next_ptr[c].ptr, tag |-> m_head_ptr.tag + 1] /\ Goto(c, "destroy")
    BY <1>2 DEF SwapHead, Swapped
  <2>4. m_head_ptr' \in Tagged
    BY <2>2, <2>3 DEF Tagged
  <2> QED
    BY <2>1, <2>3, <2>4
<1>3. CASE ~Same(m_head_ptr, head_ptr[c])
  BY <1>3 DEF SwapHead
<1> QED
  BY <1>2, <1>3

-----------------------------------------------------------------------------
(* The kinds of steps *)

\* Nothing, or the tail on.
Moves(x) ==
    /\ TailOn /\ UNCHANGED <<m_head_ptr, next, data, m_free_list, fresh>>
    /\ Held(x)' = Held(x)

\* A node out of memory, for an item.
Takes(x) ==
    /\ \E n \in Nodes, i \in Items, w \in Tagged :
        /\ n \in Free \cup fresh /\ n \notin On /\ \A y \in Threads : n \notin Held(y)
        /\ w.ptr = NULL /\ w.tag = next[n].tag + 1
        /\ next' = [next EXCEPT ![n] = w] /\ data' = [data EXCEPT ![n] = i]
        /\ m_free_list' \in Seq(Nodes) /\ IsInjective(m_free_list') /\ fresh' \subseteq Nodes
        /\ Free' \cup fresh' = (Free \cup fresh) \ {n} /\ Free' \cap fresh' = {}
        /\ Held(x)' = {n}
    /\ UNCHANGED <<m_head_ptr, m_tail_ptr>>

\* A node behind the last one.
Appends(x) ==
    /\ \E n \in On, m \in Nodes, w \in Tagged :
        /\ next[n].ptr = NULL /\ m \notin On /\ next[m].ptr = NULL /\ data[m] \in Items
        /\ w.ptr = m /\ w.tag = next[n].tag + 1
        /\ next' = [next EXCEPT ![n] = w]
        /\ Held(x) = {m} /\ Held(x)' = {}
    /\ UNCHANGED <<m_head_ptr, m_tail_ptr, data, m_free_list, fresh>>

\* The first node away, which the tail has passed.
Removes(x) ==
    /\ m_tail_ptr.ptr # m_head_ptr.ptr
    /\ m_head_ptr' \in Tagged /\ m_head_ptr'.tag = m_head_ptr.tag + 1
    /\ m_head_ptr'.ptr = next[m_head_ptr.ptr].ptr /\ m_head_ptr'.ptr \in On
    /\ Held(x)' = {m_head_ptr.ptr}
    /\ UNCHANGED <<m_tail_ptr, next, data, m_free_list, fresh>>

\* A node back to memory.
Frees(x) ==
    /\ \E n \in Nodes, w \in Tagged :
        /\ n \notin On \cup Free \cup fresh /\ Held(x) = {n} /\ Held(x)' = {}
        /\ w.tag = next[n].tag /\ next' = [next EXCEPT ![n] = w]
        /\ m_free_list' \in Seq(Nodes) /\ IsInjective(m_free_list') /\ Free' = Free \cup {n}
    /\ UNCHANGED <<m_head_ptr, m_tail_ptr, data, fresh>>

\* What a thread holds, now and after a step.
LEMMA HeldIs ==
    ASSUME QueueAssumption
    PROVE  /\ \A p \in Producers : /\ Held(p) = IF pc[p] \in Giving THEN {node_ptr[p]} ELSE {}
                                   /\ Held(p)' = IF pc'[p] \in Giving THEN {node_ptr'[p]} ELSE {}
           /\ \A c \in Consumers : /\ Held(c) = IF pc[c] = "destroy" THEN {head_ptr[c].ptr} ELSE {}
                                   /\ Held(c)' = IF pc'[c] = "destroy" THEN {head_ptr'[c].ptr} ELSE {}
BY DEF Held, Giving, QueueAssumption

LEMMA Kinds ==
    ASSUME QueueAssumption, KeepsTags, TagsTell, Inv, NEW x \in Threads, Step(x)
    PROVE  Moves(x) \/ Takes(x) \/ Appends(x) \/ Removes(x) \/ Frees(x)
<1>0. /\ \A l : Goto(x, l) => pc'[x] = l
      /\ "tail" \in Giving /\ "next" \in Giving /\ "check" \in Giving /\ "link" \in Giving /\ "help" \in Giving
      /\ "out" \notin Giving /\ "swing" \notin Giving
  BY DEF Inv, Labelled, Goto, Giving
<1>1. CASE x \in Producers /\ (Push(x) \/ Pushing(x))
  <2>0. /\ Held(x) = IF pc[x] \in Giving THEN {node_ptr[x]} ELSE {}
        /\ Held(x)' = IF pc'[x] \in Giving THEN {node_ptr'[x]} ELSE {}
    BY <1>1, HeldIs
  <2>1. CASE Push(x)
    <3>1. pc'[x] = "tail" /\ UNCHANGED <<m_head_ptr, m_tail_ptr>>
      BY <1>0, <2>1 DEF Push
    <3>2. node_ptr \in [Producers -> Nodes \cup {NULL}]
      BY DEF Inv, Typed
    <3>3. ASSUME NEW n, node_ptr' = [node_ptr EXCEPT ![x] = n] PROVE Held(x)' = {n}
      BY <1>0, <1>1, <2>0, <3>1, <3>2, <3>3
    <3> QED
      BY <1>1, <2>1, <3>1, <3>3, PushTakes DEF Takes
  <2>2. CASE Link(x)
    <3>1. /\ pc[x] = "link" /\ node_ptr' = node_ptr
          /\ UNCHANGED <<m_head_ptr, m_tail_ptr, data, m_free_list, fresh>>
      BY <2>2 DEF Link
    <3>2. Held(x) = {node_ptr[x]}
      BY <1>0, <2>0, <3>1
    <3>3. CASE next' = next /\ Goto(x, "tail")
      <4>1. Held(x)' = Held(x)
        BY <1>0, <2>0, <3>1, <3>2, <3>3
      <4> QED
        BY <3>1, <3>3, <4>1 DEF Moves, TailOn
    <3>4. ASSUME Goto(x, "swing"), NEW n \in On, NEW w \in Tagged, next[n].ptr = NULL,
                 node_ptr[x] \in Nodes \ On, next[node_ptr[x]].ptr = NULL,
                 w.ptr = node_ptr[x], w.tag = next[n].tag + 1, next' = [next EXCEPT ![n] = w]
          PROVE  Appends(x)
      <4>1. Held(x)' = {}
        BY <1>0, <2>0, <3>4
      <4>2. data[node_ptr[x]] \in Items
        BY <1>0, <1>1, <3>1 DEF Inv, Copies, Sound, NextHolds
      <4> QED
        BY <3>1, <3>2, <3>4, <4>1, <4>2 DEF Appends
    <3> QED
      BY <1>1, <2>2, <3>3, <3>4, LinkLinks
  <2>3. CASE ReadTail(x) \/ ReadNext(x) \/ CheckTail(x)
    <3>1. pc[x] \in Giving /\ pc'[x] \in Giving /\ node_ptr' = node_ptr /\ UNCHANGED memory
      BY <1>0, <2>3 DEF ReadTail, ReadNext, CheckTail, locals
    <3> QED
      BY <2>0, <3>1 DEF Moves, TailOn, memory
  <2>4. CASE Help(x, "tail")
    <3>1. /\ pc[x] = "help" /\ pc'[x] = "tail" /\ node_ptr' = node_ptr /\ CasTail(x, next_ptr[x].ptr)
          /\ UNCHANGED <<m_head_ptr, next, data, m_free_list, fresh>>
      BY <1>0, <2>4 DEF Help, locals
    <3>2. TailOn
      BY <3>1, TailGoesOn
    <3> QED
      BY <1>0, <2>0, <3>1, <3>2 DEF Moves
  <2>5. CASE Swing(x)
    <3>1. /\ pc[x] = "swing" /\ pc'[x] = "out" /\ CasTail(x, node_ptr[x])
          /\ UNCHANGED <<m_head_ptr, next, data, m_free_list, fresh>>
      BY <1>0, <2>5 DEF Swing
    <3>2. TailOn
      BY <1>1, <3>1, TailGoesOn
    <3> QED
      BY <1>0, <2>0, <3>1, <3>2 DEF Moves
  <2> QED
    BY <1>1, <2>1, <2>2, <2>3, <2>4, <2>5 DEF Pushing
<1>2. CASE x \in Consumers /\ Popping(x)
  <2>0. /\ Held(x) = IF pc[x] = "destroy" THEN {head_ptr[x].ptr} ELSE {}
        /\ Held(x)' = IF pc'[x] = "destroy" THEN {head_ptr'[x].ptr} ELSE {}
    BY <1>2, HeldIs
  <2>1. CASE ReadHead(x) \/ ReadTail(x) \/ ReadNextOfHead(x) \/ CheckHead(x) \/ ReturnEmpty(x) \/ ReadValue(x)
    <3>1. pc[x] # "destroy" /\ pc'[x] # "destroy" /\ UNCHANGED memory
      BY <1>0, <2>1 DEF ReadHead, ReadTail, ReadNextOfHead, CheckHead, ReturnEmpty, ReadValue
    <3> QED
      BY <2>0, <3>1 DEF Moves, TailOn, memory
  <2>2. CASE Help(x, "head")
    <3>1. /\ pc[x] = "help" /\ pc'[x] = "head" /\ CasTail(x, next_ptr[x].ptr)
          /\ UNCHANGED <<m_head_ptr, next, data, m_free_list, fresh>>
      BY <1>0, <2>2 DEF Help
    <3>2. TailOn
      BY <3>1, TailGoesOn
    <3> QED
      BY <2>0, <3>1, <3>2 DEF Moves
  <2>3. CASE SwapHead(x)
    <3>1. /\ pc[x] = "swap" /\ head_ptr' = head_ptr
          /\ UNCHANGED <<m_tail_ptr, next, data, m_free_list, fresh>>
      BY <2>3 DEF SwapHead, locals
    <3>2. CASE m_head_ptr' = m_head_ptr /\ Goto(x, "head")
      <4>1. pc'[x] = "head"
        BY <1>0, <3>2
      <4> QED
        BY <2>0, <3>1, <3>2, <4>1 DEF Moves, TailOn
    <3>3. CASE /\ Goto(x, "destroy")
               /\ head_ptr[x].ptr = m_head_ptr.ptr /\ next_ptr[x].ptr = next[m_head_ptr.ptr].ptr
               /\ next_ptr[x].ptr \in On /\ m_tail_ptr.ptr # m_head_ptr.ptr
               /\ m_head_ptr' \in Tagged /\ m_head_ptr'.ptr = next_ptr[x].ptr
               /\ m_head_ptr'.tag = m_head_ptr.tag + 1
      <4>1. Held(x)' = {m_head_ptr.ptr}
        BY <1>0, <2>0, <3>1, <3>3
      <4> QED
        BY <3>1, <3>3, <4>1 DEF Removes
    <3> QED
      BY <1>2, <2>3, <3>2, <3>3, SwapMoves
  <2>4. CASE Destroy(x)
    <3>1. pc'[x] = "out" /\ UNCHANGED <<m_head_ptr, m_tail_ptr, data, fresh>>
      BY <1>0, <2>4 DEF Destroy
    <3>2. Held(x)' = {}
      BY <2>0, <3>1
    <3> QED
      BY <1>2, <2>4, <3>1, <3>2, DestroyFrees DEF Frees
  <2> QED
    BY <1>2, <2>1, <2>2, <2>3, <2>4 DEF Popping
<1> QED
  BY <1>1, <1>2 DEF Step

-----------------------------------------------------------------------------
(* Every step keeps the lists *)

\* What other threads may rely on: tags grow with what they are the tags of, the links inside
\* the queue and its items stay, and the tail does not come back to the head.
Onward ==
    /\ m_head_ptr' = m_head_ptr \/ m_head_ptr'.tag > m_head_ptr.tag
    /\ m_tail_ptr' = m_tail_ptr \/ m_tail_ptr'.tag > m_tail_ptr.tag
    /\ m_head_ptr' = m_head_ptr /\ m_tail_ptr.ptr # m_head_ptr.ptr => m_tail_ptr'.ptr # m_head_ptr.ptr
    /\ \A n \in Nodes : next'[n].tag >= next[n].tag
    /\ \A n \in On : /\ next'[n] = next[n] \/ (next[n].ptr = NULL /\ next'[n].tag > next[n].tag)
                     /\ next[n].ptr = NULL => n \in On'
                     /\ data'[n] = data[n]

\* And that nobody touches the nodes they hold.
Untouched(x) ==
    \A y \in Threads : y # x =>
        /\ Held(y)' = Held(y)
        /\ \A n \in Held(y) : next'[n] = next[n] /\ data'[n] = data[n]

\* What other threads hold.
LEMMA OthersHeld ==
    ASSUME QueueAssumption, Inv, NEW x \in Threads, Step(x)
    PROVE  \A y \in Threads : y # x =>
              Held(y)' = Held(y) /\ Held(y) \cap Held(x) = {} /\ Held(y) \subseteq Nodes \ (On \cup Free \cup fresh)
<1> SUFFICES ASSUME NEW y \in Threads, y # x
             PROVE  /\ Held(y)' = Held(y) /\ Held(y) \cap Held(x) = {}
                    /\ Held(y) \subseteq Nodes \ (On \cup Free \cup fresh)
  OBVIOUS
<1>1. Held(y) \cap Held(x) = {} /\ Held(y) \subseteq Nodes \ (On \cup Free \cup fresh)
  BY DEF Inv, Lists
<1>2. CASE y \in Producers
  BY <1>1, <1>2, HeldIs, OtherThreads
<1>3. CASE y \in Consumers
  BY <1>1, <1>3, HeldIs, OtherThreads
<1> QED
  BY <1>2, <1>3 DEF Threads

\* The lists, from what a step does to them and to its own node.
LEMMA ListsFrom ==
    ASSUME QueueAssumption, Inv, NEW x \in Threads, Step(x),
           Chained(Chain, m_head_ptr.ptr, Links)', m_head_ptr'.ptr # NULL, m_tail_ptr'.ptr \in On',
           IsInjective(m_free_list'), On' \cap Free' = {}, fresh' \cap (On' \cup Free') = {},
           On' \cup Free' \cup fresh' \subseteq On \cup Free \cup fresh \cup Held(x),
           Held(x)' \subseteq Nodes \ (On' \cup Free' \cup fresh'),
           Held(x)' \subseteq On \cup Free \cup fresh \cup Held(x)
    PROVE  Lists'
<1>1. \A y \in Threads : y # x =>
        Held(y)' = Held(y) /\ Held(y) \cap Held(x) = {} /\ Held(y) \subseteq Nodes \ (On \cup Free \cup fresh)
  BY OthersHeld
<1>2. \A y \in Threads : Held(y)' \subseteq Nodes \ (On' \cup Free' \cup fresh')
  <2> SUFFICES ASSUME NEW y \in Threads, y # x PROVE Held(y)' \subseteq Nodes \ (On' \cup Free' \cup fresh')
    OBVIOUS
  <2> QED
    BY <1>1
<1>3. \A y, z \in Threads : y # z => Held(y)' \cap Held(z)' = {}
  <2> SUFFICES ASSUME NEW y \in Threads, NEW z \in Threads, y # z PROVE Held(y)' \cap Held(z)' = {}
    OBVIOUS
  <2>1. CASE y # x /\ z # x
    <3>1. Held(y) \cap Held(z) = {}
      BY DEF Inv, Lists
    <3> QED
      BY <1>1, <2>1, <3>1
  <2>2. CASE y = x
    <3>1. z # x
      BY <2>2
    <3> QED
      BY <1>1, <2>2, <3>1
  <2>3. CASE z = x
    <3>1. y # x
      BY <2>3
    <3> QED
      BY <1>1, <2>3, <3>1
  <2> QED
    BY <2>1, <2>2, <2>3
<1> QED
  BY <1>2, <1>3 DEF Lists

LEMMA MovesKeeps ==
    ASSUME QueueAssumption, Inv, NEW x \in Threads, Step(x), Moves(x)
    PROVE  Onward /\ Untouched(x) /\ Lists' /\ Placed'
<1>1. Chain' = Chain /\ On' = On /\ Links' = Links /\ Free' = Free
  BY SameChain DEF Moves, Links, Free
<1>2. UNCHANGED <<m_head_ptr, next, data, m_free_list, fresh>> /\ TailOn /\ Held(x)' = Held(x)
  BY DEF Moves
<1>3. m_tail_ptr'.ptr \in On /\ m_head_ptr.tag \in Nat /\ m_tail_ptr.tag \in Nat
  BY <1>2, Facts DEF TailOn
<1>4. Onward
  <2>1. m_tail_ptr' = m_tail_ptr \/ (m_tail_ptr'.tag > m_tail_ptr.tag /\ m_tail_ptr'.ptr # m_head_ptr.ptr)
    BY <1>2, <1>3 DEF TailOn
  <2>2. \A n \in Nodes : next'[n].tag >= next[n].tag
    BY <1>2, Facts
  <2> QED
    BY <1>1, <1>2, <2>1, <2>2 DEF Onward
<1>5. Untouched(x)
  BY <1>2, OthersHeld DEF Untouched
<1>6. Lists'
  <2>1. Lists /\ Held(x) \subseteq Nodes \ (On \cup Free \cup fresh)
    BY DEF Inv, Lists
  <2>2. Chained(Chain, m_head_ptr.ptr, Links)'
    BY <1>1, <1>2, <2>1 DEF Lists
  <2> QED
    BY <1>1, <1>2, <1>3, <2>1, <2>2, ListsFrom DEF Lists
<1>7. Placed'
  BY <1>1, <1>2 DEF Inv, Placed
<1> QED
  BY <1>4, <1>5, <1>6, <1>7

LEMMA TakesKeeps ==
    ASSUME QueueAssumption, Inv, NEW x \in Threads, Step(x), Takes(x)
    PROVE  Onward /\ Untouched(x) /\ Lists' /\ Placed'
<1>1. PICK n \in Nodes, i \in Items, w \in Tagged :
        /\ n \in Free \cup fresh /\ n \notin On /\ \A y \in Threads : n \notin Held(y)
        /\ w.ptr = NULL /\ w.tag = next[n].tag + 1
        /\ next' = [next EXCEPT ![n] = w] /\ data' = [data EXCEPT ![n] = i]
        /\ m_free_list' \in Seq(Nodes) /\ IsInjective(m_free_list') /\ fresh' \subseteq Nodes
        /\ Free' \cup fresh' = (Free \cup fresh) \ {n} /\ Free' \cap fresh' = {}
        /\ Held(x)' = {n}
  BY DEF Takes
<1>2. m_head_ptr' = m_head_ptr /\ m_tail_ptr' = m_tail_ptr
  BY DEF Takes
<1>3. Chain' = Chain /\ On' = On /\ Chained(Chain, m_head_ptr.ptr, Links)'
  BY <1>1, <1>2, OutsideWritten
<1>4. next \in [Nodes -> Tagged] /\ data \in [Nodes -> Items \cup {NoItem}]
  BY DEF Inv, Typed
<1>5. /\ next'[n] = w /\ data'[n] = i
      /\ \A m \in Nodes : m # n => next'[m] = next[m] /\ data'[m] = data[m]
  BY <1>1, <1>4
<1>6. On \subseteq Nodes /\ \A m \in Nodes : next[m].tag \in Nat
  BY Facts
<1>7. \A m \in On : next'[m] = next[m] /\ data'[m] = data[m]
  BY <1>1, <1>5, <1>6
<1>8. Onward
  <2>1. \A m \in Nodes : next'[m].tag >= next[m].tag
    BY <1>1, <1>5, <1>6
  <2> QED
    BY <1>2, <1>3, <1>7, <2>1 DEF Onward
<1>9. Untouched(x)
  BY <1>1, <1>5, OthersHeld DEF Untouched
<1>10. Lists'
  <2>1. Lists
    BY DEF Inv
  <2>2. On' \cup Free' \cup fresh' \subseteq On \cup Free \cup fresh \cup Held(x)
    BY <1>1, <1>3
  <2>3. On' \cap Free' = {} /\ fresh' \cap (On' \cup Free') = {}
    BY <1>1, <1>3, <2>1 DEF Lists
  <2>4. Held(x)' \subseteq Nodes \ (On' \cup Free' \cup fresh')
    BY <1>1, <1>3
  <2>5. Held(x)' \subseteq On \cup Free \cup fresh \cup Held(x)
    BY <1>1
  <2> QED
    BY <1>1, <1>2, <1>3, <2>1, <2>2, <2>3, <2>4, <2>5, ListsFrom DEF Lists
<1>11. Placed'
  BY <1>2, <1>3, <1>7 DEF Inv, Placed
<1> QED
  BY <1>8, <1>9, <1>10, <1>11

LEMMA AppendsKeeps ==
    ASSUME QueueAssumption, Inv, NEW x \in Threads, Step(x), Appends(x)
    PROVE  Onward /\ Untouched(x) /\ Lists' /\ Placed'
<1>1. PICK n \in On, m \in Nodes, w \in Tagged :
        /\ next[n].ptr = NULL /\ m \notin On /\ next[m].ptr = NULL /\ data[m] \in Items
        /\ w.ptr = m /\ w.tag = next[n].tag + 1
        /\ next' = [next EXCEPT ![n] = w]
        /\ Held(x) = {m} /\ Held(x)' = {}
  BY DEF Appends
<1>2. UNCHANGED <<m_head_ptr, m_tail_ptr, data, m_free_list, fresh>>
  BY DEF Appends
<1>3. On' = On \cup {m} /\ Chained(Chain, m_head_ptr.ptr, Links)'
  BY <1>1, <1>2, LastLinked
<1>4. next \in [Nodes -> Tagged] /\ On \subseteq Nodes /\ \A k \in Nodes : next[k].tag \in Nat
  BY Facts DEF Inv, Typed
<1>5. next'[n] = w /\ \A k \in Nodes : k # n => next'[k] = next[k]
  BY <1>1, <1>4
<1>6. Onward
  <2>1. next'[n].tag > next[n].tag
    BY <1>1, <1>4, <1>5
  <2>2. \A k \in Nodes : next'[k].tag >= next[k].tag
    BY <1>1, <1>4, <1>5
  <2> QED
    BY <1>1, <1>2, <1>3, <1>4, <1>5, <2>1, <2>2 DEF Onward
<1>7. Untouched(x)
  <2>1. \A y \in Threads : y # x => n \notin Held(y)
    BY OthersHeld
  <2>2. \A y \in Threads : y # x => Held(y) \subseteq Nodes
    BY OthersHeld
  <2> QED
    BY <1>2, <1>5, <2>1, <2>2, OthersHeld DEF Untouched
<1>8. Free' = Free
  BY <1>2 DEF Free
<1>9. Lists'
  <2>1. Lists /\ m \notin On \cup Free \cup fresh
    BY <1>1 DEF Inv, Lists
  <2>2. On' \cup Free' \cup fresh' \subseteq On \cup Free \cup fresh \cup Held(x)
    BY <1>1, <1>2, <1>3, <1>8
  <2>3. On' \cap Free' = {} /\ fresh' \cap (On' \cup Free') = {}
    BY <1>2, <1>3, <1>8, <2>1 DEF Lists
  <2>4. m_head_ptr'.ptr # NULL /\ m_tail_ptr'.ptr \in On' /\ IsInjective(m_free_list')
    BY <1>2, <1>3, <2>1 DEF Lists
  <2> QED
    BY <1>1, <1>3, <2>2, <2>3, <2>4, ListsFrom
<1>10. Placed'
  BY <1>1, <1>2, <1>3 DEF Inv, Placed
<1> QED
  BY <1>6, <1>7, <1>9, <1>10

LEMMA RemovesKeeps ==
    ASSUME QueueAssumption, Inv, NEW x \in Threads, Step(x), Removes(x)
    PROVE  Onward /\ Untouched(x) /\ Lists' /\ Placed'
<1>1. /\ m_tail_ptr.ptr # m_head_ptr.ptr
      /\ m_head_ptr'.tag = m_head_ptr.tag + 1
      /\ m_head_ptr'.ptr = next[m_head_ptr.ptr].ptr /\ m_head_ptr'.ptr \in On
      /\ Held(x)' = {m_head_ptr.ptr}
      /\ UNCHANGED <<m_tail_ptr, next, data, m_free_list, fresh>>
  BY DEF Removes
<1>2. /\ m_head_ptr.ptr \in On /\ m_tail_ptr.ptr \in On /\ On \subseteq Nodes /\ NULL \notin Nodes
      /\ m_head_ptr.tag \in Nat /\ \A n \in Nodes : next[n].tag \in Nat
  BY Facts
<1>3. On' = On \ {m_head_ptr.ptr} /\ Chained(Chain, m_head_ptr.ptr, Links)'
  BY <1>1, HeadOn
<1>4. Onward
  <2>1. m_head_ptr'.tag > m_head_ptr.tag /\ m_head_ptr' # m_head_ptr
    BY <1>1, <1>2
  <2>2. \A n \in On : next[n].ptr = NULL => n \in On'
    BY <1>1, <1>2, <1>3
  <2>3. \A n \in Nodes : next'[n].tag >= next[n].tag
    BY <1>1, <1>2
  <2> QED
    BY <1>1, <2>1, <2>2, <2>3 DEF Onward
<1>5. Untouched(x)
  BY <1>1, OthersHeld DEF Untouched
<1>6. Free' = Free
  BY <1>1 DEF Free
<1>7. Lists'
  <2>1. Lists
    BY DEF Inv
  <2>2. On' \cup Free' \cup fresh' \subseteq On \cup Free \cup fresh \cup Held(x)
    BY <1>1, <1>3, <1>6
  <2>3. On' \cap Free' = {} /\ fresh' \cap (On' \cup Free') = {}
    BY <1>1, <1>3, <1>6, <2>1 DEF Lists
  <2>4. m_head_ptr'.ptr # NULL /\ m_tail_ptr'.ptr \in On' /\ IsInjective(m_free_list')
    BY <1>1, <1>2, <1>3, <2>1 DEF Lists
  <2>5. m_head_ptr.ptr \notin On' \cup Free' \cup fresh'
    BY <1>1, <1>2, <1>3, <1>6, <2>1 DEF Lists
  <2> QED
    BY <1>1, <1>2, <1>3, <2>2, <2>3, <2>4, <2>5, ListsFrom
<1>8. Placed'
  BY <1>1, <1>3 DEF Inv, Placed
<1> QED
  BY <1>4, <1>5, <1>7, <1>8

LEMMA FreesKeeps ==
    ASSUME QueueAssumption, Inv, NEW x \in Threads, Step(x), Frees(x)
    PROVE  Onward /\ Untouched(x) /\ Lists' /\ Placed'
<1>1. PICK n \in Nodes, w \in Tagged :
        /\ n \notin On \cup Free \cup fresh /\ Held(x) = {n} /\ Held(x)' = {}
        /\ w.tag = next[n].tag /\ next' = [next EXCEPT ![n] = w]
        /\ m_free_list' \in Seq(Nodes) /\ IsInjective(m_free_list') /\ Free' = Free \cup {n}
  BY DEF Frees
<1>2. UNCHANGED <<m_head_ptr, m_tail_ptr, data, fresh>>
  BY DEF Frees
<1>3. Chain' = Chain /\ On' = On /\ Chained(Chain, m_head_ptr.ptr, Links)'
  BY <1>1, <1>2, OutsideWritten
<1>4. next \in [Nodes -> Tagged] /\ On \subseteq Nodes /\ \A k \in Nodes : next[k].tag \in Nat
  BY Facts DEF Inv, Typed
<1>5. next'[n] = w /\ \A k \in Nodes : k # n => next'[k] = next[k]
  BY <1>1, <1>4
<1>6. Onward
  <2>1. \A k \in Nodes : next'[k].tag >= next[k].tag
    BY <1>1, <1>4, <1>5
  <2>2. \A k \in On : next'[k] = next[k]
    BY <1>1, <1>4, <1>5
  <2> QED
    BY <1>2, <1>3, <2>1, <2>2 DEF Onward
<1>7. Untouched(x)
  BY <1>1, <1>2, <1>5, OthersHeld DEF Untouched
<1>8. Lists'
  <2>1. Lists
    BY DEF Inv
  <2>2. On' \cup Free' \cup fresh' \subseteq On \cup Free \cup fresh \cup Held(x)
    BY <1>1, <1>2, <1>3
  <2>3. On' \cap Free' = {} /\ fresh' \cap (On' \cup Free') = {}
    BY <1>1, <1>2, <1>3, <2>1 DEF Lists
  <2>4. m_head_ptr'.ptr # NULL /\ m_tail_ptr'.ptr \in On'
    BY <1>2, <1>3, <2>1 DEF Lists
  <2> QED
    BY <1>1, <1>3, <2>2, <2>3, <2>4, ListsFrom
<1>9. Placed'
  BY <1>2, <1>3 DEF Inv, Placed
<1> QED
  BY <1>6, <1>7, <1>8, <1>9

LEMMA ListsKept ==
    ASSUME QueueAssumption, KeepsTags, TagsTell, Inv, NEW x \in Threads, Step(x)
    PROVE  Onward /\ Untouched(x) /\ Lists' /\ Placed'
BY Kinds, MovesKeeps, TakesKeeps, AppendsKeeps, RemovesKeeps, FreesKeeps

-----------------------------------------------------------------------------
(* Every step keeps the types *)

LEMMA PushTyped ==
    ASSUME QueueAssumption, KeepsTags, Inv, NEW x \in Producers, Push(x)
    PROVE  Typed'
<1>1. Typed
  BY DEF Inv
<1>2. PICK n \in Nodes, i \in Items, w \in Tagged :
        /\ next' = [next EXCEPT ![n] = w] /\ data' = [data EXCEPT ![n] = i]
        /\ node_ptr' = [node_ptr EXCEPT ![x] = n] /\ t' = [t EXCEPT ![x] = i]
        /\ m_free_list' \in Seq(Nodes) /\ fresh' \subseteq Nodes
  BY PushTakes
<1>3. UNCHANGED <<m_head_ptr, m_tail_ptr, head_ptr, tail_ptr, next_ptr, sawEmpty>>
  BY DEF Push
<1> QED
  BY <1>1, <1>2, <1>3 DEF Typed

LEMMA LinkTyped ==
    ASSUME QueueAssumption, TagsTell, Inv, NEW x \in Producers, Link(x)
    PROVE  Typed'
<1>1. Typed /\ x \in Threads
  BY DEF Inv, Threads
<1>2. UNCHANGED <<m_head_ptr, m_tail_ptr, data, m_free_list, fresh, node_ptr,
                  head_ptr, tail_ptr, next_ptr, sawEmpty>>
  BY DEF Link
<1>3. CASE next' = next /\ t' = t
  BY <1>1, <1>2, <1>3 DEF Typed
<1>4. CASE /\ t' = [t EXCEPT ![x] = NoItem]
           /\ \E n \in On, w \in Tagged : n \in Nodes /\ next' = [next EXCEPT ![n] = w]
  BY <1>1, <1>2, <1>4 DEF Typed
<1> QED
  BY <1>3, <1>4, LinkLinks

LEMMA TypedKept ==
    ASSUME QueueAssumption, KeepsTags, TagsTell, Inv, NEW x \in Threads, Step(x)
    PROVE  Typed'
<1>1. Typed /\ Null \in Tagged
  BY DEF Inv, Null, Tagged
<1>2. CASE UNCHANGED <<memory, node_ptr, head_ptr>> /\ tail_ptr' \in [Threads -> Tagged]
           /\ next_ptr' \in [Threads -> Tagged] /\ t' \in [Threads -> Items \cup {NoItem}]
           /\ sawEmpty' \in [Consumers -> BOOLEAN]
  BY <1>1, <1>2 DEF Typed, memory
<1>3. CASE ReadTail(x) \/ CheckTail(x) \/ CheckHead(x)
  BY <1>1, <1>2, <1>3 DEF Typed, ReadTail, CheckTail, CheckHead, locals
<1>4. ASSUME UNCHANGED <<m_head_ptr, next, data, m_free_list, fresh, head_ptr, t, sawEmpty>>, TailOn,
             node_ptr' \in [Producers -> Nodes \cup {NULL}],
             tail_ptr' \in [Threads -> Tagged], next_ptr' \in [Threads -> Tagged]
      PROVE  Typed'
  <2>1. m_tail_ptr' \in Tagged
    BY <1>1, <1>4 DEF TailOn, Typed
  <2> QED
    BY <1>1, <1>4, <2>1 DEF Typed
<1>5. ASSUME NEW l, Help(x, l) PROVE Typed'
  <2>1. TailOn
    BY <1>5, TailGoesOn DEF Help
  <2> QED
    BY <1>1, <1>4, <1>5, <2>1 DEF Help, locals, Typed
<1>6. CASE x \in Producers /\ (Push(x) \/ Pushing(x))
  <2>1. CASE ReadNext(x)
    <3>1. next[tail_ptr[x].ptr] \in Tagged
      <4>1. tail_ptr[x].ptr \in Nodes
        BY <2>1, Places DEF ReadNext, AfterTail
      <4> QED
        BY <4>1, Facts
    <3>2. next_ptr' = [next_ptr EXCEPT ![x] = next[tail_ptr[x].ptr]]
          /\ UNCHANGED <<memory, node_ptr, head_ptr, tail_ptr, t, sawEmpty>>
      BY <2>1 DEF ReadNext
    <3> QED
      BY <1>1, <1>2, <3>1, <3>2 DEF Typed
  <2>2. CASE Swing(x)
    <3>1. TailOn
      BY <1>6, <2>2, TailGoesOn DEF Swing
    <3>2. /\ node_ptr' = [node_ptr EXCEPT ![x] = NULL] /\ tail_ptr' = [tail_ptr EXCEPT ![x] = Null]
          /\ next_ptr' = [next_ptr EXCEPT ![x] = Null]
          /\ UNCHANGED <<m_head_ptr, next, data, m_free_list, fresh, head_ptr, t, sawEmpty>>
      BY <2>2 DEF Swing
    <3> QED
      BY <1>1, <1>4, <3>1, <3>2 DEF Typed
  <2> QED
    BY <1>3, <1>5, <1>6, <2>1, <2>2, PushTyped, LinkTyped DEF Pushing
<1>7. CASE x \in Consumers /\ Popping(x)
  <2>1. CASE ReadHead(x)
    BY <1>1, <2>1 DEF ReadHead, memory, Typed
  <2>2. CASE ReadNextOfHead(x)
    <3>1. next[head_ptr[x].ptr] \in Tagged
      <4>1. head_ptr[x].ptr \in Nodes
        BY <1>7, <2>2, Places DEF ReadNextOfHead, AfterHead
      <4> QED
        BY <4>1, Facts
    <3>2. /\ next_ptr' = [next_ptr EXCEPT ![x] = next[head_ptr[x].ptr]]
          /\ sawEmpty' = [sawEmpty EXCEPT ![x] = (queue = <<>>)]
          /\ UNCHANGED <<memory, node_ptr, head_ptr, tail_ptr, t>>
      BY <2>2 DEF ReadNextOfHead
    <3>3. sawEmpty' \in [Consumers -> BOOLEAN]
      <4>1. (queue = <<>>) \in BOOLEAN
        OBVIOUS
      <4>2. sawEmpty \in [Consumers -> BOOLEAN]
        BY <1>1 DEF Typed
      <4> DEFINE b == queue = <<>>
      <4>3. sawEmpty' = [sawEmpty EXCEPT ![x] = b]
        BY <3>2
      <4> HIDE DEF b
      <4> QED
        BY <4>1, <4>2, <4>3 DEF b
    <3> QED
      BY <1>1, <1>2, <3>1, <3>2, <3>3 DEF Typed
  <2>3. ASSUME Forget(x)
        PROVE  /\ head_ptr' \in [Consumers -> Tagged] /\ tail_ptr' \in [Threads -> Tagged]
               /\ next_ptr' \in [Threads -> Tagged] /\ sawEmpty' \in [Consumers -> BOOLEAN]
               /\ node_ptr' = node_ptr
    BY <1>1, <2>3 DEF Forget, Typed
  <2>4. CASE ReturnEmpty(x)
    BY <1>1, <2>3, <2>4 DEF ReturnEmpty, memory, Typed
  <2>5. CASE ReadValue(x)
    <3>1. next_ptr[x].ptr \in Nodes
      BY <1>7, <2>5, Places DEF ReadValue
    <3> QED
      BY <1>1, <2>5, <3>1 DEF ReadValue, memory, Typed
  <2>6. CASE SwapHead(x)
    <3>1. m_head_ptr' \in Tagged
      BY <1>1, <1>7, <2>6, SwapMoves DEF Typed
    <3>2. UNCHANGED <<m_tail_ptr, next, data, m_free_list, fresh, locals>>
      BY <2>6 DEF SwapHead
    <3> QED
      BY <1>1, <3>1, <3>2 DEF Typed, locals
  <2>7. CASE Destroy(x)
    <3>1. next' \in [Nodes -> Tagged] /\ m_free_list' \in Seq(Nodes)
      BY <1>1, <1>7, <2>7, DestroyFrees DEF Typed
    <3>2. /\ t' = [t EXCEPT ![x] = NoItem] /\ Forget(x)
          /\ UNCHANGED <<m_head_ptr, m_tail_ptr, data, fresh>>
      BY <2>7 DEF Destroy
    <3> QED
      BY <1>1, <2>3, <3>1, <3>2 DEF Typed
  <2> QED
    BY <1>3, <1>5, <1>7, <2>1, <2>2, <2>4, <2>5, <2>6, <2>7 DEF Popping
<1> QED
  BY <1>6, <1>7 DEF Step


-----------------------------------------------------------------------------
(* Every step keeps what the threads know *)

\* What a step leaves of the tail, the head and the links for the copies of the others.
LEMMA Ahead ==
    ASSUME QueueAssumption, Inv, Typed', Onward
    PROVE  /\ NULL \notin Nodes /\ On \subseteq Nodes
           /\ m_head_ptr.ptr \in On /\ m_tail_ptr.ptr \in On
           /\ m_tail_ptr.tag \in Nat /\ m_tail_ptr'.tag \in Nat
           /\ m_head_ptr.tag \in Nat /\ m_head_ptr'.tag \in Nat
           /\ m_tail_ptr' = m_tail_ptr \/ m_tail_ptr'.tag > m_tail_ptr.tag
           /\ m_head_ptr' = m_head_ptr \/ m_head_ptr'.tag > m_head_ptr.tag
           /\ \A n \in Nodes : next[n].tag \in Nat /\ next'[n].tag \in Nat /\ next'[n].tag >= next[n].tag
           /\ \A n \in On : /\ next[n].ptr # NULL => next'[n] = next[n] /\ next[n].ptr \in On
                            /\ next'[n].tag = next[n].tag => next'[n] = next[n]
                            /\ next[n].ptr = NULL => n \in On'
                            /\ data'[n] = data[n]
<1>1. m_tail_ptr' \in Tagged /\ m_head_ptr' \in Tagged /\ next' \in [Nodes -> Tagged]
  BY DEF Typed
<1>2. m_tail_ptr'.tag \in Nat /\ m_head_ptr'.tag \in Nat /\ \A n \in Nodes : next'[n].tag \in Nat
  BY <1>1 DEF Tagged
<1>3. \A n \in Nodes : next[n].tag \in Nat
  BY Facts
<1>4. ASSUME NEW n \in On
      PROVE  /\ next[n].ptr # NULL => next'[n] = next[n] /\ next[n].ptr \in On
             /\ next'[n].tag = next[n].tag => next'[n] = next[n]
             /\ next[n].ptr = NULL => n \in On'
             /\ data'[n] = data[n]
  <2>1. n \in Nodes /\ (next[n].ptr # NULL => next[n].ptr \in On)
    BY Facts
  <2>2. next'[n].tag \in Nat /\ next[n].tag \in Nat
    BY <1>2, <1>3, <2>1
  <2>3. /\ next'[n] = next[n] \/ (next[n].ptr = NULL /\ next'[n].tag > next[n].tag)
        /\ next[n].ptr = NULL => n \in On'
        /\ data'[n] = data[n]
    BY DEF Onward
  <2> QED
    BY <2>1, <2>2, <2>3
<1> QED
  BY <1>2, <1>3, <1>4, Facts DEF Onward

LEMMA TailStillHolds ==
    ASSUME QueueAssumption, Inv, NEW x \in Threads, Step(x), Typed', Onward,
           NEW y \in Threads, y # x
    PROVE  TailHolds(y)' /\ (pc[y] \in AfterTail /\ SameTail(y)' => SameTail(y) /\ tail_ptr[y].ptr \in On)
<1>1. pc'[y] = pc[y] /\ tail_ptr'[y] = tail_ptr[y] /\ next_ptr'[y] = next_ptr[y]
  BY OtherThreads
<1>2. TailHolds(y) /\ tail_ptr[y] \in Tagged /\ tail_ptr[y].tag \in Nat
  BY DEF Inv, Copies, Sound, Typed, Tagged
<1>3. CASE pc[y] \notin AfterTail
  BY <1>1, <1>3 DEF TailHolds, AfterTail
<1>4. CASE pc[y] \in AfterTail
  <2>1. tail_ptr[y].ptr \in Nodes /\ tail_ptr[y].tag <= m_tail_ptr.tag
    BY <1>2, <1>4 DEF TailHolds
  <2>2. tail_ptr[y].tag <= m_tail_ptr'.tag
    <3>1. m_tail_ptr.tag \in Nat /\ m_tail_ptr'.tag \in Nat /\ (m_tail_ptr' = m_tail_ptr \/ m_tail_ptr'.tag > m_tail_ptr.tag)
      BY Ahead
    <3> QED
      BY <1>2, <2>1, <3>1
  <2>3. SameTail(y)' => m_tail_ptr' = m_tail_ptr /\ SameTail(y)
    <3>1. m_tail_ptr.tag \in Nat /\ m_tail_ptr'.tag \in Nat /\ (m_tail_ptr' = m_tail_ptr \/ m_tail_ptr'.tag > m_tail_ptr.tag)
      BY Ahead
    <3>2. SameTail(y)' => tail_ptr[y].tag = m_tail_ptr'.tag
      BY <1>1 DEF SameTail
    <3>3. SameTail(y)' => m_tail_ptr' = m_tail_ptr
      BY <1>2, <2>1, <3>1, <3>2
    <3> QED
      BY <3>2, <3>3 DEF SameTail
  <2>4. SameTail(y)' => tail_ptr[y].ptr = m_tail_ptr.ptr /\ tail_ptr[y].ptr \in On
    BY <1>2, <1>4, <2>3, Ahead DEF TailHolds
  <2>5. pc[y] = "help" /\ SameTail(y)' => next_ptr[y].ptr = next'[tail_ptr[y].ptr].ptr
    <3> SUFFICES ASSUME pc[y] = "help", SameTail(y)' PROVE next_ptr[y].ptr = next'[tail_ptr[y].ptr].ptr
      OBVIOUS
    <3>1. next_ptr[y].ptr \in Nodes /\ next_ptr[y].ptr = next[tail_ptr[y].ptr].ptr
      BY <1>2, <2>3 DEF TailHolds
    <3> QED
      BY <2>4, <3>1, Ahead
  <2>6. pc[y] = "help" => next_ptr[y].ptr \in Nodes
    BY <1>2 DEF TailHolds
  <2>7. TailHolds(y)'
    BY <1>1, <2>1, <2>2, <2>3, <2>4, <2>5, <2>6 DEF TailHolds
  <2> QED
    BY <2>3, <2>4, <2>7
<1> QED
  BY <1>3, <1>4

LEMMA NextStillHolds ==
    ASSUME QueueAssumption, Inv, NEW x \in Threads, Step(x), Typed', Onward, Untouched(x),
           NEW p \in Producers, p # x
    PROVE  NextHolds(p)'
<1>1. /\ p \in Threads /\ pc'[p] = pc[p] /\ tail_ptr'[p] = tail_ptr[p] /\ next_ptr'[p] = next_ptr[p]
      /\ t'[p] = t[p] /\ node_ptr'[p] = node_ptr[p]
  BY OtherThreads DEF Threads
<1>2. NextHolds(p) /\ TailHolds(p) /\ next_ptr[p] \in Tagged /\ next_ptr[p].tag \in Nat
  BY <1>1 DEF Inv, Copies, Sound, Typed, Tagged
<1>3. pc[p] \in AfterTail /\ SameTail(p)' => SameTail(p) /\ tail_ptr[p].ptr \in On
  BY <1>1, TailStillHolds
<1> DEFINE n == tail_ptr[p].ptr
<1>4. pc[p] \in AfterTail => n \in Nodes
  BY <1>1, Places
<1>5. pc[p] \in {"check", "link"} => next_ptr[p].tag <= next[n].tag /\ next_ptr[p].tag <= next'[n].tag
  <2> SUFFICES ASSUME pc[p] \in {"check", "link"}
               PROVE  next_ptr[p].tag <= next[n].tag /\ next_ptr[p].tag <= next'[n].tag
    OBVIOUS
  <2>1. n \in Nodes
    BY <1>4 DEF AfterTail
  <2>2. next[n].tag \in Nat /\ next'[n].tag \in Nat /\ next'[n].tag >= next[n].tag
    BY <2>1, Ahead
  <2>3. next_ptr[p].tag <= next[n].tag
    BY <1>2 DEF NextHolds
  <2> QED
    BY <1>2, <2>2, <2>3
<1>6. pc[p] \in {"check", "link"} /\ next_ptr[p].tag = next'[n].tag => next[n].tag = next'[n].tag
  <2> SUFFICES ASSUME pc[p] \in {"check", "link"}, next_ptr[p].tag = next'[n].tag
               PROVE  next[n].tag = next'[n].tag
    OBVIOUS
  <2>1. n \in Nodes
    BY <1>4 DEF AfterTail
  <2>2. next[n].tag \in Nat /\ next'[n].tag \in Nat /\ next'[n].tag >= next[n].tag
    BY <2>1, Ahead
  <2> QED
    BY <1>2, <1>5, <2>2
<1>7. pc[p] = "check" /\ SameTail(p)' =>
        /\ next_ptr[p].tag = next'[n].tag => next_ptr[p].ptr = next'[n].ptr
        /\ next_ptr[p].ptr # NULL => next_ptr[p].ptr = next'[n].ptr
  <2> SUFFICES ASSUME pc[p] = "check", SameTail(p)'
               PROVE  /\ next_ptr[p].tag = next'[n].tag => next_ptr[p].ptr = next'[n].ptr
                      /\ next_ptr[p].ptr # NULL => next_ptr[p].ptr = next'[n].ptr
    OBVIOUS
  <2>1. SameTail(p) /\ n \in On
    BY <1>3 DEF AfterTail
  <2>2. /\ next_ptr[p].tag = next[n].tag => next_ptr[p].ptr = next[n].ptr
        /\ next_ptr[p].ptr # NULL => next_ptr[p].ptr = next[n].ptr
    BY <1>2, <2>1 DEF NextHolds
  <2> QED
    BY <1>6, <2>1, <2>2, Ahead
<1>8. pc[p] = "link" /\ next_ptr[p].tag = next'[n].tag => n \in On' /\ next'[n].ptr = NULL
  <2> SUFFICES ASSUME pc[p] = "link", next_ptr[p].tag = next'[n].tag PROVE n \in On' /\ next'[n].ptr = NULL
    OBVIOUS
  <2>1. next[n].tag = next'[n].tag
    BY <1>6
  <2>2. n \in On /\ next[n].ptr = NULL
    BY <1>2, <2>1 DEF NextHolds
  <2> QED
    BY <2>1, <2>2, Ahead
<1>9. pc[p] = "swing" => node_ptr[p] \in Nodes /\ (SameTail(p)' => next'[n].ptr = node_ptr[p])
  <2> SUFFICES ASSUME pc[p] = "swing"
               PROVE  node_ptr[p] \in Nodes /\ (SameTail(p)' => next'[n].ptr = node_ptr[p])
    OBVIOUS
  <2>1. node_ptr[p] \in Nodes /\ (SameTail(p) => next[n].ptr = node_ptr[p])
    BY <1>2 DEF NextHolds
  <2>2. SameTail(p)' => SameTail(p) /\ n \in On
    BY <1>3 DEF AfterTail
  <2> QED
    BY <2>1, <2>2, Ahead
<1>10. pc[p] \in Giving => t[p] \in Items /\ data'[node_ptr[p]] = t[p] /\ next'[node_ptr[p]].ptr = NULL
  <2>1. pc[p] \in Giving => Held(p) = {node_ptr[p]}
    BY HeldIs
  <2>2. \A m \in Held(p) : next'[m] = next[m] /\ data'[m] = data[m]
    BY <1>1 DEF Untouched
  <2> QED
    BY <1>2, <2>1, <2>2 DEF NextHolds
<1>11. pc[p] \notin Giving => t[p] = NoItem
  BY <1>2 DEF NextHolds
<1> QED
  BY <1>1, <1>5, <1>7, <1>8, <1>9, <1>10, <1>11 DEF NextHolds

LEMMA HeadStillHolds ==
    ASSUME QueueAssumption, Inv, NEW x \in Threads, Step(x), Typed', Onward,
           NEW c \in Consumers, c # x
    PROVE  HeadHolds(c)'
<1>1. /\ c \in Threads /\ pc'[c] = pc[c] /\ tail_ptr'[c] = tail_ptr[c] /\ next_ptr'[c] = next_ptr[c]
      /\ t'[c] = t[c] /\ head_ptr'[c] = head_ptr[c] /\ sawEmpty'[c] = sawEmpty[c]
  BY OtherThreads DEF Threads
<1>2. HeadHolds(c) /\ head_ptr[c] \in Tagged /\ head_ptr[c].tag \in Nat
  BY <1>1 DEF Inv, Copies, Sound, Typed, Tagged
<1> DEFINE n == head_ptr[c].ptr
<1>3. pc[c] \in AfterHead =>
        /\ n \in Nodes /\ head_ptr[c].tag <= m_head_ptr'.tag
        /\ SameHead(c)' => SameHead(c) /\ m_head_ptr' = m_head_ptr /\ n = m_head_ptr.ptr /\ n \in On
  <2> SUFFICES ASSUME pc[c] \in AfterHead
               PROVE  /\ n \in Nodes /\ head_ptr[c].tag <= m_head_ptr'.tag
                      /\ SameHead(c)' => SameHead(c) /\ m_head_ptr' = m_head_ptr
                                         /\ n = m_head_ptr.ptr /\ n \in On
    OBVIOUS
  <2>1. n \in Nodes /\ head_ptr[c].tag <= m_head_ptr.tag /\ (SameHead(c) => n = m_head_ptr.ptr)
    BY <1>2 DEF HeadHolds
  <2>2. m_head_ptr.tag \in Nat /\ m_head_ptr'.tag \in Nat /\ (m_head_ptr' = m_head_ptr \/ m_head_ptr'.tag > m_head_ptr.tag)
    BY Ahead
  <2>3. SameHead(c)' => head_ptr[c].tag = m_head_ptr'.tag
    BY <1>1 DEF SameHead
  <2>4. head_ptr[c].tag <= m_head_ptr'.tag /\ (SameHead(c)' => m_head_ptr' = m_head_ptr)
    BY <1>2, <2>1, <2>2, <2>3
  <2>5. SameHead(c)' => SameHead(c)
    BY <2>3, <2>4 DEF SameHead
  <2> QED
    BY <2>1, <2>4, <2>5, Ahead
<1>4. pc[c] \in {"next", "check"} /\ SameHead(c)' /\ tail_ptr[c].ptr # n => m_tail_ptr'.ptr # m_head_ptr'.ptr
  <2> SUFFICES ASSUME pc[c] \in {"next", "check"}, SameHead(c)', tail_ptr[c].ptr # n
               PROVE  m_tail_ptr'.ptr # m_head_ptr'.ptr
    OBVIOUS
  <2>1. SameHead(c) /\ m_head_ptr' = m_head_ptr
    BY <1>3 DEF AfterHead
  <2>2. m_tail_ptr.ptr # m_head_ptr.ptr
    BY <1>2, <2>1 DEF HeadHolds
  <2> QED
    BY <2>1, <2>2 DEF Onward
<1>5. pc[c] = "check" /\ SameHead(c)' =>
        /\ next_ptr[c].ptr # NULL => next_ptr[c].ptr = next'[n].ptr
        /\ tail_ptr[c].ptr # n => next_ptr[c].ptr # NULL
        /\ next_ptr[c].ptr = NULL => sawEmpty[c]
  <2> SUFFICES ASSUME pc[c] = "check", SameHead(c)'
               PROVE  /\ next_ptr[c].ptr # NULL => next_ptr[c].ptr = next'[n].ptr
                      /\ tail_ptr[c].ptr # n => next_ptr[c].ptr # NULL
                      /\ next_ptr[c].ptr = NULL => sawEmpty[c]
    OBVIOUS
  <2>1. SameHead(c) /\ n \in On
    BY <1>3 DEF AfterHead
  <2>2. /\ next_ptr[c].ptr # NULL => next_ptr[c].ptr = next[n].ptr
        /\ tail_ptr[c].ptr # n => next_ptr[c].ptr # NULL
        /\ next_ptr[c].ptr = NULL => sawEmpty[c]
    BY <1>2, <2>1 DEF HeadHolds
  <2> QED
    BY <2>1, <2>2, Ahead
<1>6. pc[c] \in {"value", "swap"} =>
        /\ next_ptr[c].ptr \in Nodes
        /\ SameHead(c)' => /\ next_ptr[c].ptr = next'[n].ptr /\ m_tail_ptr'.ptr # m_head_ptr'.ptr
                           /\ data'[next_ptr[c].ptr] = data[next_ptr[c].ptr]
  <2> SUFFICES ASSUME pc[c] \in {"value", "swap"}
               PROVE  /\ next_ptr[c].ptr \in Nodes
                      /\ SameHead(c)' => /\ next_ptr[c].ptr = next'[n].ptr
                                         /\ m_tail_ptr'.ptr # m_head_ptr'.ptr
                                         /\ data'[next_ptr[c].ptr] = data[next_ptr[c].ptr]
    OBVIOUS
  <2>1. next_ptr[c].ptr \in Nodes
    BY <1>2 DEF HeadHolds
  <2> SUFFICES ASSUME SameHead(c)'
               PROVE  /\ next_ptr[c].ptr = next'[n].ptr /\ m_tail_ptr'.ptr # m_head_ptr'.ptr
                      /\ data'[next_ptr[c].ptr] = data[next_ptr[c].ptr]
    BY <2>1
  <2>2. SameHead(c) /\ n \in On /\ m_head_ptr' = m_head_ptr
    BY <1>3 DEF AfterHead
  <2>3. next_ptr[c].ptr = next[n].ptr /\ m_tail_ptr.ptr # m_head_ptr.ptr
    BY <1>2, <2>2 DEF HeadHolds
  <2>4. next[n].ptr # NULL
    BY <2>1, <2>3, Ahead
  <2>5. next'[n] = next[n] /\ next[n].ptr \in On
    BY <2>2, <2>4, Ahead
  <2>6. data'[next_ptr[c].ptr] = data[next_ptr[c].ptr]
    BY <2>3, <2>5, Ahead
  <2> QED
    BY <2>2, <2>3, <2>5, <2>6 DEF Onward
<1>7. pc[c] = "swap" /\ SameHead(c)' => t[c] = data'[next_ptr[c].ptr]
  <2>1. pc[c] = "swap" /\ SameHead(c)' => SameHead(c)
    BY <1>3 DEF AfterHead
  <2> QED
    BY <1>2, <1>6, <2>1 DEF HeadHolds
<1>8. (pc[c] = "destroy" => t[c] \in Items) /\ (pc[c] = "empty" => sawEmpty[c])
  BY <1>2 DEF HeadHolds
<1>9. /\ pc'[c] \in AfterHead =>
            /\ head_ptr'[c].ptr \in Nodes /\ head_ptr'[c].tag <= m_head_ptr'.tag
            /\ SameHead(c)' => head_ptr'[c].ptr = m_head_ptr'.ptr
  BY <1>1, <1>3
<1> QED
  BY <1>1, <1>4, <1>5, <1>6, <1>7, <1>8, <1>9 DEF HeadHolds

LEMMA OthersSound ==
    ASSUME QueueAssumption, Inv, NEW x \in Threads, Step(x), Typed', Onward, Untouched(x),
           NEW y \in Threads, y # x
    PROVE  Sound(y)'
BY TailStillHolds, NextStillHolds, HeadStillHolds DEF Sound

\* A queue whose dummy links to no node has only the dummy, and no item.
LEMMA Alone ==
    ASSUME QueueAssumption, Inv, next[m_head_ptr.ptr].ptr = NULL
    PROVE  m_tail_ptr.ptr = m_head_ptr.ptr /\ queue = <<>>
<1> DEFINE c == Chain
           h == m_head_ptr.ptr
<1>1. /\ Chained(c, h, Links) /\ Links \in [Nodes -> Nodes \cup {NULL}] /\ NULL \notin Nodes
      /\ h \in ToSet(c) /\ m_tail_ptr.ptr \in ToSet(c) /\ h \in Nodes /\ Links[h] = NULL
  BY Facts DEF On
<1> HIDE DEF c, h
<1>2. h = c[Len(c)] /\ h = c[1]
  BY <1>1, OnChain
<1>3. c \in Seq(Nodes) /\ IsInjective(c)
  BY <1>1 DEF Chained
<1>4. /\ Len(c) \in Nat /\ DOMAIN c = 1..Len(c)
      /\ \A n \in ToSet(c) : \E i \in 1..Len(c) : c[i] = n
  BY <1>3, Elements
<1>5. Len(c) = 1
  <2>1. 1 \in 1..Len(c) /\ Len(c) \in 1..Len(c)
    BY <1>1, <1>4
  <2> QED
    BY <1>2, <1>3, <1>4, <2>1 DEF IsInjective
<1>6. m_tail_ptr.ptr = h
  BY <1>1, <1>2, <1>4, <1>5
<1>7. Tail(c) = <<>>
  <2>1. c # <<>>
    BY <1>5
  <2>2. Tail(c) \in Seq(Nodes) /\ Len(Tail(c)) = 0
    BY <1>3, <1>5, <2>1
  <2>3. <<>> \in Seq(Nodes) /\ Len(<<>>) = 0
    OBVIOUS
  <2>4. \A i \in 1..Len(Tail(c)) : Tail(c)[i] = <<>>[i]
    <3>1. 1..Len(Tail(c)) = 1..0 /\ 1..0 = {}
      BY <2>2
    <3> QED
      BY <3>1
  <2> QED
    BY <2>2, <2>3, <2>4, SameSequence
<1>8. queue = <<>>
  <2>1. Linked = <<>>
    BY <1>7 DEF Linked, c
  <2> QED
    BY <2>1 DEF queue
<1> QED
  BY <1>6, <1>8 DEF h

\* A thread that keeps its copy of the tail, or has none, while the tail stays.
LEMMA SameCopy ==
    ASSUME Inv, NEW x \in Threads,
           \/ pc'[x] \notin AfterTail
           \/ /\ pc[x] \in AfterTail /\ pc'[x] # "help"
              /\ tail_ptr'[x] = tail_ptr[x] /\ m_tail_ptr' = m_tail_ptr
    PROVE  TailHolds(x)'
<1>1. TailHolds(x)
  BY DEF Inv, Copies, Sound
<1> QED
  BY <1>1 DEF TailHolds, AfterTail, SameTail

\* A producer keeps its node and its item.
LEMMA SameNode ==
    ASSUME QueueAssumption, Inv, NEW p \in Producers, pc[p] \in Giving, pc'[p] \in Giving,
           UNCHANGED <<next, data>>, node_ptr'[p] = node_ptr[p], t'[p] = t[p],
           pc'[p] \notin {"check", "link"}
    PROVE  NextHolds(p)'
<1>1. NextHolds(p) /\ p \in Threads
  BY DEF Inv, Copies, Sound, Threads
<1> QED
  BY <1>1 DEF NextHolds, Giving

LEMMA PushSound ==
    ASSUME QueueAssumption, KeepsTags, Inv, NEW p \in Producers, Push(p)
    PROVE  Sound(p)'
<1>1. p \in Threads /\ p \notin Consumers
  BY DEF Threads, QueueAssumption
<1>2. pc'[p] = "tail"
  BY <1>1 DEF Push, Goto, Inv, Labelled
<1>3. PICK n \in Nodes, i \in Items, w \in Tagged :
        /\ w.ptr = NULL /\ next' = [next EXCEPT ![n] = w] /\ data' = [data EXCEPT ![n] = i]
        /\ node_ptr' = [node_ptr EXCEPT ![p] = n] /\ t' = [t EXCEPT ![p] = i]
  BY PushTakes
<1>4. /\ next \in [Nodes -> Tagged] /\ data \in [Nodes -> Items \cup {NoItem}]
      /\ node_ptr \in [Producers -> Nodes \cup {NULL}] /\ t \in [Threads -> Items \cup {NoItem}]
  BY DEF Inv, Typed
<1>5. t'[p] = i /\ node_ptr'[p] = n /\ data'[n] = i /\ next'[n].ptr = NULL
  BY <1>1, <1>3, <1>4
<1>6. TailHolds(p)'
  BY <1>1, <1>2, SameCopy DEF AfterTail
<1>7. NextHolds(p)'
  BY <1>2, <1>5 DEF NextHolds, Giving
<1> QED
  BY <1>1, <1>6, <1>7 DEF Sound

LEMMA PushingSound ==
    ASSUME QueueAssumption, TagsTell, Inv, NEW p \in Producers, Pushing(p)
    PROVE  Sound(p)'
<1>1. /\ p \in Threads /\ p \notin Consumers /\ TailHolds(p) /\ NextHolds(p)
      /\ \A l : Goto(p, l) => pc'[p] = l
  BY DEF Threads, QueueAssumption, Inv, Copies, Sound, Labelled, Goto
<1>2. /\ next \in [Nodes -> Tagged] /\ tail_ptr \in [Threads -> Tagged] /\ next_ptr \in [Threads -> Tagged]
      /\ t \in [Threads -> Items \cup {NoItem}] /\ m_tail_ptr \in Tagged
      /\ node_ptr \in [Producers -> Nodes \cup {NULL}]
  BY DEF Inv, Typed
<1> DEFINE n == tail_ptr[p].ptr
<1>3. SUFFICES TailHolds(p)' /\ NextHolds(p)'
  BY <1>1 DEF Sound
<1>4. CASE ReadTail(p)
  <2>1. /\ pc[p] = "tail" /\ pc'[p] = "next" /\ tail_ptr'[p] = m_tail_ptr
        /\ UNCHANGED <<next, data, node_ptr, t, m_tail_ptr>>
    BY <1>1, <1>2, <1>4 DEF ReadTail, memory
  <2>2. m_tail_ptr.ptr \in Nodes /\ m_tail_ptr.tag <= m_tail_ptr.tag
    BY Facts
  <2>3. TailHolds(p)'
    BY <2>1, <2>2 DEF TailHolds
  <2> QED
    BY <2>1, <2>3, SameNode DEF Giving
<1>5. CASE ReadNext(p)
  <2>1. /\ pc[p] = "next" /\ pc'[p] = "check" /\ next_ptr'[p] = next[n]
        /\ UNCHANGED <<next, data, node_ptr, t, m_tail_ptr, tail_ptr>>
    BY <1>1, <1>2, <1>5 DEF ReadNext, memory
  <2>2. TailHolds(p)'
    BY <1>1, <2>1, SameCopy DEF AfterTail
  <2>3. next[n].tag <= next[n].tag
    <3>1. n \in Nodes
      BY <1>1, <2>1, Places DEF AfterTail
    <3> QED
      BY <3>1, Facts
  <2> QED
    BY <1>1, <2>1, <2>2, <2>3 DEF NextHolds, Giving
<1>6. CASE CheckTail(p)
  <2>1. /\ pc[p] = "check" /\ UNCHANGED <<next, data, node_ptr, t, m_tail_ptr, tail_ptr, next_ptr>>
        /\ pc'[p] = IF ~Same(m_tail_ptr, tail_ptr[p]) THEN "tail"
                    ELSE IF next_ptr[p].ptr = NULL THEN "link" ELSE "help"
    BY <1>1, <1>6 DEF CheckTail, memory, locals
  <2>2. CASE pc'[p] = "tail"
    BY <1>1, <2>1, <2>2, SameCopy, SameNode DEF AfterTail, Giving
  <2>3. CASE pc'[p] = "help" /\ next_ptr[p].ptr # NULL
    <3>1. next_ptr[p].ptr \in Nodes
      BY <1>1, <1>2, <2>3 DEF Tagged
    <3>2. TailHolds(p)'
      BY <1>1, <2>1, <2>3, <3>1 DEF TailHolds, NextHolds, SameTail, AfterTail
    <3> QED
      BY <2>1, <2>3, <3>2, SameNode DEF Giving
  <2>4. CASE pc'[p] = "link" /\ Same(m_tail_ptr, tail_ptr[p]) /\ next_ptr[p].ptr = NULL
    <3>1. tail_ptr[p].tag <= m_tail_ptr.tag /\ m_tail_ptr.tag - tail_ptr[p].tag < Tags
      BY <1>1, <2>1 DEF TailHolds, AfterTail, TagsTell
    <3>2. SameTail(p) /\ n = m_tail_ptr.ptr
      BY <1>1, <1>2, <2>4, <3>1, SamePointer DEF SameTail
    <3>3. n \in On
      BY <3>2, Facts
    <3>4. next_ptr[p].tag = next[n].tag => next[n].ptr = NULL
      BY <1>1, <2>1, <2>4, <3>2 DEF NextHolds
    <3>5. On' = On
      <4>1. m_head_ptr' = m_head_ptr
        BY <1>6 DEF CheckTail, memory
      <4> QED
        BY <2>1, <4>1, SameChain
    <3>6. TailHolds(p)'
      BY <1>1, <2>1, <2>4, SameCopy DEF AfterTail
    <3> QED
      BY <1>1, <2>1, <2>4, <3>3, <3>4, <3>5, <3>6 DEF NextHolds, Giving
  <2> QED
    BY <2>1, <2>2, <2>3, <2>4
<1>7. CASE Link(p)
  <2>1. /\ pc[p] = "link" /\ UNCHANGED <<data, node_ptr, m_tail_ptr, tail_ptr>>
    BY <1>7 DEF Link
  <2>2. CASE next' = next /\ t' = t /\ Goto(p, "tail")
    BY <1>1, <2>1, <2>2, SameCopy, SameNode DEF AfterTail, Giving
  <2>3. ASSUME t' = [t EXCEPT ![p] = NoItem], Goto(p, "swing"), NEW w \in Tagged, n \in Nodes,
               node_ptr[p] \in Nodes, w.ptr = node_ptr[p], next' = [next EXCEPT ![n] = w]
        PROVE  TailHolds(p)' /\ NextHolds(p)'
    <3>1. pc'[p] = "swing" /\ t'[p] = NoItem /\ next'[n].ptr = node_ptr[p]
      BY <1>1, <1>2, <2>3
    <3>2. TailHolds(p)'
      BY <1>1, <2>1, <3>1, SameCopy DEF AfterTail
    <3> QED
      BY <2>1, <2>3, <3>1, <3>2 DEF NextHolds, Giving
  <2> QED
    BY <1>7, <2>2, <2>3, LinkLinks
<1>8. CASE Swing(p)
  <2>1. pc[p] = "swing" /\ pc'[p] = "out" /\ t' = t
    BY <1>1, <1>8 DEF Swing
  <2>2. t'[p] = NoItem
    BY <1>1, <2>1 DEF NextHolds, Giving
  <2> QED
    BY <1>1, <2>1, <2>2, SameCopy DEF NextHolds, AfterTail, Giving
<1>9. CASE Help(p, "tail")
  <2>1. pc[p] = "help" /\ pc'[p] = "tail" /\ UNCHANGED <<next, data, node_ptr, t>>
    BY <1>1, <1>9 DEF Help, locals
  <2> QED
    BY <1>1, <2>1, SameCopy, SameNode DEF AfterTail, Giving
<1> QED
  BY <1>4, <1>5, <1>6, <1>7, <1>8, <1>9 DEF Pushing

\* A place in which a consumer needs to know nothing of the head.
LEMMA NothingOfHead ==
    ASSUME NEW c \in Consumers, pc'[c] \in {"out", "head", "help"}
    PROVE  HeadHolds(c)'
BY DEF HeadHolds, AfterHead

LEMMA PoppingSound ==
    ASSUME QueueAssumption, TagsTell, Inv, NEW c \in Consumers, Popping(c)
    PROVE  Sound(c)'
<1>1. /\ c \in Threads /\ c \notin Producers /\ TailHolds(c) /\ HeadHolds(c)
      /\ \A l : Goto(c, l) => pc'[c] = l
  BY DEF Threads, QueueAssumption, Inv, Copies, Sound, Labelled, Goto
<1>2. /\ next \in [Nodes -> Tagged] /\ tail_ptr \in [Threads -> Tagged] /\ next_ptr \in [Threads -> Tagged]
      /\ head_ptr \in [Consumers -> Tagged] /\ t \in [Threads -> Items \cup {NoItem}]
      /\ m_tail_ptr \in Tagged /\ m_head_ptr \in Tagged /\ sawEmpty \in [Consumers -> BOOLEAN]
  BY DEF Inv, Typed
<1> DEFINE n == head_ptr[c].ptr
<1>3. SUFFICES TailHolds(c)' /\ HeadHolds(c)'
  BY <1>1 DEF Sound
<1>4. CASE ReadHead(c)
  <2>1. pc'[c] = "tail" /\ head_ptr'[c] = m_head_ptr /\ UNCHANGED m_head_ptr
    BY <1>1, <1>2, <1>4 DEF ReadHead, memory
  <2>2. m_head_ptr.ptr \in Nodes /\ m_head_ptr.tag <= m_head_ptr.tag
    BY Facts
  <2> QED
    BY <1>1, <2>1, <2>2, SameCopy DEF HeadHolds, AfterTail
<1>5. CASE ReadTail(c)
  <2>1. /\ pc[c] = "tail" /\ pc'[c] = "next" /\ tail_ptr'[c] = m_tail_ptr
        /\ UNCHANGED <<m_head_ptr, m_tail_ptr, head_ptr>>
    BY <1>1, <1>2, <1>5 DEF ReadTail, memory
  <2>2. m_tail_ptr.ptr \in Nodes /\ m_tail_ptr.tag <= m_tail_ptr.tag
    BY Facts
  <2>3. TailHolds(c)'
    BY <2>1, <2>2 DEF TailHolds
  <2> QED
    BY <1>1, <2>1, <2>3 DEF HeadHolds, AfterHead, SameHead
<1>6. CASE ReadNextOfHead(c)
  <2>1. /\ pc[c] = "next" /\ pc'[c] = "check"
        /\ UNCHANGED <<next, m_head_ptr, m_tail_ptr, head_ptr, tail_ptr>>
    BY <1>1, <1>6 DEF ReadNextOfHead, memory
  <2>2. next_ptr'[c] = next[n]
    BY <1>1, <1>2, <1>6 DEF ReadNextOfHead
  <2>3. sawEmpty'[c] <=> queue = <<>>
    <3> DEFINE b == queue = <<>>
    <3>1. sawEmpty' = [sawEmpty EXCEPT ![c] = b]
      BY <1>6 DEF ReadNextOfHead
    <3> HIDE DEF b
    <3>2. sawEmpty'[c] = b
      BY <1>2, <3>1
    <3> QED
      BY <3>2 DEF b
  <2>4. TailHolds(c)'
    BY <1>1, <2>1, SameCopy DEF AfterTail
  <2>5. SameHead(c) => n = m_head_ptr.ptr
    BY <1>1, <2>1 DEF HeadHolds, AfterHead
  <2>6. SameHead(c) /\ tail_ptr[c].ptr # n => m_tail_ptr.ptr # m_head_ptr.ptr
    BY <1>1, <2>1 DEF HeadHolds
  <2>7. SameHead(c) => /\ tail_ptr[c].ptr # n => next[n].ptr # NULL
                       /\ next[n].ptr = NULL => sawEmpty'[c]
    BY <2>3, <2>5, <2>6, Alone
  <2> QED
    BY <1>1, <2>1, <2>2, <2>4, <2>6, <2>7 DEF HeadHolds, AfterHead, SameHead
<1>7. CASE CheckHead(c)
  <2>1. /\ pc[c] = "check"
        /\ UNCHANGED <<next, data, m_head_ptr, m_tail_ptr, head_ptr, tail_ptr, next_ptr, sawEmpty, t>>
        /\ pc'[c] = IF ~Same(m_head_ptr, head_ptr[c]) THEN "head"
                    ELSE IF head_ptr[c].ptr # tail_ptr[c].ptr THEN "value"
                    ELSE IF next_ptr[c].ptr = NULL THEN "empty" ELSE "help"
    BY <1>1, <1>7 DEF CheckHead, memory, locals
  <2>2. CASE ~Same(m_head_ptr, head_ptr[c])
    BY <1>1, <2>1, <2>2, SameCopy, NothingOfHead DEF AfterTail
  <2>3. CASE Same(m_head_ptr, head_ptr[c])
    <3>1. head_ptr[c].tag <= m_head_ptr.tag /\ m_head_ptr.tag - head_ptr[c].tag < Tags
      BY <1>1, <2>1 DEF HeadHolds, AfterHead, TagsTell
    <3>2. SameHead(c) /\ n = m_head_ptr.ptr
      BY <1>1, <1>2, <2>3, <3>1, SamePointer DEF SameHead
    <3>3. /\ next_ptr[c].ptr # NULL => next_ptr[c].ptr = next[n].ptr /\ next_ptr[c].ptr \in Nodes
          /\ tail_ptr[c].ptr # n => next_ptr[c].ptr # NULL /\ m_tail_ptr.ptr # m_head_ptr.ptr
          /\ next_ptr[c].ptr = NULL => sawEmpty[c]
      <4>1. next_ptr[c].ptr # NULL => next_ptr[c].ptr \in Nodes
        BY <1>1, <1>2 DEF Tagged
      <4> QED
        BY <1>1, <2>1, <3>2, <4>1 DEF HeadHolds
    <3>4. CASE n # tail_ptr[c].ptr
      <4>1. pc'[c] = "value"
        BY <2>1, <2>3, <3>4
      <4>2. TailHolds(c)'
        BY <1>1, <2>1, <4>1, SameCopy DEF AfterTail
      <4> QED
        BY <1>1, <2>1, <3>2, <3>3, <3>4, <4>1, <4>2 DEF HeadHolds, AfterHead, SameHead
    <3>5. CASE n = tail_ptr[c].ptr /\ next_ptr[c].ptr = NULL
      <4>1. pc'[c] = "empty"
        BY <2>1, <2>3, <3>5
      <4> QED
        BY <1>1, <2>1, <3>3, <3>5, <4>1, SameCopy DEF HeadHolds, AfterHead, AfterTail
    <3>6. CASE n = tail_ptr[c].ptr /\ next_ptr[c].ptr # NULL
      <4>1. pc'[c] = "help"
        BY <2>1, <2>3, <3>6
      <4>2. TailHolds(c)'
        BY <1>1, <2>1, <3>3, <3>6, <4>1 DEF TailHolds, SameTail, AfterTail
      <4> QED
        BY <4>1, <4>2, NothingOfHead
    <3> QED
      BY <3>4, <3>5, <3>6
  <2> QED
    BY <2>2, <2>3
<1>8. CASE Help(c, "head")
  <2>1. pc'[c] = "head"
    BY <1>1, <1>8 DEF Help
  <2> QED
    BY <1>1, <2>1, SameCopy, NothingOfHead DEF AfterTail
<1>9. CASE ReturnEmpty(c) \/ Destroy(c)
  <2>1. pc'[c] = "out"
    BY <1>1, <1>9 DEF ReturnEmpty, Destroy
  <2> QED
    BY <1>1, <2>1, SameCopy, NothingOfHead DEF AfterTail
<1>10. CASE ReadValue(c)
  <2>1. /\ pc[c] = "value" /\ pc'[c] = "swap" /\ t'[c] = data[next_ptr[c].ptr]
        /\ UNCHANGED <<next, data, m_head_ptr, m_tail_ptr, head_ptr, tail_ptr, next_ptr>>
    BY <1>1, <1>2, <1>10 DEF ReadValue, memory
  <2>2. TailHolds(c)'
    BY <1>1, <2>1, SameCopy DEF AfterTail
  <2> QED
    BY <1>1, <2>1, <2>2 DEF HeadHolds, AfterHead, SameHead
<1>11. CASE SwapHead(c)
  <2>1. CASE Goto(c, "head")
    <3>1. pc'[c] = "head"
      BY <1>1, <2>1
    <3> QED
      BY <1>1, <3>1, SameCopy, NothingOfHead DEF AfterTail
  <2>2. CASE /\ Goto(c, "destroy") /\ t[c] = data[next_ptr[c].ptr]
             /\ next_ptr[c].ptr \in On /\ next_ptr[c].ptr # m_head_ptr.ptr
    <3>1. pc'[c] = "destroy" /\ t' = t
      BY <1>1, <1>11, <2>2 DEF SwapHead, locals
    <3>2. t[c] \in Items
      BY <2>2 DEF Inv, Placed
    <3> QED
      BY <1>1, <3>1, <3>2, SameCopy DEF HeadHolds, AfterHead, AfterTail
  <2> QED
    BY <1>11, <2>1, <2>2, SwapMoves
<1> QED
  BY <1>4, <1>5, <1>6, <1>7, <1>8, <1>9, <1>10, <1>11 DEF Popping

LEMMA CopiesKept ==
    ASSUME QueueAssumption, KeepsTags, TagsTell, Inv, NEW x \in Threads, Step(x)
    PROVE  Copies'
<1>1. Typed' /\ Onward /\ Untouched(x)
  BY TypedKept, ListsKept
<1>2. Sound(x)'
  BY PushSound, PushingSound, PoppingSound DEF Step
<1>3. ASSUME NEW y \in Threads, y # x PROVE Sound(y)'
  BY <1>1, <1>3, OthersSound
<1>4. Threads' = Threads
  BY DEF Threads
<1> QED
  BY <1>2, <1>3, <1>4 DEF Copies

-----------------------------------------------------------------------------
(* The invariant *)

LEMMA Kept == ASSUME QueueAssumption, KeepsTags, TagsTell, Inv, [Next]_vars PROVE Inv'
<1>1. CASE UNCHANGED vars
  <2>1. /\ UNCHANGED <<m_head_ptr, m_tail_ptr, next, data, m_free_list, fresh>>
        /\ UNCHANGED <<pc, node_ptr, head_ptr, tail_ptr, next_ptr, t, sawEmpty>>
    BY <1>1 DEF vars, memory, locals
  <2>2. Typed' /\ Labelled'
    BY <2>1 DEF Inv, Typed, Labelled
  <2>3. Chain' = Chain /\ On' = On /\ Links' = Links /\ Free' = Free
    BY <2>1, SameChain DEF Links, Free
  <2>4. \A x \in Threads : Held(x)' = Held(x)
    BY <2>1 DEF Held
  <2>5. Lists'
    <3>1. Lists
      BY DEF Inv
    <3>2. Chained(Chain, m_head_ptr.ptr, Links)'
      BY <2>1, <2>3, <3>1 DEF Lists
    <3> QED
      BY <2>1, <2>3, <2>4, <3>1, <3>2 DEF Lists
  <2>6. Placed'
    BY <2>1, <2>3 DEF Inv, Placed
  <2>7. ASSUME NEW x \in Threads PROVE Sound(x)'
    <3>1. Sound(x)
      BY DEF Inv, Copies
    <3>2. TailHolds(x)'
      BY <2>1, <3>1 DEF Sound, TailHolds, SameTail
    <3>3. x \in Producers => NextHolds(x)'
      BY <2>1, <2>3, <3>1 DEF Sound, NextHolds, SameTail
    <3>4. x \in Consumers => HeadHolds(x)'
      BY <2>1, <3>1 DEF Sound, HeadHolds, SameHead
    <3> QED
      BY <3>2, <3>3, <3>4 DEF Sound
  <2>8. Threads' = Threads
    BY DEF Threads
  <2> QED
    BY <2>2, <2>5, <2>6, <2>7, <2>8 DEF Inv, Copies
<1>2. ASSUME NEW x \in Threads, Step(x) PROVE Inv'
  BY <1>2, TypedKept, LabelsKept, ListsKept, CopiesKept DEF Inv
<1> QED
  BY <1>1, <1>2, Steps

\* At first the queue is its dummy.
LEMMA Initially == ASSUME QueueAssumption, Init PROVE Inv /\ Linked = <<>>
<1>1. First \in Nodes /\ NULL \notin Nodes
  BY DEF First, QueueAssumption
<1>2. Null \in Tagged /\ [ptr |-> First, tag |-> 0] \in Tagged /\ Null.ptr = NULL
  BY <1>1 DEF Null, Tagged
<1>3. Typed
  BY <1>1, <1>2 DEF Init, Typed
<1>4. /\ \A x \in Threads : pc[x] = "out"
      /\ Labelled
  BY DEF Init, Labelled, InPush, InPop, Threads
<1>5. m_head_ptr.ptr = First /\ m_tail_ptr.ptr = First /\ m_free_list = <<>> /\ fresh = Nodes \ {First}
  BY DEF Init
<1>6. Links = [n \in Nodes |-> NULL]
  BY <1>2 DEF Init, Links
<1> DEFINE c == <<First>>
<1>7. c \in Seq(Nodes) /\ Len(c) = 1 /\ c[1] = First /\ c # <<>> /\ DOMAIN c = 1..1 /\ Tail(c) = <<>>
  BY <1>1
<1>8. ToSet(c) = {First}
  BY <1>7 DEF ToSet
<1> HIDE DEF c
<1>9. Chained(c, First, Links)
  BY <1>1, <1>6, <1>7 DEF Chained, IsInjective
<1>10. Chain = c
  BY <1>5, <1>9, WalkFinds DEF Chain
<1>11. On = {First} /\ Chained(Chain, m_head_ptr.ptr, Links) /\ Linked = <<>>
  BY <1>5, <1>7, <1>8, <1>9, <1>10 DEF On, Linked
<1>12. Free = {} /\ IsInjective(m_free_list)
  BY <1>5 DEF Free, ToSet, IsInjective
<1>13. \A x \in Threads : Held(x) = {}
  BY <1>4 DEF Held
<1>14. Lists
  BY <1>1, <1>5, <1>11, <1>12, <1>13 DEF Lists
<1>15. ASSUME NEW x \in Threads PROVE Sound(x)
  <2>1. pc[x] = "out" /\ t[x] = NoItem
    BY <1>4 DEF Init
  <2> QED
    BY <2>1 DEF Sound, TailHolds, NextHolds, HeadHolds, AfterTail, AfterHead, Giving
<1>16. Placed
  BY <1>5, <1>11 DEF Placed
<1> QED
  BY <1>3, <1>4, <1>11, <1>14, <1>15, <1>16 DEF Inv, Copies

LEMMA Invariant == ASSUME QueueAssumption, KeepsTags PROVE Spec /\ []TagsTell => []Inv
<1>1. Init => Inv
  BY Initially
<1>2. Inv /\ TagsTell /\ [Next]_vars => Inv'
  BY Kept
<1> QED
  BY <1>1, <1>2, PTL DEF Spec

\* EmptyIsTrue: pop() says "empty" only when the queue was empty when it read the next pointer
\* of the head, for any number of threads and nodes, as long as the tags tell the pointers apart.
THEOREM EmptyIsNeverMistaken == ASSUME QueueAssumption, KeepsTags PROVE Spec /\ []TagsTell => []EmptyIsTrue
<1>1. Inv => EmptyIsTrue
  BY DEF Inv, Copies, Sound, HeadHolds, EmptyIsTrue, Threads
<1> QED
  BY <1>1, Invariant, PTL

-----------------------------------------------------------------------------
(* A node is in one place *)

\* Two sequences without repetitions, of different nodes, one after the other.
LEMMA Concatenated ==
    ASSUME NEW a \in Seq(Nodes), NEW b \in Seq(Nodes), IsInjective(a), IsInjective(b),
           ToSet(a) \cap ToSet(b) = {}
    PROVE  IsInjective(a \o b) /\ ToSet(a \o b) = ToSet(a) \cup ToSet(b)
<1> DEFINE c == a \o b
<1>1. Len(a) \in Nat /\ Len(b) \in Nat
  OBVIOUS
<1>2. /\ c \in Seq(Nodes) /\ Len(c) = Len(a) + Len(b)
      /\ \A i \in 1..Len(a) : c[i] = a[i]
      /\ \A i \in Len(a) + 1..Len(a) + Len(b) : c[i] = b[i - Len(a)]
  BY <1>1
<1> HIDE DEF c
<1>3. DOMAIN a = 1..Len(a) /\ DOMAIN b = 1..Len(b) /\ DOMAIN c = 1..Len(a) + Len(b)
  BY <1>2
<1>4. \A i \in 1..Len(a) + Len(b) : i \in 1..Len(a) \/ i \in Len(a) + 1..Len(a) + Len(b)
  BY <1>1
<1>5. \A i \in Len(a) + 1..Len(a) + Len(b) : i - Len(a) \in 1..Len(b)
  BY <1>1
<1>6. \A i \in 1..Len(b) : i + Len(a) \in Len(a) + 1..Len(a) + Len(b) /\ (i + Len(a)) - Len(a) = i
                           /\ i + Len(a) \in 1..Len(a) + Len(b)
  BY <1>1
<1>7. \A i \in 1..Len(a) : i \in 1..Len(a) + Len(b) /\ a[i] \in ToSet(a)
  BY <1>1, <1>3 DEF ToSet
<1>8. \A i \in 1..Len(b) : b[i] \in ToSet(b)
  BY <1>3 DEF ToSet
<1>9. IsInjective(c)
  <2> SUFFICES ASSUME NEW i \in DOMAIN c, NEW j \in DOMAIN c, c[i] = c[j] PROVE i = j
    BY DEF IsInjective
  <2>1. CASE i \in 1..Len(a) /\ j \in 1..Len(a)
    BY <1>2, <1>3, <2>1 DEF IsInjective
  <2>2. CASE i \in 1..Len(a) /\ j \in Len(a) + 1..Len(a) + Len(b)
    BY <1>2, <1>5, <1>7, <1>8, <2>2
  <2>3. CASE j \in 1..Len(a) /\ i \in Len(a) + 1..Len(a) + Len(b)
    BY <1>2, <1>5, <1>7, <1>8, <2>3
  <2>4. CASE i \in Len(a) + 1..Len(a) + Len(b) /\ j \in Len(a) + 1..Len(a) + Len(b)
    <3>1. i - Len(a) \in DOMAIN b /\ j - Len(a) \in DOMAIN b /\ b[i - Len(a)] = b[j - Len(a)]
      BY <1>2, <1>3, <1>5, <2>4
    <3>2. i - Len(a) = j - Len(a)
      BY <3>1 DEF IsInjective
    <3> QED
      BY <1>1, <2>4, <3>2
  <2> QED
    BY <1>3, <1>4, <2>1, <2>2, <2>3, <2>4
<1>10. ASSUME NEW n \in ToSet(c) PROVE n \in ToSet(a) \cup ToSet(b)
  <2>1. PICK i \in 1..Len(a) + Len(b) : c[i] = n
    BY <1>3 DEF ToSet
  <2> QED
    BY <1>2, <1>4, <1>5, <1>7, <1>8, <2>1
<1>11. ASSUME NEW n \in ToSet(a) PROVE n \in ToSet(c)
  BY <1>2, <1>3, <1>7 DEF ToSet
<1>12. ASSUME NEW n \in ToSet(b) PROVE n \in ToSet(c)
  <2>1. PICK i \in 1..Len(b) : b[i] = n
    BY <1>3 DEF ToSet
  <2>2. c[i + Len(a)] = n /\ i + Len(a) \in DOMAIN c
    BY <1>2, <1>3, <1>6, <2>1
  <2> QED
    BY <2>2 DEF ToSet
<1>13. ToSet(c) = ToSet(a) \cup ToSet(b)
  BY <1>10, <1>11, <1>12
<1> QED
  BY <1>9, <1>13 DEF c

LEMMA InvNodesApart == ASSUME QueueAssumption, Inv PROVE NodesApart
<1> DEFINE a == Chain
           b == m_free_list
<1>1. /\ a \in Seq(Nodes) /\ b \in Seq(Nodes) /\ IsInjective(a) /\ IsInjective(b)
      /\ ToSet(a) \cap ToSet(b) = {}
  BY DEF Inv, Typed, Lists, Chained, On, Free
<1>2. IsInjective(a \o b) /\ ToSet(a \o b) = On \cup Free
  <2> HIDE DEF a, b
  <2>1. IsInjective(a \o b) /\ ToSet(a \o b) = ToSet(a) \cup ToSet(b)
    BY <1>1, Concatenated
  <2> QED
    BY <2>1 DEF a, b, On, Free
<1>3. Lists
  BY DEF Inv
<1>4. /\ (On \cup Free) \cap fresh = {}
      /\ \A x \in Threads : Held(x) \cap ((On \cup Free) \cup fresh) = {}
      /\ \A x, y \in Threads : x # y => Held(x) \cap Held(y) = {}
      /\ m_tail_ptr.ptr \in ToSet(Chain)
  BY <1>3 DEF Lists, On
<1> QED
  BY <1>2, <1>4 DEF NodesApart

\* NodesApart: at every moment a node is linked, free, unused or in the hands of one thread, and
\* the tail is a linked node, for any number of threads and nodes, as long as the tags tell the
\* pointers apart.
THEOREM QueueNodesApart == ASSUME QueueAssumption, KeepsTags PROVE Spec /\ []TagsTell => []NodesApart
  BY Invariant, InvNodesApart, PTL

-----------------------------------------------------------------------------
(* The queue implements Fifo *)

Offered == [p \in Producers |-> t[p]]
Taken == [c \in Consumers |-> IF pc[c] = "destroy" THEN t[c] ELSE NoItem]

\* The nodes that have the items of the queue.
LEMMA LinkedNodes ==
    ASSUME QueueAssumption, Inv
    PROVE  /\ Linked \in Seq(Nodes) /\ ToSet(Linked) \subseteq On
           /\ next[m_head_ptr.ptr].ptr # NULL => Linked # <<>> /\ Head(Linked) = next[m_head_ptr.ptr].ptr
<1> DEFINE c == Chain
           h == m_head_ptr.ptr
<1>1. /\ Chained(c, h, Links) /\ Links \in [Nodes -> Nodes \cup {NULL}]
      /\ h # NULL /\ Links[h] = next[h].ptr
  BY Facts
<1> HIDE DEF c, h
<1>2. Chained(Tail(c), Links[h], Links) /\ ToSet(Tail(c)) = ToSet(c) \ {h}
  BY <1>1, LinkedBehind
<1>3. Tail(c) \in Seq(Nodes) /\ ToSet(Tail(c)) \subseteq ToSet(c)
  BY <1>2 DEF Chained
<1>4. Links[h] # NULL => Tail(c) # <<>> /\ Head(Tail(c)) = Links[h]
  <2>1. (Tail(c) = <<>> => Links[h] = NULL) /\ (Tail(c) # <<>> => Links[h] = Tail(c)[1])
    BY <1>2 DEF Chained
  <2>2. Tail(c) # <<>> => Head(Tail(c)) = Tail(c)[1]
    BY <1>3
  <2> QED
    BY <2>1, <2>2
<1> QED
  BY <1>1, <1>3, <1>4 DEF Linked, On, c, h

\* The items are those of the nodes.
LEMMA SameQueue ==
    ASSUME QueueAssumption, Inv, Chain' = Chain, \A n \in On : data'[n] = data[n]
    PROVE  queue' = queue
<1> DEFINE c == Linked
<1>1. Linked' = c
  BY DEF Linked
<1>2. c \in Seq(Nodes) /\ \A n \in ToSet(c) : data'[n] = data[n]
  BY LinkedNodes
<1> HIDE DEF c
<1>3. \A i \in DOMAIN c : data'[c[i]] = data[c[i]]
  BY <1>2, Elements
<1>4. queue = [i \in DOMAIN c |-> data[c[i]]]
  BY DEF queue, c
<1>5. queue' = [i \in DOMAIN c |-> data'[c[i]]]
  BY <1>1 DEF queue
<1> QED
  BY <1>3, <1>4, <1>5

\* The link of a node behind the last one puts its item at the end.
LEMMA ItemAtEnd ==
    ASSUME QueueAssumption, Inv, NEW n \in Nodes, Chain' = Append(Chain, n), data' = data
    PROVE  queue' = Append(queue, data[n])
<1> DEFINE c == Linked
           a == Chain
<1>1. c \in Seq(Nodes) /\ Len(c) \in Nat /\ DOMAIN c = 1..Len(c)
  BY LinkedNodes
<1>2. data \in [Nodes -> Items \cup {NoItem}]
  BY DEF Inv, Typed
<1>3. Linked' = Append(c, n)
  <2>1. a \in Seq(Nodes) /\ a # <<>> /\ c = Tail(a)
    BY DEF Inv, Lists, Chained, Linked
  <2>2. Linked' = Tail(Append(a, n))
    BY DEF Linked
  <2> HIDE DEF a, c
  <2>3. Len(a) \in Nat /\ Len(a) >= 1
    BY <2>1
  <2>4. /\ Tail(Append(a, n)) \in Seq(Nodes) /\ Append(Tail(a), n) \in Seq(Nodes)
        /\ Len(Tail(Append(a, n))) = Len(a) /\ Len(Append(Tail(a), n)) = Len(a)
    BY <2>1, <2>3
  <2>5. ASSUME NEW i \in 1..Len(a) PROVE Tail(Append(a, n))[i] = Append(Tail(a), n)[i]
    <3>1. Tail(Append(a, n))[i] = Append(a, n)[i + 1]
      BY <2>1, <2>3
    <3>2. CASE i = Len(a)
      BY <2>1, <2>3, <3>1, <3>2
    <3>3. CASE i # Len(a)
      <4>1. i \in 1..Len(a) - 1 /\ i + 1 \in 1..Len(a)
        BY <2>3, <3>3
      <4>2. Append(a, n)[i + 1] = a[i + 1]
        BY <2>1, <4>1
      <4>3. Append(Tail(a), n)[i] = a[i + 1]
        BY <2>1, <2>3, <4>1
      <4> QED
        BY <3>1, <4>2, <4>3
    <3> QED
      BY <3>2, <3>3
  <2>6. Tail(Append(a, n)) = Append(Tail(a), n)
    BY <2>4, <2>5, SameSequence
  <2> QED
    BY <2>1, <2>2, <2>6
<1>4. queue = [i \in DOMAIN c |-> data[c[i]]] /\ queue' = [i \in DOMAIN Append(c, n) |-> data[Append(c, n)[i]]]
  BY <1>3 DEF queue
<1> HIDE DEF c
<1> DEFINE d == Append(c, n)
           V == Items \cup {NoItem}
           p == [i \in DOMAIN c |-> data[c[i]]]
           q == [i \in DOMAIN d |-> data[d[i]]]
<1>5. /\ d \in Seq(Nodes) /\ Len(d) = Len(c) + 1 /\ d[Len(c) + 1] = n
      /\ \A i \in 1..Len(c) : d[i] = c[i]
  BY <1>1
<1>6. DOMAIN d = 1..Len(c) + 1
  BY <1>1, <1>5
<1> HIDE DEF d
<1>7. p \in Seq(V) /\ Len(p) = Len(c) /\ \A i \in 1..Len(c) : p[i] = data[c[i]]
  <2>1. p \in [1..Len(c) -> V]
    BY <1>1, <1>2, Elements
  <2> QED
    BY <1>1, <2>1
<1>8. q \in Seq(V) /\ Len(q) = Len(c) + 1 /\ \A i \in 1..Len(c) + 1 : q[i] = data[d[i]]
  <2>1. q \in [1..Len(c) + 1 -> V]
    BY <1>2, <1>5, <1>6, Elements
  <2> QED
    BY <1>1, <1>6, <2>1
<1> HIDE DEF p, q
<1>9. data[n] \in V
  BY <1>2
<1> HIDE DEF V
<1> DEFINE r == Append(p, data[n])
<1>10. r \in Seq(V) /\ Len(r) = Len(c) + 1 /\ r[Len(c) + 1] = data[n] /\ \A i \in 1..Len(c) : r[i] = p[i]
  BY <1>1, <1>7, <1>9
<1> HIDE DEF r
<1>11. \A i \in 1..Len(q) : q[i] = r[i]
  <2> SUFFICES ASSUME NEW i \in 1..Len(c) + 1 PROVE q[i] = r[i]
    BY <1>8
  <2>1. CASE i = Len(c) + 1
    BY <1>5, <1>8, <1>10, <2>1
  <2>2. CASE i # Len(c) + 1
    <3>1. i \in 1..Len(c)
      BY <1>1, <2>2
    <3> QED
      BY <1>5, <1>7, <1>8, <1>10, <3>1
  <2> QED
    BY <2>1, <2>2
<1>12. q = r
  BY <1>8, <1>10, <1>11, SameSequence
<1> QED
  BY <1>4, <1>12 DEF d, p, q, r

\* The swap of the head takes the first item off.
LEMMA ItemOffFront ==
    ASSUME QueueAssumption, Inv, next[m_head_ptr.ptr].ptr # NULL, Chain' = Tail(Chain), data' = data
    PROVE  queue # <<>> /\ Head(queue) = data[next[m_head_ptr.ptr].ptr] /\ queue' = Tail(queue)
<1> DEFINE c == Linked
<1>1. /\ c \in Seq(Nodes) /\ Len(c) \in Nat /\ DOMAIN c = 1..Len(c) /\ c # <<>>
      /\ Head(c) = next[m_head_ptr.ptr].ptr
  BY LinkedNodes
<1>2. data \in [Nodes -> Items \cup {NoItem}]
  BY DEF Inv, Typed
<1>3. queue = [i \in DOMAIN c |-> data[c[i]]] /\ queue' = [i \in DOMAIN Tail(c) |-> data[Tail(c)[i]]]
  BY DEF queue, Linked
<1> HIDE DEF c
<1> DEFINE d == Tail(c)
           V == Items \cup {NoItem}
           p == [i \in DOMAIN c |-> data[c[i]]]
           q == [i \in DOMAIN d |-> data[d[i]]]
<1>4. /\ d \in Seq(Nodes) /\ Len(d) = Len(c) - 1 /\ DOMAIN d = 1..Len(c) - 1 /\ Head(c) = c[1]
      /\ Len(c) - 1 \in Nat /\ \A i \in 1..Len(c) - 1 : d[i] = c[i + 1] /\ i + 1 \in 1..Len(c)
  BY <1>1
<1> HIDE DEF d
<1>5. p \in Seq(V) /\ Len(p) = Len(c) /\ \A i \in 1..Len(c) : p[i] = data[c[i]]
  <2>1. p \in [1..Len(c) -> V]
    BY <1>1, <1>2, Elements
  <2> QED
    BY <1>1, <2>1
<1>6. q \in Seq(V) /\ Len(q) = Len(c) - 1 /\ \A i \in 1..Len(c) - 1 : q[i] = data[d[i]]
  <2>1. q \in [1..Len(c) - 1 -> V]
    BY <1>2, <1>4, Elements
  <2> QED
    BY <1>1, <1>4, <2>1
<1> HIDE DEF p, q, V
<1>7. p # <<>> /\ Head(p) = data[Head(c)] /\ 1 \in 1..Len(c)
  BY <1>1, <1>4, <1>5
<1>8. Tail(p) \in Seq(V) /\ Len(Tail(p)) = Len(c) - 1 /\ \A i \in 1..Len(c) - 1 : Tail(p)[i] = p[i + 1]
  BY <1>1, <1>5, <1>7
<1>9. \A i \in 1..Len(q) : q[i] = Tail(p)[i]
  <2> SUFFICES ASSUME NEW i \in 1..Len(c) - 1 PROVE q[i] = Tail(p)[i]
    BY <1>6
  <2>1. q[i] = data[c[i + 1]] /\ i + 1 \in 1..Len(c)
    BY <1>4, <1>6
  <2>2. p[i + 1] = data[c[i + 1]]
    BY <1>5, <2>1
  <2>3. Tail(p)[i] = p[i + 1]
    BY <1>8
  <2> QED
    BY <2>1, <2>2, <2>3
<1>10. q = Tail(p)
  BY <1>6, <1>8, <1>9, SameSequence
<1> QED
  BY <1>1, <1>3, <1>7, <1>10 DEF c, d, p, q

\* A step of a producer changes nothing that is taken, and its own item at most; a step of a
\* consumer nothing that is offered.
LEMMA AbstractOthers ==
    ASSUME QueueAssumption, Inv, NEW x \in Threads, Step(x)
    PROVE  /\ x \in Producers => Taken' = Taken /\ Offered' = [Offered EXCEPT ![x] = t'[x]]
           /\ x \in Consumers => Offered' = Offered /\ Taken' = [Taken EXCEPT ![x] = Taken'[x]]
<1>1. \A y \in Threads : y # x => pc'[y] = pc[y] /\ t'[y] = t[y]
  BY OtherThreads
<1>2. /\ \A p \in Producers : p \in Threads /\ p \notin Consumers
      /\ \A c \in Consumers : c \in Threads /\ c \notin Producers
  BY DEF Threads, QueueAssumption
<1>3. \A y \in Producers : y # x => t'[y] = t[y]
  BY <1>1, <1>2
<1>4. \A y \in Consumers : y # x => Taken'[y] = Taken[y]
  BY <1>1, <1>2 DEF Taken
<1>5. /\ Offered = [y \in Producers |-> t[y]] /\ Offered' = [y \in Producers |-> t'[y]]
      /\ Taken = [y \in Consumers |-> Taken[y]] /\ Taken' = [y \in Consumers |-> Taken'[y]]
  BY DEF Offered, Taken
<1>6. ASSUME x \in Producers PROVE Taken' = Taken /\ Offered' = [Offered EXCEPT ![x] = t'[x]]
  <2>1. \A y \in Consumers : Taken'[y] = Taken[y]
    BY <1>2, <1>4, <1>6
  <2> HIDE DEF Offered, Taken
  <2> QED
    BY <1>3, <1>5, <1>6, <2>1
<1>7. ASSUME x \in Consumers PROVE Offered' = Offered /\ Taken' = [Taken EXCEPT ![x] = Taken'[x]]
  <2>1. \A y \in Producers : t'[y] = t[y]
    BY <1>2, <1>3, <1>7
  <2> HIDE DEF Offered, Taken
  <2> QED
    BY <1>4, <1>5, <1>7, <2>1
<1> QED
  BY <1>6, <1>7

LEMMA PushRefines ==
    ASSUME QueueAssumption, KeepsTags, Inv, NEW p \in Producers, Push(p), Step(p), p \in Threads
    PROVE  Abstract!Offer(p)
<1>1. PICK n \in Nodes, i \in Items, w \in Tagged :
        /\ n \notin On /\ next' = [next EXCEPT ![n] = w] /\ data' = [data EXCEPT ![n] = i]
        /\ t' = [t EXCEPT ![p] = i]
  BY PushTakes
<1>2. data \in [Nodes -> Items \cup {NoItem}] /\ t \in [Threads -> Items \cup {NoItem}]
      /\ pc[p] = "out" /\ m_head_ptr' = m_head_ptr
  BY DEF Inv, Typed, Push
<1>3. Chain' = Chain /\ \A m \in On : data'[m] = data[m]
  <2>1. On \subseteq Nodes
    BY Facts
  <2> QED
    BY <1>1, <1>2, <2>1, OutsideWritten
<1>4. queue' = queue
  BY <1>3, SameQueue
<1>5. t'[p] = i /\ t[p] = NoItem
  BY <1>1, <1>2 DEF Inv, Copies, Sound, NextHolds, Giving
<1>6. Offered[p] = NoItem /\ Taken' = Taken /\ Offered' = [Offered EXCEPT ![p] = i]
  BY <1>5, AbstractOthers DEF Offered
<1> QED
  BY <1>4, <1>6 DEF Abstract!Offer, Offered, Taken

LEMMA LinkRefines ==
    ASSUME QueueAssumption, TagsTell, Inv, NEW p \in Producers, Link(p), Step(p), p \in Threads
    PROVE  Abstract!Push(p) \/ UNCHANGED Abstract!vars
<1>1. pc[p] = "link" /\ UNCHANGED <<m_head_ptr, data>> /\ t \in [Threads -> Items \cup {NoItem}]
  BY DEF Link, Inv, Typed
<1>2. Taken' = Taken /\ Offered' = [Offered EXCEPT ![p] = t'[p]]
  BY AbstractOthers
<1>3. CASE next' = next /\ t' = t
  <2>1. queue' = queue
    BY <1>1, <1>3, SameChain, SameQueue
  <2>2. Offered' = Offered
    BY <1>3 DEF Offered
  <2> QED
    BY <1>2, <2>1, <2>2 DEF Abstract!vars, Offered, Taken
<1>4. ASSUME t' = [t EXCEPT ![p] = NoItem], NEW n \in On, NEW w \in Tagged, next[n].ptr = NULL,
             node_ptr[p] \in Nodes \ On, next[node_ptr[p]].ptr = NULL, w.ptr = node_ptr[p],
             next' = [next EXCEPT ![n] = w]
      PROVE  Abstract!Push(p)
  <2>1. Chain' = Append(Chain, node_ptr[p])
    BY <1>1, <1>4, LastLinked
  <2>2. queue' = Append(queue, data[node_ptr[p]])
    BY <1>1, <1>4, <2>1, ItemAtEnd
  <2>3. t[p] \in Items /\ data[node_ptr[p]] = t[p] /\ NoItem \notin Items
    BY <1>1 DEF Inv, Copies, Sound, NextHolds, Giving, QueueAssumption
  <2>4. Offered[p] = t[p] /\ t'[p] = NoItem
    BY <1>1, <1>4 DEF Offered
  <2>5. Offered[p] # NoItem /\ queue' = Append(queue, Offered[p]) /\ Offered' = [Offered EXCEPT ![p] = NoItem]
    BY <1>2, <2>2, <2>3, <2>4
  <2> QED
    BY <1>2, <2>5 DEF Abstract!Push, Offered, Taken
<1> QED
  BY <1>3, <1>4, LinkLinks

LEMMA SwapRefines ==
    ASSUME QueueAssumption, TagsTell, Inv, NEW c \in Consumers, SwapHead(c), Step(c), c \in Threads
    PROVE  Abstract!Pop(c) \/ UNCHANGED Abstract!vars
<1>1. /\ pc[c] = "swap" /\ UNCHANGED <<next, data, t>>
      /\ \A l : Goto(c, l) => pc'[c] = l
  BY DEF SwapHead, locals, Inv, Labelled, Goto
<1>2. Offered' = Offered /\ Taken' = [Taken EXCEPT ![c] = Taken'[c]]
  BY AbstractOthers
<1>3. /\ Taken[c] = NoItem
      /\ Taken'[c] = IF pc'[c] = "destroy" THEN t'[c] ELSE NoItem
  BY <1>1 DEF Taken
<1>4. CASE m_head_ptr' = m_head_ptr /\ Goto(c, "head")
  <2>1. queue' = queue
    BY <1>1, <1>4, SameChain, SameQueue
  <2>2. Taken'[c] = Taken[c]
    BY <1>1, <1>3, <1>4
  <2>3. Taken' = Taken
    <3>1. Taken = [y \in Consumers |-> Taken[y]]
      BY DEF Taken
    <3> HIDE DEF Taken
    <3> QED
      BY <1>2, <2>2, <3>1
  <2> QED
    BY <1>2, <2>1, <2>3 DEF Abstract!vars, Offered, Taken
<1>5. CASE /\ Goto(c, "destroy")
           /\ next_ptr[c].ptr = next[m_head_ptr.ptr].ptr /\ next_ptr[c].ptr \in On
           /\ t[c] = data[next_ptr[c].ptr] /\ m_head_ptr'.ptr = next_ptr[c].ptr
  <2>1. next[m_head_ptr.ptr].ptr # NULL
    BY <1>5, Facts
  <2>2. Chain' = Tail(Chain)
    BY <1>1, <1>5, HeadOn
  <2>3. queue # <<>> /\ Head(queue) = data[next[m_head_ptr.ptr].ptr] /\ queue' = Tail(queue)
    BY <1>1, <2>1, <2>2, ItemOffFront
  <2>4. Taken'[c] = Head(queue)
    BY <1>1, <1>3, <1>5, <2>3
  <2>5. Taken' = [Taken EXCEPT ![c] = Head(queue)]
    BY <1>2, <2>4
  <2> QED
    BY <1>2, <1>3, <2>3, <2>5 DEF Abstract!Pop, Offered, Taken
<1> QED
  BY <1>4, <1>5, SwapMoves

LEMMA DestroyRefines ==
    ASSUME QueueAssumption, Inv, NEW c \in Consumers, Destroy(c), Step(c), c \in Threads
    PROVE  Abstract!HandOver(c)
<1>1. pc[c] = "destroy" /\ pc'[c] = "out" /\ UNCHANGED <<m_head_ptr, data>>
  BY DEF Destroy, Inv, Labelled, Goto
<1>2. Offered' = Offered /\ Taken' = [Taken EXCEPT ![c] = Taken'[c]]
  BY AbstractOthers
<1>3. Chain' = Chain
  BY <1>1, DestroyFrees, OutsideWritten
<1>4. queue' = queue
  BY <1>1, <1>3, SameQueue
<1>5. Taken[c] = t[c] /\ Taken'[c] = NoItem
  BY <1>1 DEF Taken
<1>6. t[c] \in Items /\ NoItem \notin Items
  BY <1>1 DEF Inv, Copies, Sound, HeadHolds, QueueAssumption
<1>7. Taken[c] # NoItem /\ Taken' = [Taken EXCEPT ![c] = NoItem]
  BY <1>2, <1>5, <1>6
<1> QED
  BY <1>2, <1>4, <1>7 DEF Abstract!HandOver, Offered, Taken

\* The other steps change nothing that Fifo has.
LEMMA ProducerStutters ==
    ASSUME QueueAssumption, Inv, NEW p \in Producers, Step(p), p \in Threads,
           UNCHANGED <<m_head_ptr, next, data, t>>
    PROVE  UNCHANGED Abstract!vars
<1>1. queue' = queue
  BY SameChain, SameQueue
<1>2. Taken' = Taken /\ Offered' = Offered
  BY AbstractOthers DEF Offered
<1> QED
  BY <1>1, <1>2 DEF Abstract!vars, Offered, Taken

LEMMA ConsumerStutters ==
    ASSUME QueueAssumption, Inv, NEW c \in Consumers, Step(c), c \in Threads,
           UNCHANGED <<m_head_ptr, next, data>>, pc[c] # "destroy", pc'[c] # "destroy"
    PROVE  UNCHANGED Abstract!vars
<1>1. queue' = queue
  BY SameChain, SameQueue
<1>2. Offered' = Offered /\ Taken' = [Taken EXCEPT ![c] = Taken'[c]]
  BY AbstractOthers
<1>3. Taken'[c] = Taken[c]
  BY DEF Taken
<1>4. Taken' = Taken
  <2>1. Taken = [y \in Consumers |-> Taken[y]]
    BY DEF Taken
  <2> HIDE DEF Taken
  <2> QED
    BY <1>2, <1>3, <2>1
<1> QED
  BY <1>1, <1>2, <1>4 DEF Abstract!vars, Offered, Taken

LEMMA StepRefines ==
    ASSUME QueueAssumption, KeepsTags, TagsTell, Inv, [Next]_vars
    PROVE  [Abstract!Next]_(Abstract!vars)
<1>1. ASSUME UNCHANGED vars PROVE UNCHANGED Abstract!vars
  <2>1. UNCHANGED <<m_head_ptr, next, data, pc, t>>
    BY <1>1 DEF vars, memory, locals
  <2>2. queue' = queue
    BY <2>1, SameChain, SameQueue
  <2> QED
    BY <2>1, <2>2 DEF Abstract!vars
<1>2. ASSUME NEW x \in Threads, x \in Producers, Push(x) \/ Pushing(x)
      PROVE  Abstract!Next \/ UNCHANGED Abstract!vars
  <2>1. Step(x)
    BY <1>2 DEF Step
  <2>2. ASSUME Abstract!Offer(x) \/ Abstract!Push(x) PROVE Abstract!Next
    BY <1>2, <2>2 DEF Abstract!Next
  <2>3. CASE Push(x)
    BY <1>2, <2>1, <2>2, <2>3, PushRefines
  <2>4. CASE Link(x)
    BY <1>2, <2>1, <2>2, <2>4, LinkRefines
  <2>5. CASE ReadTail(x) \/ ReadNext(x) \/ CheckTail(x) \/ Swing(x) \/ Help(x, "tail")
    <3>1. UNCHANGED <<m_head_ptr, next, data, t>>
      BY <2>5 DEF ReadTail, ReadNext, CheckTail, Swing, Help, memory, locals
    <3> QED
      BY <1>2, <2>1, <3>1, ProducerStutters
  <2> QED
    BY <1>2, <2>3, <2>4, <2>5 DEF Pushing
<1>3. ASSUME NEW x \in Threads, x \in Consumers, Popping(x)
      PROVE  Abstract!Next \/ UNCHANGED Abstract!vars
  <2>1. Step(x)
    BY <1>3 DEF Step
  <2>2. ASSUME Abstract!Pop(x) \/ Abstract!HandOver(x) PROVE Abstract!Next
    BY <1>3, <2>2 DEF Abstract!Next
  <2>3. CASE SwapHead(x)
    BY <1>3, <2>1, <2>2, <2>3, SwapRefines
  <2>4. CASE Destroy(x)
    BY <1>3, <2>1, <2>2, <2>4, DestroyRefines
  <2>5. CASE ReadHead(x) \/ ReadTail(x) \/ ReadNextOfHead(x) \/ CheckHead(x) \/ Help(x, "head")
             \/ ReturnEmpty(x) \/ ReadValue(x)
    <3>1. UNCHANGED <<m_head_ptr, next, data>>
      BY <2>5 DEF ReadHead, ReadTail, ReadNextOfHead, CheckHead, Help, ReturnEmpty, ReadValue, memory
    <3>2. /\ \A l : Goto(x, l) => pc'[x] = l
          /\ pc[x] # "destroy"
      BY <2>5 DEF ReadHead, ReadTail, ReadNextOfHead, CheckHead, Help, ReturnEmpty, ReadValue,
                  Inv, Labelled, Goto
    <3>3. pc'[x] # "destroy"
      BY <2>5, <3>2 DEF ReadHead, ReadTail, ReadNextOfHead, CheckHead, Help, ReturnEmpty, ReadValue
    <3> QED
      BY <1>3, <2>1, <3>1, <3>2, <3>3, ConsumerStutters
  <2> QED
    BY <1>3, <2>3, <2>4, <2>5 DEF Popping
<1> QED
  BY <1>1, <1>2, <1>3, Steps DEF Step

LEMMA QueueInitially == ASSUME QueueAssumption, Init PROVE Abstract!Init
<1>1. Linked = <<>>
  BY Initially
<1>2. queue = <<>>
  BY <1>1 DEF queue
<1>3. Offered = [p \in Producers |-> NoItem]
  BY DEF Init, Offered, Threads
<1>4. Taken = [c \in Consumers |-> NoItem]
  BY DEF Init, Taken, Threads
<1> QED
  BY <1>2, <1>3, <1>4 DEF Abstract!Init, Offered, Taken

\* ImplementsFifo: boost's queue implements Fifo, for any numbers of producers, consumers,
\* nodes, items and calls, as long as the tags tell the pointers apart: the link of push() puts
\* its item at the end and the swap of pop() takes out the first one.
THEOREM QueueIsFifo == ASSUME QueueAssumption, KeepsTags PROVE Spec /\ []TagsTell => ImplementsFifo
<1>1. Init => Abstract!Init
  BY QueueInitially
<1>2. TagsTell /\ Inv /\ [Next]_vars => [Abstract!Next]_(Abstract!vars)
  BY StepRefines
<1> QED
  BY <1>1, <1>2, Invariant, PTL DEF Spec, Abstract!Spec, ImplementsFifo
=============================================================================
