------------------------ MODULE LockFreeStack_proofs ------------------------
(***************************************************************************)
(* Proofs about the lock-free stack and its free lists, for any numbers of *)
(* threads, nodes, items and calls: it implements Lifo and a node is in    *)
(* one place, as long as no thread is overtaken by as many swaps as there  *)
(* are tags.                                                               *)
(*                                                                         *)
(* The nodes of a stack are found by a walk along their links.  A sequence *)
(* that is linked from the top and has no node twice is what the walk      *)
(* finds (WalkFinds), by the least step at which it would not; the rest is *)
(* about such sequences (Chained).                                         *)
(***************************************************************************)
EXTENDS LockFreeStack, FiniteSetTheorems, WellFoundedInduction, TLAPS

\* Every set of natural numbers that is not empty has a least element.
LEMMA LeastElement == ASSUME NEW T \in SUBSET Nat, T # {} PROVE \E x \in T : \A y \in T : x <= y
<1> DEFINE R == OpToRel(<,Nat)
<1>1. IsWellFoundedOn(R, Nat)
  BY NatLessThanWellFounded
<1>2. \A x, y \in Nat : x < y => <<x, y>> \in R
  BY DEF OpToRel
<1> HIDE DEF R
<1>3. PICK x \in T : \A y \in T : ~(<<y, x>> \in R)
  BY <1>1, WFMin
<1>4. ASSUME NEW y \in T PROVE x <= y
  <2>1. ~(y < x)
    BY <1>2, <1>3
  <2> QED
    BY <2>1
<1> QED
  BY <1>4

\* Sequences of the same length and the same elements are equal.
LEMMA SameSequence ==
    ASSUME NEW S, NEW s \in Seq(S), NEW u \in Seq(S), Len(s) = Len(u),
           \A i \in 1..Len(s) : s[i] = u[i]
    PROVE  s = u
OBVIOUS

\* Sequence c is what the links hang together from the first of its nodes.
Chained(c, first, link) ==
    /\ c \in Seq(Nodes) /\ IsInjective(c)
    /\ c = <<>> => first = NULL
    /\ c # <<>> => first = c[1] /\ link[c[Len(c)]] = NULL
    /\ \A i \in 1..Len(c) - 1 : link[c[i]] = c[i + 1]

\* A sequence without repetitions is no longer than there are nodes.
LEMMA ShortEnough ==
    ASSUME StackAssumption, NEW c \in Seq(Nodes), IsInjective(c)
    PROVE  Len(c) <= Cardinality(Nodes)
<1>1. c \in [1..Len(c) -> Nodes] /\ Len(c) \in Nat
  OBVIOUS
<1>2. c \in Injection(1..Len(c), Nodes)
  BY <1>1 DEF IsInjective, Injection
<1>3. IsFiniteSet(Nodes)
  BY DEF StackAssumption
<1>4. Cardinality(1..Len(c)) <= Cardinality(Nodes)
  BY <1>2, <1>3, FS_Injection
<1>5. Cardinality(1..Len(c)) = Len(c)
  <2>1. 1 \in Int /\ Len(c) \in Int /\ Len(c) >= 0
    BY <1>1
  <2>2. Cardinality(1..Len(c)) = IF 1 > Len(c) THEN 0 ELSE Len(c) - 1 + 1
    BY <2>1, FS_Interval
  <2> QED
    BY <2>1, <2>2
<1> QED
  BY <1>4, <1>5

\* The walk along the links finds the sequence that is linked.
LEMMA WalkFinds ==
    ASSUME StackAssumption, NEW first, NEW link, NEW c, Chained(c, first, link)
    PROVE  Walk(first, link) = c
<1> DEFINE N == Cardinality(Nodes)
           Eq(g) == g = [k \in 0..N |-> IF k = 0 THEN Begun(first) ELSE Longer(g[k - 1], link)]
           f == [k \in 0..N |-> IF k + 1 <= Len(c) THEN SubSeq(c, 1, k + 1) ELSE c]
<1>1. Walk(first, link) = (CHOOSE g : Eq(g))[N]
  BY DEF Walk
<1>2. /\ c \in Seq(Nodes) /\ IsInjective(c) /\ Len(c) \in Nat
      /\ c = <<>> => first = NULL
      /\ c # <<>> => first = c[1] /\ link[c[Len(c)]] = NULL
      /\ \A i \in 1..Len(c) - 1 : link[c[i]] = c[i + 1]
      /\ \A i \in 1..Len(c) : c[i] \in Nodes
  BY DEF Chained
<1>3. N \in Nat /\ Len(c) <= N /\ NULL \notin Nodes
  BY <1>2, ShortEnough, FS_CardinalityType DEF StackAssumption
<1> HIDE DEF N
<1>4. f[0] = Begun(first)
  <2>1. CASE c = <<>>
    BY <1>2, <1>3, <2>1 DEF Begun
  <2>2. CASE c # <<>>
    <3>1. Len(c) >= 1 /\ 0 \in 0..N /\ first # NULL /\ c[1] = first
      BY <1>2, <1>3, <2>2
    <3>2. f[0] = SubSeq(c, 1, 1)
      BY <1>2, <3>1
    <3>3. SubSeq(c, 1, 1) = <<c[1]>>
      <4>1. Len(SubSeq(c, 1, 1)) = 1 /\ SubSeq(c, 1, 1)[1] = c[1] /\ SubSeq(c, 1, 1) \in Seq(Nodes)
        BY <1>2, <3>1
      <4>2. c[1] \in Nodes
        BY <1>2, <3>1
      <4>3. <<c[1]>> \in Seq(Nodes) /\ Len(<<c[1]>>) = 1 /\ <<c[1]>>[1] = c[1]
        BY <4>2
      <4>4. \A i \in 1..1 : SubSeq(c, 1, 1)[i] = <<c[1]>>[i]
        BY <4>1, <4>3
      <4> QED
        BY <4>1, <4>3, <4>4, SameSequence
    <3> QED
      BY <3>1, <3>2, <3>3 DEF Begun
  <2> QED
    BY <2>1, <2>2
<1>5. ASSUME NEW k \in 1..N PROVE f[k] = Longer(f[k - 1], link)
  <2>1. k - 1 \in 0..N /\ k \in 0..N /\ k \in Nat
    BY <1>3
  <2>2. CASE k + 1 <= Len(c)
    <3> DEFINE w == SubSeq(c, 1, k)
    <3>1. f[k] = SubSeq(c, 1, k + 1) /\ f[k - 1] = w
      BY <1>2, <2>1, <2>2
    <3>2. w \in Seq(Nodes) /\ Len(w) = k /\ \A i \in 1..k : w[i] = c[i]
      BY <1>2, <2>1, <2>2
    <3> HIDE DEF w
    <3>3. w # <<>> /\ w[Len(w)] = c[k] /\ link[c[k]] = c[k + 1] /\ c[k + 1] \in Nodes
      BY <1>2, <2>1, <2>2, <3>2
    <3>4. Longer(w, link) = Append(w, c[k + 1])
      BY <1>3, <3>3 DEF Longer
    <3>5. SubSeq(c, 1, k + 1) = Append(w, c[k + 1])
      BY <1>2, <2>1, <2>2 DEF w
    <3> QED
      BY <3>1, <3>4, <3>5
  <2>3. CASE k = Len(c)
    <3>1. f[k] = c /\ f[k - 1] = SubSeq(c, 1, k)
      BY <1>2, <2>1, <2>3
    <3>2. SubSeq(c, 1, k) = c /\ c # <<>>
      BY <1>2, <2>1, <2>3
    <3> QED
      BY <1>2, <2>3, <3>1, <3>2 DEF Longer
  <2>4. CASE k > Len(c)
    <3>1. f[k] = c
      BY <1>2, <2>1, <2>4
    <3>2. f[k - 1] = c
      BY <1>2, <2>1, <2>4
    <3>3. c = <<>> \/ link[c[Len(c)]] = NULL
      BY <1>2
    <3> QED
      BY <3>1, <3>2, <3>3 DEF Longer
  <2> QED
    BY <1>2, <2>1, <2>2, <2>3, <2>4
<1>6. Eq(f)
  <2> DEFINE h == [k \in 0..N |-> IF k = 0 THEN Begun(first) ELSE Longer(f[k - 1], link)]
  <2>1. ASSUME NEW k \in 0..N PROVE f[k] = h[k]
    <3> HIDE DEF f
    <3>1. h[k] = IF k = 0 THEN Begun(first) ELSE Longer(f[k - 1], link)
      OBVIOUS
    <3>2. k # 0 => k \in 1..N
      BY <1>3
    <3> QED
      BY <1>4, <1>5, <3>1, <3>2
  <2>2. f \in [0..N -> {f[k] : k \in 0..N}] /\ h \in [0..N -> {h[k] : k \in 0..N}]
    OBVIOUS
  <2>3. DOMAIN f = 0..N /\ DOMAIN h = 0..N
    OBVIOUS
  <2>4. f = [k \in 0..N |-> f[k]] /\ h = [k \in 0..N |-> h[k]]
    OBVIOUS
  <2> HIDE DEF f, h
  <2>5. f = h
    BY <2>1, <2>4
  <2> QED
    BY <2>5 DEF h
<1> HIDE DEF f
<1>7. ASSUME NEW g, Eq(g) PROVE g[N] = f[N]
  <2> DEFINE T == {k \in 0..N : g[k] # f[k]}
  <2>0. \A k \in 0..N : /\ g[k] = IF k = 0 THEN Begun(first) ELSE Longer(g[k - 1], link)
                        /\ f[k] = IF k = 0 THEN Begun(first) ELSE Longer(f[k - 1], link)
    <3>1. \A k \in 0..N : g[k] = IF k = 0 THEN Begun(first) ELSE Longer(g[k - 1], link)
      BY <1>7
    <3>2. \A k \in 0..N : f[k] = IF k = 0 THEN Begun(first) ELSE Longer(f[k - 1], link)
      BY <1>6
    <3> QED
      BY <3>1, <3>2
  <2>1. SUFFICES ASSUME T # {} PROVE FALSE
    BY <1>3
  <2>2. T \in SUBSET Nat
    BY <1>3
  <2>3. PICK k \in T : \A j \in T : k <= j
    BY <2>1, <2>2, LeastElement
  <2>4. k \in 0..N /\ g[k] # f[k]
    BY <2>3
  <2>5. CASE k = 0
    BY <2>0, <2>4, <2>5
  <2>6. CASE k # 0
    <3>1. k - 1 \in 0..N /\ ~(k <= k - 1)
      BY <1>3, <2>4, <2>6
    <3>2. g[k - 1] = f[k - 1]
      BY <2>3, <3>1
    <3> QED
      BY <2>0, <2>4, <2>6, <3>2
  <2> QED
    BY <2>5, <2>6
<1>8. Eq(CHOOSE g : Eq(g))
  BY <1>6
<1>9. Walk(first, link) = f[N]
  BY <1>1, <1>7, <1>8
<1>10. f[N] = c
  <2>1. N \in 0..N
    BY <1>3
  <2>2. N + 1 > Len(c)
    BY <1>2, <1>3
  <2> QED
    BY <1>2, <1>3, <2>1, <2>2 DEF f
<1> QED
  BY <1>9, <1>10

Tagged == [ptr : Nodes \cup {NULL}, tag : Nat]

Typed ==
    /\ top \in [Stacks -> Tagged] /\ next \in [Nodes -> Nodes \cup {NULL}]
    /\ v \in [Nodes -> Items \cup {NoItem}] /\ fresh \subseteq Nodes
    /\ pc \in [Threads -> {"out", "take", "next", "swap", "put", "set", "give"} \X Stacks]
    /\ old \in [Threads -> Tagged]
    /\ new \in [Threads -> Nodes \cup {NULL}] /\ mine \in [Threads -> Nodes \cup {NULL}]
    /\ t \in [Threads -> Items \cup {NoItem}]

\* The nodes that a stack links.
On(s) == ToSet(Chain(s))

\* Both stacks are linked, and a node is in one of them, unused, or in the hands of one thread.
Lists ==
    /\ \A s \in Stacks : Chained(Chain(s), top[s].ptr, next)
    /\ On("tos") \cap On("pool") = {}
    /\ fresh \cap (On("tos") \cup On("pool")) = {}
    /\ \A x \in Threads : mine[x] \notin On("tos") \cup On("pool") \cup fresh
    /\ \A x, y \in Threads : x # y /\ mine[x] = mine[y] => mine[x] = NULL
    /\ \A n \in Nodes : n \in On("tos") \cup On("pool") \cup fresh \/ \E x \in Threads : mine[x] = n
    /\ \A x \in Threads : mine[x] # NULL <=> pc[x][1] \in {"put", "set", "give"}

\* What the copies are worth that a thread has made: a top with the tag of the copy is the
\* copy, and then the next pointer is still the one that was read.
CopyHolds(x) ==
    LET now == top[pc[x][2]]
    IN /\ pc[x][1] \in {"next", "swap"} => old[x].ptr # NULL
       /\ pc[x][1] \in {"next", "swap", "set", "give"} =>
            old[x].tag <= now.tag /\ (old[x].tag = now.tag => old[x].ptr = now.ptr)
       /\ pc[x][1] = "swap" /\ old[x].tag = now.tag => new[x] = next[old[x].ptr]
       /\ pc[x][1] = "give" => next[mine[x]] = old[x].ptr

Copies == \A x \in Threads : CopyHolds(x)

\* A thread has an item while it pushes it or has popped it, and its node has it until the
\* node is on the stack.
HasItem(x) ==
    /\ t[x] = NoItem <=> pc[x][1] = "out" \/ (pc[x][2] = "tos" /\ pc[x][1] \in {"take", "next", "swap"})
    /\ pc[x][2] = "tos" /\ pc[x][1] \in {"put", "set", "give"} => v[mine[x]] = t[x]

\* Where the items are.
Placed ==
    /\ \A n \in On("tos") : v[n] \in Items
    /\ \A x \in Threads : HasItem(x)

Inv == Typed /\ Lists /\ Copies /\ Placed

-----------------------------------------------------------------------------
(* Linked sequences *)

\* The elements of a sequence, and its places.
LEMMA Elements ==
    ASSUME NEW c \in Seq(Nodes)
    PROVE  /\ Len(c) \in Nat /\ DOMAIN c = 1..Len(c)
           /\ \A i \in 1..Len(c) : c[i] \in Nodes /\ c[i] \in ToSet(c)
           /\ \A n \in ToSet(c) : n \in Nodes /\ \E i \in 1..Len(c) : c[i] = n
BY DEF ToSet

\* A link that begins outside of the sequence is none of its links.
LEMMA OtherLink ==
    ASSUME NEW link \in [Nodes -> Nodes \cup {NULL}], NEW c, NEW first, NEW n \in Nodes, NEW m,
           Chained(c, first, link), n \notin ToSet(c)
    PROVE  Chained(c, first, [link EXCEPT ![n] = m])
<1>1. c \in Seq(Nodes)
  BY DEF Chained
<1>2. \A i \in 1..Len(c) : c[i] \in Nodes /\ c[i] # n
  BY <1>1, Elements
<1>3. \A i \in 1..Len(c) : [link EXCEPT ![n] = m][c[i]] = link[c[i]]
  BY <1>2
<1>4. c # <<>> => Len(c) \in 1..Len(c)
  BY <1>1
<1>5. \A i \in 1..Len(c) - 1 : i \in 1..Len(c)
  BY <1>1
<1> QED
  BY <1>1, <1>3, <1>4, <1>5 DEF Chained

\* A node that links to the first of a sequence, in front of it.
LEMMA LinkedInFront ==
    ASSUME NEW link \in [Nodes -> Nodes \cup {NULL}], NEW c, NEW n \in Nodes,
           Chained(c, link[n], link), n \notin ToSet(c), NULL \notin Nodes
    PROVE  Chained(<<n>> \o c, n, link) /\ ToSet(<<n>> \o c) = ToSet(c) \cup {n}
<1> DEFINE d == <<n>> \o c
<1>1. c \in Seq(Nodes) /\ Len(c) \in Nat /\ <<n>> \in Seq(Nodes)
  BY DEF Chained
<1>2. /\ d \in Seq(Nodes) /\ Len(d) = Len(c) + 1 /\ d # <<>> /\ d[1] = n
      /\ \A i \in 2..Len(c) + 1 : d[i] = c[i - 1]
  BY <1>1
<1>3. \A i \in 2..Len(c) + 1 : i - 1 \in 1..Len(c)
  BY <1>1
<1>4. \A i \in 1..Len(c) : c[i] \in Nodes /\ c[i] # n
  BY <1>1, Elements
<1> HIDE DEF d
<1>5. DOMAIN d = 1..Len(c) + 1 /\ DOMAIN c = 1..Len(c)
  BY <1>1, <1>2
<1>6. IsInjective(d)
  <2>1. \A i, j \in 1..Len(c) : c[i] = c[j] => i = j
    BY <1>5 DEF Chained, IsInjective
  <2> SUFFICES ASSUME NEW i \in 1..Len(c) + 1, NEW j \in 1..Len(c) + 1, d[i] = d[j]
               PROVE  i = j
    BY <1>5 DEF IsInjective
  <2>2. i = 1 \/ i \in 2..Len(c) + 1
    BY <1>1
  <2>3. j = 1 \/ j \in 2..Len(c) + 1
    BY <1>1
  <2>4. CASE i = 1 /\ j = 1
    BY <2>4
  <2>5. CASE i = 1 /\ j \in 2..Len(c) + 1
    BY <1>2, <1>3, <1>4, <2>5
  <2>6. CASE j = 1 /\ i \in 2..Len(c) + 1
    BY <1>2, <1>3, <1>4, <2>6
  <2>7. CASE i \in 2..Len(c) + 1 /\ j \in 2..Len(c) + 1
    <3>1. c[i - 1] = c[j - 1] /\ i - 1 \in 1..Len(c) /\ j - 1 \in 1..Len(c)
      BY <1>2, <1>3, <2>7
    <3>2. i - 1 = j - 1
      BY <2>1, <3>1
    <3> QED
      BY <3>2
  <2> QED
    BY <2>2, <2>3, <2>4, <2>5, <2>6, <2>7
<1>7. ToSet(d) = ToSet(c) \cup {n}
  <2>1. ASSUME NEW m \in ToSet(d) PROVE m \in ToSet(c) \cup {n}
    <3>1. PICK i \in 1..Len(c) + 1 : d[i] = m
      BY <1>5 DEF ToSet
    <3>2. i = 1 \/ i \in 2..Len(c) + 1
      BY <1>1
    <3> QED
      BY <1>2, <1>3, <1>5, <3>1, <3>2 DEF ToSet
  <2>2. n \in ToSet(d)
    BY <1>1, <1>2, <1>5 DEF ToSet
  <2>3. ASSUME NEW m \in ToSet(c) PROVE m \in ToSet(d)
    <3>1. PICK i \in 1..Len(c) : c[i] = m
      BY <1>5 DEF ToSet
    <3>2. i + 1 \in 2..Len(c) + 1 /\ i + 1 \in 1..Len(c) + 1 /\ (i + 1) - 1 = i
      BY <1>1
    <3>3. d[i + 1] = m
      BY <1>2, <3>1, <3>2
    <3> QED
      BY <1>5, <3>2, <3>3 DEF ToSet
  <2> QED
    BY <2>1, <2>2, <2>3
<1>8. \A i \in 1..Len(d) - 1 : link[d[i]] = d[i + 1]
  <2> SUFFICES ASSUME NEW i \in 1..Len(c) PROVE link[d[i]] = d[i + 1]
    BY <1>1, <1>2
  <2>1. d[i + 1] = c[i] /\ c # <<>>
    BY <1>1, <1>2
  <2>2. CASE i = 1
    BY <1>2, <2>1, <2>2 DEF Chained
  <2>3. CASE i # 1
    <3>1. i \in 2..Len(c) + 1 /\ i - 1 \in 1..Len(c) - 1 /\ (i - 1) + 1 = i
      BY <1>1, <2>3
    <3>2. d[i] = c[i - 1] /\ link[c[i - 1]] = c[i]
      BY <1>2, <3>1 DEF Chained
    <3> QED
      BY <2>1, <3>2
  <2> QED
    BY <2>2, <2>3
<1>9. link[d[Len(d)]] = NULL
  <2>1. CASE c = <<>>
    BY <1>1, <1>2, <2>1 DEF Chained
  <2>2. CASE c # <<>>
    <3>1. Len(d) \in 2..Len(c) + 1 /\ Len(d) - 1 = Len(c)
      BY <1>1, <1>2, <2>2
    <3> QED
      BY <1>2, <2>2, <3>1 DEF Chained
  <2> QED
    BY <2>1, <2>2
<1> QED
  BY <1>2, <1>6, <1>7, <1>8, <1>9 DEF Chained, d

\* Without its first node a sequence goes on from that node's link.
LEMMA LinkedBehind ==
    ASSUME NEW link \in [Nodes -> Nodes \cup {NULL}], NEW c, NEW first,
           Chained(c, first, link), first # NULL, NULL \notin Nodes
    PROVE  /\ c # <<>> /\ first = c[1] /\ first = Head(c) /\ first \in ToSet(c)
           /\ Chained(Tail(c), link[first], link) /\ ToSet(Tail(c)) = ToSet(c) \ {first}
<1> DEFINE d == Tail(c)
<1>1. /\ c \in Seq(Nodes) /\ Len(c) \in Nat /\ c # <<>> /\ first = c[1] /\ Len(c) >= 1
      /\ link[c[Len(c)]] = NULL
      /\ \A i \in 1..Len(c) - 1 : link[c[i]] = c[i + 1]
  BY DEF Chained
<1>2. Head(c) = c[1]
  BY <1>1
<1>3. d \in Seq(Nodes) /\ Len(d) = Len(c) - 1 /\ \A i \in 1..Len(c) - 1 : d[i] = c[i + 1]
  BY <1>1
<1> HIDE DEF d
<1>4. DOMAIN d = 1..Len(c) - 1 /\ DOMAIN c = 1..Len(c)
  BY <1>1, <1>3
<1>5. \A i, j \in 1..Len(c) : c[i] = c[j] => i = j
  BY <1>4 DEF Chained, IsInjective
<1>6. \A i \in 1..Len(c) - 1 : i + 1 \in 1..Len(c) /\ i + 1 # 1
  BY <1>1
<1>7. IsInjective(d)
  <2> SUFFICES ASSUME NEW i \in 1..Len(c) - 1, NEW j \in 1..Len(c) - 1, d[i] = d[j]
               PROVE  i = j
    BY <1>4 DEF IsInjective
  <2>1. i + 1 = j + 1
    BY <1>3, <1>5, <1>6
  <2> QED
    BY <2>1
<1>8. ToSet(d) = ToSet(c) \ {first}
  <2>1. ASSUME NEW m \in ToSet(d) PROVE m \in ToSet(c) \ {first}
    <3>1. PICK i \in 1..Len(c) - 1 : d[i] = m
      BY <1>4 DEF ToSet
    <3>2. m = c[i + 1] /\ i + 1 \in 1..Len(c) /\ 1 \in 1..Len(c) /\ i + 1 # 1
      BY <1>1, <1>3, <1>6, <3>1
    <3> QED
      BY <1>1, <1>4, <1>5, <3>2 DEF ToSet
  <2>2. ASSUME NEW m \in ToSet(c), m # first PROVE m \in ToSet(d)
    <3>1. PICK i \in 1..Len(c) : c[i] = m
      BY <1>4 DEF ToSet
    <3>2. i # 1
      BY <1>1, <2>2, <3>1
    <3>3. i - 1 \in 1..Len(c) - 1 /\ (i - 1) + 1 = i
      BY <1>1, <3>2
    <3>4. d[i - 1] = m
      BY <1>3, <3>1, <3>3
    <3> QED
      BY <1>4, <3>3, <3>4 DEF ToSet
  <2> QED
    BY <2>1, <2>2
<1>9. d = <<>> => link[first] = NULL
  <2> SUFFICES ASSUME Len(d) = 0 PROVE link[first] = NULL
    BY <1>3
  <2>1. Len(c) = 1
    BY <1>1, <1>3
  <2> QED
    BY <1>1, <2>1
<1>10. d # <<>> => link[first] = d[1] /\ link[d[Len(d)]] = NULL
  <2> SUFFICES ASSUME d # <<>> PROVE link[first] = d[1] /\ link[d[Len(d)]] = NULL
    OBVIOUS
  <2>1. 1 \in 1..Len(c) - 1 /\ Len(c) - 1 \in 1..Len(c) - 1
    BY <1>1, <1>3
  <2> QED
    BY <1>1, <1>3, <2>1
<1>11. \A i \in 1..Len(d) - 1 : link[d[i]] = d[i + 1]
  <2> SUFFICES ASSUME NEW i \in 1..Len(c) - 1 - 1 PROVE link[d[i]] = d[i + 1]
    BY <1>3
  <2>1. i \in 1..Len(c) - 1 /\ i + 1 \in 1..Len(c) - 1
    BY <1>1
  <2> QED
    BY <1>1, <1>3, <2>1
<1>12. first \in ToSet(c)
  BY <1>1, <1>4 DEF ToSet
<1> QED
  BY <1>1, <1>2, <1>3, <1>7, <1>8, <1>9, <1>10, <1>11, <1>12 DEF Chained, d

-----------------------------------------------------------------------------
(* Every step keeps the types *)

\* A thread that takes a node, or gives one, has it in its copies.
LEMMA InHand ==
    ASSUME Inv, NEW x \in Threads
    PROVE  /\ pc[x][1] \in {"next", "swap"} => old[x].ptr \in Nodes
           /\ pc[x][1] \in {"put", "set", "give"} => mine[x] \in Nodes
<1>1. old[x] \in Tagged /\ mine[x] \in Nodes \cup {NULL}
  BY DEF Inv, Typed
<1>2. old[x].ptr \in Nodes \cup {NULL}
  BY <1>1 DEF Tagged
<1>3. pc[x][1] \in {"next", "swap"} => old[x].ptr # NULL
  BY DEF Inv, Copies, CopyHolds
<1>4. pc[x][1] \in {"put", "set", "give"} => mine[x] # NULL
  BY DEF Inv, Lists
<1> QED
  BY <1>1, <1>2, <1>3, <1>4

\* A compare-and-swap that succeeds puts a node or NULL on top and counts the tag.
LEMMA Swaps ==
    ASSUME Typed, NEW x \in Threads, NEW s \in Stacks, NEW n \in Nodes \cup {NULL}, Cas(x, s, n)
    PROVE  /\ top' \in [Stacks -> Tagged]
           /\ top'[s].ptr = n /\ top'[s].tag = top[s].tag + 1
           /\ \A q \in Stacks : q # s => top'[q] = top[q]
<1>1. top \in [Stacks -> Tagged] /\ top[s] \in Tagged
  BY DEF Typed
<1>2. top[s].tag + 1 \in Nat
  BY <1>1 DEF Tagged
<1>3. Swapped(top[s], n) \in Tagged
  BY <1>2 DEF Swapped, Tagged
<1>4. top' = [top EXCEPT ![s] = Swapped(top[s], n)]
  BY DEF Cas
<1> QED
  BY <1>1, <1>3, <1>4 DEF Swapped

\* As long as the tags tell the tops apart, a swap that succeeds finds the copy on top.
LEMMA FindsCopy ==
    ASSUME StackAssumption, TagsTell, Inv, NEW x \in Threads, NEW s \in Stacks, NEW n,
           pc[x] = <<"swap", s>> \/ pc[x] = <<"give", s>>, Cas(x, s, n)
    PROVE  top[s] = old[x]
<1>1. top[s] \in Tagged /\ old[x] \in Tagged /\ Tags \in Nat \ {0}
  BY DEF Inv, Typed, StackAssumption
<1>2. top[s].tag \in Nat /\ old[x].tag \in Nat
  BY <1>1 DEF Tagged
<1>3. old[x].tag <= top[s].tag
  BY DEF Inv, Copies, CopyHolds
<1>4. top[s].tag - old[x].tag < Tags
  BY DEF TagsTell
<1>5. top[s].ptr = old[x].ptr /\ (top[s].tag - old[x].tag) % Tags = 0
  BY DEF Cas, Same
<1> DEFINE d == top[s].tag - old[x].tag
<1>6. d \in Nat /\ d < Tags /\ d % Tags = 0
  BY <1>2, <1>3, <1>4, <1>5
<1> HIDE DEF d
<1>7. d = 0
  BY <1>1, <1>6
<1>8. top[s].tag = old[x].tag
  BY <1>2, <1>7 DEF d
<1>9. \A p, q \in Tagged : p.ptr = q.ptr /\ p.tag = q.tag => p = q
  BY DEF Tagged
<1> QED
  BY <1>1, <1>5, <1>8, <1>9

LEMMA TypedKept == ASSUME StackAssumption, Inv, [Next]_vars PROVE Typed'
<1> USE DEF Typed
<1>0. Typed /\ NULL \notin Nodes
  BY DEF Inv, StackAssumption
<1>1. ASSUME UNCHANGED vars PROVE Typed'
  BY <1>0, <1>1 DEF vars
<1> DEFINE Labels == {"out", "take", "next", "swap", "put", "set", "give"}
<1>2. ASSUME NEW x \in Threads, NEW l \in Labels, NEW s \in Stacks, Goto(x, l, s)
      PROVE  pc' \in [Threads -> Labels \X Stacks]
  BY <1>0, <1>2 DEF Goto
<1>3. "tos" \in Stacks /\ "pool" \in Stacks
  BY DEF Stacks
<1>4. ASSUME NEW x \in Threads, NEW n \in Nodes, Construct(x, n)
      PROVE  mine' \in [Threads -> Nodes \cup {NULL}] /\ v' \in [Nodes -> Items \cup {NoItem}]
             /\ pc' \in [Threads -> Labels \X Stacks]
  BY <1>0, <1>2, <1>3, <1>4 DEF Construct
<1>5. ASSUME NEW x \in Threads, Step(x) PROVE Typed'
  <2>1. CASE Push(x)
    BY <1>0, <1>2, <1>3, <2>1 DEF Push
  <2>2. CASE Pop(x)
    BY <1>0, <1>2, <1>3, <2>2 DEF Pop
  <2>3. CASE FindEmpty(x)
    BY <1>0, <1>2, <1>3, <2>3 DEF FindEmpty
  <2>4. CASE FindPoolEmpty(x)
    <3>1. CASE Static
      BY <1>0, <1>2, <1>3, <2>4, <3>1 DEF FindPoolEmpty
    <3>2. CASE ~Static
      <4> DEFINE n == CHOOSE n \in fresh : TRUE
      <4>1. n \in fresh /\ n \in Nodes
        BY <1>0, <2>4, <3>2 DEF FindPoolEmpty
      <4>2. fresh' = fresh \ {n} /\ Construct(x, n) /\ UNCHANGED <<t, top, next, old, new>>
        BY <2>4, <3>2 DEF FindPoolEmpty
      <4> HIDE DEF n
      <4> QED
        BY <1>0, <1>4, <4>1, <4>2
    <3> QED
      BY <3>1, <3>2
  <2>5. CASE Allocate(x)
    <3>1. old[x].ptr \in Nodes /\ new[x] \in Nodes \cup {NULL}
      BY <1>0, <2>5, InHand DEF Allocate
    <3>2. CASE Cas(x, "pool", new[x]) /\ Construct(x, old[x].ptr)
      BY <1>0, <1>3, <1>4, <2>5, <3>1, <3>2, Swaps DEF Allocate
    <3>3. CASE CasFails(x, "pool") /\ Goto(x, "take", "pool") /\ UNCHANGED <<v, mine>>
      BY <1>0, <1>2, <1>3, <2>5, <3>3 DEF Allocate, CasFails
    <3> QED
      BY <2>5, <3>2, <3>3 DEF Allocate
  <2>6. CASE TakeItem(x)
    <3>1. old[x].ptr \in Nodes /\ new[x] \in Nodes \cup {NULL}
      BY <1>0, <2>6, InHand DEF TakeItem
    <3>2. CASE Cas(x, "tos", new[x]) /\ t' = [t EXCEPT ![x] = v[old[x].ptr]]
               /\ mine' = [mine EXCEPT ![x] = old[x].ptr] /\ Goto(x, "put", "pool")
      <4>1. top' \in [Stacks -> Tagged]
        BY <1>0, <1>3, <3>1, <3>2, Swaps
      <4>2. pc' \in [Threads -> Labels \X Stacks]
        BY <1>2, <1>3, <3>2
      <4> QED
        BY <1>0, <2>6, <3>1, <3>2, <4>1, <4>2 DEF TakeItem
    <3>3. CASE CasFails(x, "tos") /\ Goto(x, "take", "tos") /\ UNCHANGED <<t, mine>>
      BY <1>0, <1>2, <1>3, <2>6, <3>3 DEF TakeItem, CasFails
    <3> QED
      BY <2>6, <3>2, <3>3 DEF TakeItem
  <2>7. ASSUME NEW s \in Stacks, ReadTop(x, s) PROVE Typed'
    BY <1>0, <1>2, <2>7 DEF ReadTop
  <2>8. ASSUME NEW s \in Stacks, ReadNext(x, s) PROVE Typed'
    <3>1. old[x].ptr \in Nodes
      BY <1>0, <2>8, InHand DEF ReadNext
    <3> QED
      BY <1>0, <1>2, <2>8, <3>1 DEF ReadNext
  <2>9. ASSUME NEW s \in Stacks, CopyTop(x, s) PROVE Typed'
    BY <1>0, <1>2, <2>9 DEF CopyTop
  <2>10. ASSUME NEW s \in Stacks, SetNext(x, s) PROVE Typed'
    <3>1. old[x].ptr \in Nodes \cup {NULL}
      BY <1>0 DEF Tagged
    <3>2. pc' \in [Threads -> Labels \X Stacks]
      BY <1>2, <2>10 DEF SetNext
    <3> QED
      BY <1>0, <2>10, <3>1, <3>2 DEF SetNext
  <2>11. ASSUME NEW s \in Stacks, Give(x, s) PROVE Typed'
    <3>1. CASE Cas(x, s, mine[x]) /\ mine' = [mine EXCEPT ![x] = NULL]
               /\ t' = [t EXCEPT ![x] = NoItem] /\ old' = [old EXCEPT ![x] = Null]
               /\ new' = [new EXCEPT ![x] = NULL] /\ Goto(x, "out", "tos")
      <4>1. top' \in [Stacks -> Tagged]
        BY <1>0, <3>1, Swaps
      <4>2. Null \in Tagged
        BY DEF Null, Tagged
      <4>3. pc' \in [Threads -> Labels \X Stacks]
        BY <1>2, <1>3, <3>1
      <4> QED
        BY <1>0, <2>11, <3>1, <4>1, <4>2, <4>3 DEF Give
    <3>2. CASE CasFails(x, s) /\ Goto(x, "put", s) /\ UNCHANGED <<mine, t, old, new>>
      BY <1>0, <1>2, <2>11, <3>2 DEF Give, CasFails
    <3> QED
      BY <2>11, <3>1, <3>2 DEF Give
  <2> QED
    BY <1>5, <2>1, <2>2, <2>3, <2>4, <2>5, <2>6, <2>7, <2>8, <2>9, <2>10, <2>11 DEF Step
<1> QED
  BY <1>1, <1>5 DEF Next, Finished

-----------------------------------------------------------------------------
(* Every step keeps the lists *)

Giving(p) == p[1] \in {"put", "set", "give"}

\* A stack whose top and links stay is the same.
LEMMA SameChain ==
    ASSUME NEW s, top'[s].ptr = top[s].ptr, next' = next
    PROVE  Chain(s)' = Chain(s) /\ On(s)' = On(s)
BY DEF Chain, On

\* A step on a thread's own copies.
LEMMA OwnStepKeepsLists ==
    ASSUME Inv, NEW x \in Threads, NEW l, NEW q, Goto(x, l, q),
           UNCHANGED <<top, next, fresh, mine>>,
           l \in {"put", "set", "give"} <=> pc[x][1] \in {"put", "set", "give"}
    PROVE  Lists'
<1>1. \A s \in Stacks : Chain(s)' = Chain(s) /\ On(s)' = On(s)
  BY SameChain
<1>2. "tos" \in Stacks /\ "pool" \in Stacks
  BY DEF Stacks
<1>3. \A y \in Threads : Giving(pc'[y]) <=> Giving(pc[y])
  BY DEF Inv, Typed, Goto, Giving
<1> QED
  BY <1>1, <1>2, <1>3 DEF Inv, Lists, Giving

\* The links that are changed are those of nodes that no stack has.
LEMMA SetNextKeepsLists ==
    ASSUME StackAssumption, Inv, Typed', NEW x \in Threads, NEW s \in Stacks, SetNext(x, s)
    PROVE  Lists' /\ \A q \in Stacks : Chain(q)' = Chain(q) /\ On(q)' = On(q)
<1>1. mine[x] \in Nodes /\ "tos" \in Stacks /\ "pool" \in Stacks
  BY InHand DEF SetNext, Stacks
<1>2. next \in [Nodes -> Nodes \cup {NULL}]
  BY DEF Inv, Typed
<1>3. ASSUME NEW q \in Stacks
      PROVE  Chain(q)' = Chain(q) /\ On(q)' = On(q) /\ Chained(Chain(q), top[q].ptr, next')
  <2>1. Chained(Chain(q), top[q].ptr, next)
    BY DEF Inv, Lists
  <2>2. mine[x] \notin ToSet(Chain(q))
    BY DEF Inv, Lists, On, Stacks
  <2>3. Chained(Chain(q), top[q].ptr, [next EXCEPT ![mine[x]] = old[x].ptr])
    BY <1>1, <1>2, <2>1, <2>2, OtherLink
  <2>4. Chained(Chain(q), top[q].ptr, next') /\ top' = top
    BY <2>3 DEF SetNext
  <2>5. Walk(top[q].ptr, next') = Chain(q)
    BY <2>4, WalkFinds
  <2> QED
    BY <2>4, <2>5 DEF Chain, On
<1>4. \A y \in Threads : Giving(pc'[y]) <=> Giving(pc[y])
  BY DEF Inv, Typed, SetNext, Goto, Giving
<1>5. UNCHANGED <<top, fresh, mine>>
  BY DEF SetNext
<1>6. \A q \in Stacks : Chained(Chain(q), top[q].ptr, next)'
  BY <1>3, <1>5
<1> QED
  BY <1>1, <1>3, <1>4, <1>5, <1>6 DEF Inv, Lists, Giving

\* Taking the node on top leaves those behind it.
LEMMA TakingKeepsLists ==
    ASSUME StackAssumption, TagsTell, Inv, NEW x \in Threads, NEW s \in Stacks,
           pc[x] = <<"swap", s>>, Cas(x, s, new[x]), next' = next
    PROVE  /\ Chain(s) # <<>> /\ old[x].ptr = Head(Chain(s)) /\ old[x].ptr \in On(s)
           /\ Chain(s)' = Tail(Chain(s)) /\ On(s)' = On(s) \ {old[x].ptr}
           /\ \A q \in Stacks : q # s => Chain(q)' = Chain(q) /\ On(q)' = On(q)
           /\ \A q \in Stacks : Chained(Chain(q), top[q].ptr, next)'
<1>1. old[x].ptr \in Nodes /\ NULL \notin Nodes
  BY InHand DEF StackAssumption
<1>2. next \in [Nodes -> Nodes \cup {NULL}] /\ new[x] \in Nodes \cup {NULL} /\ Typed
  BY DEF Inv, Typed
<1>3. /\ top[s] = old[x] /\ top'[s].ptr = new[x]
      /\ \A q \in Stacks : q # s => top'[q] = top[q]
  BY <1>2, Swaps, FindsCopy
<1>4. new[x] = next[old[x].ptr]
  BY <1>3 DEF Inv, Copies, CopyHolds
<1>5. Chained(Chain(s), top[s].ptr, next)
  BY DEF Inv, Lists
<1> DEFINE c == Chain(s)
<1> HIDE DEF c
<1>6. /\ c # <<>> /\ old[x].ptr = Head(c) /\ old[x].ptr \in ToSet(c)
      /\ Chained(Tail(c), new[x], next) /\ ToSet(Tail(c)) = ToSet(c) \ {old[x].ptr}
  BY <1>1, <1>2, <1>3, <1>4, <1>5, LinkedBehind DEF c
<1>7. Walk(new[x], next) = Tail(c)
  BY <1>6, WalkFinds
<1>8. Chain(s)' = Tail(c) /\ On(s)' = ToSet(Tail(c)) /\ Chained(Chain(s), top[s].ptr, next)'
  BY <1>3, <1>6, <1>7 DEF Chain, On
<1>9. ASSUME NEW q \in Stacks, q # s
      PROVE  Chain(q)' = Chain(q) /\ On(q)' = On(q) /\ Chained(Chain(q), top[q].ptr, next)'
  <2>1. Chain(q)' = Chain(q) /\ On(q)' = On(q)
    BY <1>3, <1>9, SameChain
  <2>2. Chained(Chain(q), top[q].ptr, next)
    BY DEF Inv, Lists
  <2> QED
    BY <1>3, <1>9, <2>1, <2>2
<1> QED
  BY <1>6, <1>8, <1>9 DEF c, On

\* Giving a node puts it in front.
LEMMA GivingKeepsLists ==
    ASSUME StackAssumption, TagsTell, Inv, NEW x \in Threads, NEW s \in Stacks,
           pc[x] = <<"give", s>>, Cas(x, s, mine[x]), next' = next
    PROVE  /\ Chain(s)' = <<mine[x]>> \o Chain(s) /\ On(s)' = On(s) \cup {mine[x]}
           /\ \A q \in Stacks : q # s => Chain(q)' = Chain(q) /\ On(q)' = On(q)
           /\ \A q \in Stacks : Chained(Chain(q), top[q].ptr, next)'
<1>1. mine[x] \in Nodes /\ NULL \notin Nodes
  BY InHand DEF StackAssumption
<1>2. next \in [Nodes -> Nodes \cup {NULL}] /\ Typed
  BY DEF Inv, Typed
<1>3. /\ top[s] = old[x] /\ top'[s].ptr = mine[x]
      /\ \A q \in Stacks : q # s => top'[q] = top[q]
  BY <1>1, <1>2, Swaps, FindsCopy
<1>4. next[mine[x]] = top[s].ptr
  BY <1>3 DEF Inv, Copies, CopyHolds
<1>5. Chained(Chain(s), top[s].ptr, next)
  BY DEF Inv, Lists
<1>6. mine[x] \notin ToSet(Chain(s))
  BY DEF Inv, Lists, On, Stacks
<1> DEFINE c == Chain(s)
<1> HIDE DEF c
<1>7. /\ Chained(<<mine[x]>> \o c, mine[x], next) /\ ToSet(<<mine[x]>> \o c) = ToSet(c) \cup {mine[x]}
  BY <1>1, <1>2, <1>4, <1>5, <1>6, LinkedInFront DEF c
<1>8. Walk(mine[x], next) = <<mine[x]>> \o c
  BY <1>7, WalkFinds
<1>9. /\ Chain(s)' = <<mine[x]>> \o c /\ On(s)' = ToSet(<<mine[x]>> \o c)
      /\ Chained(Chain(s), top[s].ptr, next)'
  BY <1>3, <1>7, <1>8 DEF Chain, On
<1>10. ASSUME NEW q \in Stacks, q # s
       PROVE  Chain(q)' = Chain(q) /\ On(q)' = On(q) /\ Chained(Chain(q), top[q].ptr, next)'
  <2>1. Chain(q)' = Chain(q) /\ On(q)' = On(q)
    BY <1>3, <1>10, SameChain
  <2>2. Chained(Chain(q), top[q].ptr, next)
    BY DEF Inv, Lists
  <2> QED
    BY <1>3, <1>10, <2>1, <2>2
<1> QED
  BY <1>7, <1>9, <1>10 DEF c, On

\* A thread that is not giving a node has none.
LEMMA OthersPlace ==
    ASSUME Typed, NEW x \in Threads, NEW p, pc' = [pc EXCEPT ![x] = p]
    PROVE  pc'[x] = p /\ \A y \in Threads : y # x => pc'[y] = pc[y]
BY DEF Typed

LEMMA TakenIsHeld ==
    ASSUME StackAssumption, TagsTell, Inv, NEW x \in Threads, NEW s \in Stacks, NEW q,
           pc[x] = <<"swap", s>>, Cas(x, s, new[x]), UNCHANGED <<next, fresh>>,
           mine' = [mine EXCEPT ![x] = old[x].ptr], Goto(x, "put", q)
    PROVE  Lists'
<1> DEFINE n == old[x].ptr
<1>1. /\ n \in Nodes /\ NULL \notin Nodes /\ mine \in [Threads -> Nodes \cup {NULL}]
      /\ "tos" \in Stacks /\ "pool" \in Stacks /\ \A u \in Stacks : u \in {"tos", "pool"}
  BY InHand DEF StackAssumption, Inv, Typed, Stacks
<1>2. /\ n \in On(s) /\ On(s)' = On(s) \ {n}
      /\ \A u \in Stacks : u # s => On(u)' = On(u)
      /\ \A u \in Stacks : Chained(Chain(u), top[u].ptr, next)'
  BY TakingKeepsLists
<1>3. pc'[x] = <<"put", q>> /\ \A y \in Threads : y # x => pc'[y] = pc[y]
  BY OthersPlace DEF Inv, Goto
<1>4. mine'[x] = n /\ \A y \in Threads : y # x => mine'[y] = mine[y]
  BY <1>1
<1>5. Lists /\ mine[x] = NULL
  BY DEF Inv, Lists
<1> HIDE DEF n
<1>6. On("tos")' \cap On("pool")' = {} /\ n \notin On("tos")' \cup On("pool")'
      /\ On("tos")' \cup On("pool")' = (On("tos") \cup On("pool")) \ {n}
  BY <1>1, <1>2, <1>5 DEF Lists
<1>7. n \notin fresh /\ fresh' = fresh
  BY <1>1, <1>2, <1>5 DEF Lists
<1>8. \A y \in Threads : y # x => mine[y] # n
  BY <1>1, <1>2, <1>5 DEF Lists
<1>9. fresh' \cap (On("tos")' \cup On("pool")') = {}
  BY <1>5, <1>6, <1>7 DEF Lists
<1>10. \A y \in Threads : mine'[y] \notin On("tos")' \cup On("pool")' \cup fresh'
  BY <1>4, <1>5, <1>6, <1>7 DEF Lists
<1>11. \A y, z \in Threads : y # z /\ mine'[y] = mine'[z] => mine'[y] = NULL
  BY <1>4, <1>5, <1>8 DEF Lists
<1>12. \A m \in Nodes : m \in On("tos")' \cup On("pool")' \cup fresh' \/ \E y \in Threads : mine'[y] = m
  <2> SUFFICES ASSUME NEW m \in Nodes, m # n
               PROVE  m \in On("tos")' \cup On("pool")' \cup fresh' \/ \E y \in Threads : mine'[y] = m
    BY <1>4
  <2>1. CASE m \in On("tos") \cup On("pool") \cup fresh
    BY <1>6, <1>7, <2>1
  <2>2. CASE \E y \in Threads : mine[y] = m
    <3>1. PICK y \in Threads : mine[y] = m
      BY <2>2
    <3>2. y # x
      BY <1>1, <1>5, <3>1
    <3> QED
      BY <1>4, <3>1, <3>2
  <2> QED
    BY <1>5, <2>1, <2>2 DEF Lists
<1>13. \A y \in Threads : mine'[y] # NULL <=> pc'[y][1] \in {"put", "set", "give"}
  BY <1>1, <1>3, <1>4, <1>5 DEF Lists
<1> QED
  BY <1>2, <1>6, <1>9, <1>10, <1>11, <1>12, <1>13 DEF Lists

\* A node of fresh memory goes to the thread that asks for it.
LEMMA FreshIsHeld ==
    ASSUME StackAssumption, Inv, NEW x \in Threads, NEW n \in fresh, ~Giving(pc[x]),
           UNCHANGED <<top, next>>, fresh' = fresh \ {n}, Construct(x, n)
    PROVE  Lists'
<1>1. /\ n \in Nodes /\ NULL \notin Nodes /\ mine \in [Threads -> Nodes \cup {NULL}]
      /\ "tos" \in Stacks /\ "pool" \in Stacks
  BY DEF StackAssumption, Inv, Typed, Stacks
<1>2. \A q \in Stacks : Chain(q)' = Chain(q) /\ On(q)' = On(q)
  BY SameChain
<1>3. pc'[x] = <<"put", "tos">> /\ \A y \in Threads : y # x => pc'[y] = pc[y]
  BY OthersPlace DEF Inv, Construct, Goto
<1>4. mine'[x] = n /\ \A y \in Threads : y # x => mine'[y] = mine[y]
  BY <1>1 DEF Construct
<1>5. Lists /\ mine[x] = NULL
  BY DEF Inv, Lists, Giving
<1>6. n \notin On("tos") \cup On("pool")
  BY <1>5 DEF Lists
<1>7. \A q \in Stacks : Chained(Chain(q), top[q].ptr, next)'
  BY <1>2, <1>5 DEF Lists
<1>8. fresh' \cap (On("tos")' \cup On("pool")') = {}
  BY <1>1, <1>2, <1>5 DEF Lists
<1>9. \A y \in Threads : mine'[y] \notin On("tos")' \cup On("pool")' \cup fresh'
  BY <1>1, <1>2, <1>4, <1>5, <1>6 DEF Lists
<1>10. \A y, z \in Threads : y # z /\ mine'[y] = mine'[z] => mine'[y] = NULL
  BY <1>4, <1>5 DEF Lists
<1>11. \A m \in Nodes : m \in On("tos")' \cup On("pool")' \cup fresh' \/ \E y \in Threads : mine'[y] = m
  <2> SUFFICES ASSUME NEW m \in Nodes, m # n
               PROVE  m \in On("tos")' \cup On("pool")' \cup fresh' \/ \E y \in Threads : mine'[y] = m
    BY <1>4
  <2>1. CASE m \in On("tos") \cup On("pool") \cup fresh
    BY <1>1, <1>2, <2>1
  <2>2. CASE \E y \in Threads : mine[y] = m
    <3>1. PICK y \in Threads : mine[y] = m
      BY <2>2
    <3>2. y # x
      BY <1>1, <1>5, <3>1
    <3> QED
      BY <1>4, <3>1, <3>2
  <2> QED
    BY <1>5, <2>1, <2>2 DEF Lists
<1>12. \A y \in Threads : mine'[y] # NULL <=> pc'[y][1] \in {"put", "set", "give"}
  BY <1>1, <1>3, <1>4, <1>5 DEF Lists
<1> QED
  BY <1>1, <1>2, <1>5, <1>7, <1>8, <1>9, <1>10, <1>11, <1>12 DEF Lists

\* A node that is given is nobody's.
LEMMA GivenIsNotHeld ==
    ASSUME StackAssumption, TagsTell, Inv, NEW x \in Threads, NEW s \in Stacks, NEW l, NEW q, l \notin {"put", "set", "give"},
           pc[x] = <<"give", s>>, Cas(x, s, mine[x]), UNCHANGED <<next, fresh>>,
           mine' = [mine EXCEPT ![x] = NULL], Goto(x, l, q)
    PROVE  Lists'
<1> DEFINE n == mine[x]
<1>1. /\ n \in Nodes /\ NULL \notin Nodes /\ mine \in [Threads -> Nodes \cup {NULL}]
      /\ "tos" \in Stacks /\ "pool" \in Stacks /\ \A u \in Stacks : u \in {"tos", "pool"}
  BY InHand DEF StackAssumption, Inv, Typed, Stacks
<1>2. /\ On(s)' = On(s) \cup {n}
      /\ \A u \in Stacks : u # s => On(u)' = On(u)
      /\ \A u \in Stacks : Chained(Chain(u), top[u].ptr, next)'
  BY GivingKeepsLists
<1>3. pc'[x] = <<l, q>> /\ \A y \in Threads : y # x => pc'[y] = pc[y]
  BY OthersPlace DEF Inv, Goto
<1>4. mine'[x] = NULL /\ \A y \in Threads : y # x => mine'[y] = mine[y]
  BY <1>1
<1>5. Lists /\ n \notin On("tos") \cup On("pool") \cup fresh
  BY DEF Inv, Lists
<1>6. \A y \in Threads : y # x => mine[y] # n
  BY <1>1, <1>5 DEF Lists
<1>7. \A u \in Stacks : \A m \in On(u) : m \in Nodes
  <2>1. \A u \in Stacks : Chain(u) \in Seq(Nodes)
    BY <1>5 DEF Lists, Chained
  <2> QED
    BY <2>1, Elements DEF On
<1> HIDE DEF n
<1>8. /\ On("tos")' \cup On("pool")' = On("tos") \cup On("pool") \cup {n}
      /\ On("tos")' \cap On("pool")' = {}
  BY <1>1, <1>2, <1>5 DEF Lists
<1>9. fresh' \cap (On("tos")' \cup On("pool")') = {}
  BY <1>5, <1>8 DEF Lists
<1>10. \A y \in Threads : mine'[y] \notin On("tos")' \cup On("pool")' \cup fresh'
  <2>1. NULL \notin On("tos") \cup On("pool") \cup fresh
    BY <1>1, <1>7 DEF Inv, Typed
  <2> QED
    BY <1>1, <1>4, <1>5, <1>6, <1>8, <2>1 DEF Lists
<1>11. \A y, z \in Threads : y # z /\ mine'[y] = mine'[z] => mine'[y] = NULL
  BY <1>4, <1>5 DEF Lists
<1>12. \A m \in Nodes : m \in On("tos")' \cup On("pool")' \cup fresh' \/ \E y \in Threads : mine'[y] = m
  <2> SUFFICES ASSUME NEW m \in Nodes, m # n
               PROVE  m \in On("tos")' \cup On("pool")' \cup fresh' \/ \E y \in Threads : mine'[y] = m
    BY <1>8
  <2>1. CASE m \in On("tos") \cup On("pool") \cup fresh
    BY <1>8, <2>1
  <2>2. CASE \E y \in Threads : mine[y] = m
    <3>1. PICK y \in Threads : mine[y] = m
      BY <2>2
    <3>2. y # x
      BY <3>1 DEF n
    <3> QED
      BY <1>4, <3>1, <3>2
  <2> QED
    BY <1>5, <2>1, <2>2 DEF Lists
<1>13. \A y \in Threads : mine'[y] # NULL <=> pc'[y][1] \in {"put", "set", "give"}
  BY <1>3, <1>4, <1>5 DEF Lists
<1> QED
  BY <1>2, <1>8, <1>9, <1>10, <1>11, <1>12, <1>13 DEF Lists

-----------------------------------------------------------------------------
(* Every step keeps the copies *)

\* A copy of another thread: a top that is changed has a tag of its own, and a link that is
\* changed is of a node in the hands of the thread that changes it.
LEMMA OthersCopy ==
    ASSUME StackAssumption, Inv, Typed', NEW x \in Threads, NEW y \in Threads, y # x,
           pc'[y] = pc[y], old'[y] = old[y], new'[y] = new[y], mine'[y] = mine[y],
           \A s \in Stacks : top'[s] = top[s] \/ top'[s].tag = top[s].tag + 1,
           \A n \in Nodes : next'[n] = next[n] \/ mine[x] = n
    PROVE  CopyHolds(y)'
<1> DEFINE s == pc[y][2]
<1>1. s \in Stacks /\ NULL \notin Nodes
  BY DEF Inv, Typed, StackAssumption
<1>2. CopyHolds(y)
  BY DEF Inv, Copies
<1>3. old[y].tag \in Nat /\ top[s].tag \in Nat /\ top[s].ptr \in Nodes \cup {NULL}
  BY <1>1 DEF Inv, Typed, Tagged
<1> HIDE DEF s
<1>4. /\ pc[y][1] \in {"next", "swap"} => old[y].ptr # NULL
      /\ pc[y][1] \in {"next", "swap", "set", "give"} =>
           old[y].tag <= top[s].tag /\ (old[y].tag = top[s].tag => old[y].ptr = top[s].ptr)
      /\ pc[y][1] = "swap" /\ old[y].tag = top[s].tag => new[y] = next[old[y].ptr]
      /\ pc[y][1] = "give" => next[mine[y]] = old[y].ptr
  BY <1>2 DEF CopyHolds, s
<1>5. top'[s] = top[s] \/ top'[s].tag = top[s].tag + 1
  BY <1>1
<1>6. pc[y][1] \in {"next", "swap", "set", "give"} =>
        old[y].tag <= top'[s].tag /\ (old[y].tag = top'[s].tag => old[y].ptr = top'[s].ptr)
  <2>1. CASE top'[s] = top[s]
    BY <1>4, <2>1
  <2>2. CASE top'[s].tag = top[s].tag + 1
    BY <1>3, <1>4, <2>2
  <2> QED
    BY <1>5, <2>1, <2>2
<1>7. pc[y][1] = "swap" /\ old[y].tag = top'[s].tag => new[y] = next'[old[y].ptr]
  <2> SUFFICES ASSUME pc[y][1] = "swap", old[y].tag = top'[s].tag
               PROVE  new[y] = next'[old[y].ptr]
    OBVIOUS
  <2>1. top'[s] = top[s] /\ old[y].tag = top[s].tag
    BY <1>3, <1>4, <1>5
  <2>2. old[y].ptr = top[s].ptr /\ old[y].ptr # NULL /\ old[y].ptr \in Nodes
    BY <1>3, <1>4, <2>1
  <2>3. Chained(Chain(s), top[s].ptr, next)
    BY <1>1 DEF Inv, Lists
  <2>4. top[s].ptr \in On(s)
    <3>1. next \in [Nodes -> Nodes \cup {NULL}]
      BY DEF Inv, Typed
    <3> QED
      BY <1>1, <2>2, <2>3, <3>1, LinkedBehind DEF On
  <2>5. mine[x] # old[y].ptr
    BY <1>1, <2>2, <2>4 DEF Inv, Lists, Stacks
  <2>6. next'[old[y].ptr] = next[old[y].ptr]
    BY <2>2, <2>5
  <2> QED
    BY <1>4, <2>1, <2>6
<1>8. pc[y][1] = "give" => next'[mine[y]] = old[y].ptr
  <2> SUFFICES ASSUME pc[y][1] = "give" PROVE next'[mine[y]] = old[y].ptr
    OBVIOUS
  <2>1. mine[y] \in Nodes
    BY InHand
  <2>2. mine[x] # mine[y]
    BY <1>1, <2>1 DEF Inv, Lists
  <2> QED
    BY <1>4, <2>1, <2>2
<1> QED
  BY <1>4, <1>6, <1>7, <1>8 DEF CopyHolds, s

\* Where a step changes: the places of one thread.
LEMMA OtherThreads ==
    ASSUME Inv, NEW x \in Threads, Step(x), NEW y \in Threads, y # x
    PROVE  pc'[y] = pc[y] /\ old'[y] = old[y] /\ new'[y] = new[y] /\ mine'[y] = mine[y] /\ t'[y] = t[y]
BY DEF Inv, Typed, Step, Push, Pop, FindEmpty, FindPoolEmpty, Allocate, TakeItem, ReadTop, ReadNext,
       CopyTop, SetNext, Give, Goto, Construct

\* A step changes a top with its tag, and a link of a node it has.
LEMMA TopsAndLinks ==
    ASSUME StackAssumption, Inv, NEW x \in Threads, Step(x)
    PROVE  /\ \A s \in Stacks : top'[s] = top[s] \/ top'[s].tag = top[s].tag + 1
           /\ \A n \in Nodes : next'[n] = next[n] \/ mine[x] = n
<1>1. ASSUME NEW s \in Stacks, NEW n \in Nodes \cup {NULL}, Cas(x, s, n)
      PROVE  \A q \in Stacks : top'[q] = top[q] \/ top'[q].tag = top[q].tag + 1
  BY <1>1, Swaps DEF Inv
<1>2. new[x] \in Nodes \cup {NULL} /\ mine[x] \in Nodes \cup {NULL} /\ "tos" \in Stacks /\ "pool" \in Stacks
  BY DEF Inv, Typed, Stacks
<1>3. \A s \in Stacks : top'[s] = top[s] \/ top'[s].tag = top[s].tag + 1
  <2>1. CASE UNCHANGED top
    BY <2>1
  <2>2. CASE Allocate(x)
    BY <1>1, <1>2, <2>1, <2>2 DEF Allocate, CasFails
  <2>3. CASE TakeItem(x)
    BY <1>1, <1>2, <2>1, <2>3 DEF TakeItem, CasFails
  <2>4. ASSUME NEW s \in Stacks, Give(x, s)
        PROVE  \A q \in Stacks : top'[q] = top[q] \/ top'[q].tag = top[q].tag + 1
    BY <1>1, <1>2, <2>1, <2>4 DEF Give, CasFails
  <2> QED
    BY <2>1, <2>2, <2>3, <2>4 DEF Step, Push, Pop, FindEmpty, FindPoolEmpty, ReadTop, ReadNext, CopyTop, SetNext
<1>4. \A n \in Nodes : next'[n] = next[n] \/ mine[x] = n
  <2>1. CASE UNCHANGED next
    BY <2>1
  <2>2. ASSUME NEW s \in Stacks, SetNext(x, s) PROVE \A n \in Nodes : next'[n] = next[n] \/ mine[x] = n
    BY <2>2 DEF SetNext, Inv, Typed
  <2> QED
    BY <2>1, <2>2 DEF Step, Push, Pop, FindEmpty, FindPoolEmpty, ReadTop, ReadNext, CopyTop, Allocate, TakeItem, Give
<1> QED
  BY <1>3, <1>4

\* At "out", "take" and "put" nothing is expected of a copy.
LEMMA NoCopy ==
    ASSUME NEW x \in Threads, pc'[x][1] \in {"out", "take", "put"} PROVE CopyHolds(x)'
BY DEF CopyHolds

LEMMA OwnCopy == ASSUME StackAssumption, Inv, Typed', NEW x \in Threads, Step(x) PROVE CopyHolds(x)'
<1>1. ASSUME NEW l \in {"out", "take", "put"}, NEW s, Goto(x, l, s) PROVE CopyHolds(x)'
  <2>1. pc'[x] = <<l, s>>
    BY <1>1, OthersPlace DEF Goto, Inv
  <2> QED
    BY <2>1, NoCopy
<1>2. /\ old \in [Threads -> Tagged] /\ top \in [Stacks -> Tagged]
      /\ new \in [Threads -> Nodes \cup {NULL}] /\ next \in [Nodes -> Nodes \cup {NULL}]
      /\ pc \in [Threads -> {"out", "take", "next", "swap", "put", "set", "give"} \X Stacks]
  BY DEF Inv, Typed
<1>3. \A s \in Stacks : top[s].tag \in Nat /\ top[s].tag <= top[s].tag
  BY <1>2 DEF Tagged
<1>4. CopyHolds(x)
  BY DEF Inv, Copies
<1>5. CASE Push(x) \/ Pop(x) \/ FindEmpty(x) \/ FindPoolEmpty(x) \/ Allocate(x) \/ TakeItem(x)
  BY <1>1, <1>5 DEF Push, Pop, FindEmpty, FindPoolEmpty, Allocate, TakeItem, Construct
<1>6. ASSUME NEW s \in Stacks, ReadTop(x, s) PROVE CopyHolds(x)'
  <2>1. /\ top[s].ptr # NULL /\ old'[x] = top[s] /\ pc'[x] = <<"next", s>> /\ top' = top
    BY <1>2, <1>6 DEF ReadTop, Goto
  <2> QED
    BY <1>3, <2>1 DEF CopyHolds
<1>7. ASSUME NEW s \in Stacks, ReadNext(x, s) PROVE CopyHolds(x)'
  <2>1. /\ pc[x] = <<"next", s>> /\ new'[x] = next[old[x].ptr] /\ pc'[x] = <<"swap", s>>
        /\ top' = top /\ next' = next /\ old' = old
    BY <1>2, <1>7 DEF ReadNext, Goto
  <2>2. old[x].ptr # NULL /\ old[x].tag <= top[s].tag /\ (old[x].tag = top[s].tag => old[x].ptr = top[s].ptr)
    BY <1>4, <2>1 DEF CopyHolds
  <2> QED
    BY <2>1, <2>2 DEF CopyHolds
<1>8. ASSUME NEW s \in Stacks, CopyTop(x, s) PROVE CopyHolds(x)'
  <2>1. /\ old'[x] = top[s] /\ pc'[x] = <<"set", s>> /\ top' = top
    BY <1>2, <1>8 DEF CopyTop, Goto
  <2> QED
    BY <1>3, <2>1 DEF CopyHolds
<1>9. ASSUME NEW s \in Stacks, SetNext(x, s) PROVE CopyHolds(x)'
  <2>1. /\ pc[x] = <<"set", s>> /\ pc'[x] = <<"give", s>> /\ top' = top /\ old' = old /\ mine' = mine
        /\ next' = [next EXCEPT ![mine[x]] = old[x].ptr]
    BY <1>2, <1>9 DEF SetNext, Goto
  <2>2. mine[x] \in Nodes
    BY <2>1, InHand
  <2>3. next'[mine[x]] = old[x].ptr
    BY <1>2, <2>1, <2>2
  <2>4. old[x].tag <= top[s].tag /\ (old[x].tag = top[s].tag => old[x].ptr = top[s].ptr)
    BY <1>4, <2>1 DEF CopyHolds
  <2> QED
    BY <2>1, <2>3, <2>4 DEF CopyHolds
<1>10. ASSUME NEW s \in Stacks, Give(x, s) PROVE CopyHolds(x)'
  BY <1>1, <1>10 DEF Give
<1> QED
  BY <1>5, <1>6, <1>7, <1>8, <1>9, <1>10 DEF Step

LEMMA CopiesKept == ASSUME StackAssumption, Inv, Typed', [Next]_vars PROVE Copies'
<1>1. ASSUME NEW x \in Threads, Step(x) PROVE Copies'
  <2>1. ASSUME NEW y \in Threads, y # x PROVE CopyHolds(y)'
    BY <1>1, <2>1, OtherThreads, TopsAndLinks, OthersCopy
  <2> QED
    BY <1>1, <2>1, OwnCopy DEF Copies
<1>2. ASSUME UNCHANGED vars PROVE Copies'
  BY <1>2 DEF vars, Inv, Copies, CopyHolds
<1> QED
  BY <1>1, <1>2 DEF Next, Finished

-----------------------------------------------------------------------------
(* Every step keeps the lists, together *)

LEMMA ListsKept == ASSUME StackAssumption, TagsTell, Inv, Typed', [Next]_vars PROVE Lists'
<1>1. ASSUME NEW x \in Threads, Step(x) PROVE Lists'
  <2>0. "tos" \in Stacks /\ "pool" \in Stacks
    BY DEF Stacks
  <2>1. CASE Push(x)
    BY <2>1, OwnStepKeepsLists DEF Push
  <2>2. CASE Pop(x)
    BY <2>2, OwnStepKeepsLists DEF Pop
  <2>3. CASE FindEmpty(x)
    BY <2>3, OwnStepKeepsLists DEF FindEmpty
  <2>4. CASE FindPoolEmpty(x)
    <3>1. CASE Static
      BY <2>4, <3>1, OwnStepKeepsLists DEF FindPoolEmpty
    <3>2. CASE ~Static
      <4> DEFINE n == CHOOSE n \in fresh : TRUE
      <4>1. n \in fresh
        BY <2>4, <3>2 DEF FindPoolEmpty
      <4>2. fresh' = fresh \ {n} /\ Construct(x, n) /\ UNCHANGED <<top, next>> /\ ~Giving(pc[x])
        BY <2>4, <3>2 DEF FindPoolEmpty, Giving
      <4> HIDE DEF n
      <4> QED
        BY <4>1, <4>2, FreshIsHeld
    <3> QED
      BY <3>1, <3>2
  <2>5. CASE Allocate(x)
    <3>1. CASE Cas(x, "pool", new[x]) /\ Construct(x, old[x].ptr)
      <4>1. /\ pc[x] = <<"swap", "pool">> /\ UNCHANGED <<next, fresh>>
            /\ mine' = [mine EXCEPT ![x] = old[x].ptr] /\ Goto(x, "put", "tos")
        BY <2>5, <3>1 DEF Allocate, Construct
      <4> QED
        BY <2>0, <3>1, <4>1, TakenIsHeld
    <3>2. CASE CasFails(x, "pool") /\ Goto(x, "take", "pool") /\ UNCHANGED <<v, mine>>
      BY <2>5, <3>2, OwnStepKeepsLists DEF Allocate, CasFails
    <3> QED
      BY <2>5, <3>1, <3>2 DEF Allocate
  <2>6. CASE TakeItem(x)
    <3>1. CASE Cas(x, "tos", new[x]) /\ mine' = [mine EXCEPT ![x] = old[x].ptr] /\ Goto(x, "put", "pool")
      <4>1. /\ pc[x] = <<"swap", "tos">> /\ UNCHANGED <<next, fresh>>
        BY <2>6 DEF TakeItem
      <4> QED
        BY <2>0, <3>1, <4>1, TakenIsHeld
    <3>2. CASE CasFails(x, "tos") /\ Goto(x, "take", "tos") /\ UNCHANGED <<t, mine>>
      BY <2>6, <3>2, OwnStepKeepsLists DEF TakeItem, CasFails
    <3> QED
      BY <2>6, <3>1, <3>2 DEF TakeItem
  <2>7. ASSUME NEW s \in Stacks, ReadTop(x, s) PROVE Lists'
    BY <2>7, OwnStepKeepsLists DEF ReadTop
  <2>8. ASSUME NEW s \in Stacks, ReadNext(x, s) PROVE Lists'
    BY <2>8, OwnStepKeepsLists DEF ReadNext
  <2>9. ASSUME NEW s \in Stacks, CopyTop(x, s) PROVE Lists'
    BY <2>9, OwnStepKeepsLists DEF CopyTop
  <2>10. ASSUME NEW s \in Stacks, SetNext(x, s) PROVE Lists'
    BY <2>10, SetNextKeepsLists
  <2>11. ASSUME NEW s \in Stacks, Give(x, s) PROVE Lists'
    <3>1. CASE Cas(x, s, mine[x]) /\ mine' = [mine EXCEPT ![x] = NULL] /\ Goto(x, "out", "tos")
      BY <2>11, <3>1, GivenIsNotHeld DEF Give
    <3>2. CASE CasFails(x, s) /\ Goto(x, "put", s) /\ UNCHANGED <<mine, t, old, new>>
      BY <2>11, <3>2, OwnStepKeepsLists DEF Give, CasFails
    <3> QED
      BY <2>11, <3>1, <3>2 DEF Give
  <2> QED
    BY <1>1, <2>1, <2>2, <2>3, <2>4, <2>5, <2>6, <2>7, <2>8, <2>9, <2>10, <2>11 DEF Step
<1>2. ASSUME UNCHANGED vars PROVE Lists'
  <2>1. \A s \in Stacks : Chain(s)' = Chain(s) /\ On(s)' = On(s)
    BY <1>2, SameChain DEF vars
  <2>2. "tos" \in Stacks /\ "pool" \in Stacks
    BY DEF Stacks
  <2> QED
    BY <1>2, <2>1, <2>2 DEF vars, Inv, Lists
<1> QED
  BY <1>1, <1>2 DEF Next, Finished

-----------------------------------------------------------------------------
(* Every step keeps the items *)

\* Only a node that has been given joins the stack.
LEMMA JoinsStack ==
    ASSUME StackAssumption, TagsTell, Inv, Typed', NEW x \in Threads, Step(x), NEW n \in On("tos")'
    PROVE  n \in On("tos") \/ (n = mine[x] /\ pc[x] = <<"give", "tos">> /\ v' = v)
<1>0. "tos" \in Stacks /\ "pool" \in Stacks /\ "tos" # "pool"
  BY DEF Stacks
<1>1. UNCHANGED <<top, next>> => On("tos")' = On("tos")
  BY SameChain
<1>2. CASE UNCHANGED <<top, next>>
  BY <1>1, <1>2
<1>3. CASE Allocate(x) /\ Cas(x, "pool", new[x])
  <2>1. pc[x] = <<"swap", "pool">> /\ next' = next
    BY <1>3 DEF Allocate
  <2>2. On("tos")' = On("tos")
    BY <1>0, <1>3, <2>1, TakingKeepsLists
  <2> QED
    BY <2>2
<1>4. CASE TakeItem(x) /\ Cas(x, "tos", new[x])
  <2>1. pc[x] = <<"swap", "tos">> /\ next' = next
    BY <1>4 DEF TakeItem
  <2>2. On("tos")' = On("tos") \ {old[x].ptr}
    BY <1>0, <1>4, <2>1, TakingKeepsLists
  <2> QED
    BY <2>2
<1>5. ASSUME NEW s \in Stacks, SetNext(x, s) PROVE n \in On("tos")
  BY <1>0, <1>5, SetNextKeepsLists
<1>6. ASSUME NEW s \in Stacks, Give(x, s), Cas(x, s, mine[x])
      PROVE  n \in On("tos") \/ (n = mine[x] /\ pc[x] = <<"give", "tos">> /\ v' = v)
  <2>1. pc[x] = <<"give", s>> /\ next' = next /\ v' = v
    BY <1>6 DEF Give
  <2>2. On(s)' = On(s) \cup {mine[x]} /\ \A q \in Stacks : q # s => On(q)' = On(q)
    BY <1>6, <2>1, GivingKeepsLists
  <2>3. CASE s = "tos"
    BY <2>1, <2>2, <2>3
  <2>4. CASE s # "tos"
    BY <1>0, <2>2, <2>4
  <2> QED
    BY <2>3, <2>4
<1> QED
  BY <1>2, <1>3, <1>4, <1>5, <1>6 DEF Step, Push, Pop, FindEmpty, FindPoolEmpty, ReadTop, ReadNext,
      CopyTop, Allocate, TakeItem, Give, CasFails

\* Only a node in hand becomes the node of another item.
LEMMA ItemsStay ==
    ASSUME StackAssumption, Inv, NEW x \in Threads, Step(x), NEW n \in Nodes
    PROVE  v'[n] = v[n] \/ (n = mine'[x] /\ v'[n] = t[x])
<1>1. ASSUME NEW m \in Nodes, Construct(x, m) PROVE v'[n] = v[n] \/ (n = mine'[x] /\ v'[n] = t[x])
  BY <1>1 DEF Construct, Inv, Typed
<1>2. CASE FindPoolEmpty(x) /\ ~Static
  <2> DEFINE m == CHOOSE m \in fresh : TRUE
  <2>1. m \in fresh /\ Construct(x, m)
    BY <1>2 DEF FindPoolEmpty
  <2>2. m \in Nodes
    BY <2>1 DEF Inv, Typed
  <2> HIDE DEF m
  <2> QED
    BY <1>1, <2>1, <2>2
<1>3. CASE Allocate(x) /\ Construct(x, old[x].ptr)
  <2>1. old[x].ptr \in Nodes
    BY <1>3, InHand DEF Allocate
  <2> QED
    BY <1>1, <1>3, <2>1
<1>4. CASE UNCHANGED v
  BY <1>4
<1> QED
  BY <1>2, <1>3, <1>4 DEF Step, Push, Pop, FindEmpty, FindPoolEmpty, ReadTop, ReadNext, CopyTop,
      SetNext, Allocate, TakeItem, Give

\* The item of another thread.
LEMMA OthersItem ==
    ASSUME StackAssumption, Inv, Lists', NEW x \in Threads, Step(x), NEW y \in Threads, y # x
    PROVE  HasItem(y)'
<1>1. pc'[y] = pc[y] /\ mine'[y] = mine[y] /\ t'[y] = t[y] /\ HasItem(y)
  BY OtherThreads DEF Inv, Placed
<1>2. pc[y][1] \in {"put", "set", "give"} => v'[mine[y]] = v[mine[y]]
  <2> SUFFICES ASSUME pc[y][1] \in {"put", "set", "give"} PROVE v'[mine[y]] = v[mine[y]]
    OBVIOUS
  <2>1. mine[y] \in Nodes /\ NULL \notin Nodes
    BY InHand DEF StackAssumption
  <2>2. mine'[x] # mine[y]
    BY <1>1, <2>1 DEF Lists
  <2> QED
    BY <2>1, <2>2, ItemsStay
<1> QED
  BY <1>1, <1>2 DEF HasItem

\* The item of the thread that makes the step.
LEMMA OwnItem ==
    ASSUME StackAssumption, TagsTell, Inv, NEW x \in Threads, Step(x)
    PROVE  HasItem(x)'
<1>1. /\ t \in [Threads -> Items \cup {NoItem}] /\ v \in [Nodes -> Items \cup {NoItem}]
      /\ pc \in [Threads -> {"out", "take", "next", "swap", "put", "set", "give"} \X Stacks]
      /\ mine \in [Threads -> Nodes \cup {NULL}]
      /\ NoItem \notin Items /\ HasItem(x) /\ "tos" # "pool"
  BY DEF Inv, Typed, Placed, StackAssumption
<1>2. ASSUME NEW l, NEW s, Goto(x, l, s) PROVE pc'[x] = <<l, s>>
  BY <1>1, <1>2 DEF Goto
<1>3. ASSUME NEW n \in Nodes, Construct(x, n), t' = t, pc[x][2] = "pool", pc[x][1] # "out"
      PROVE  HasItem(x)'
  <2>1. pc'[x] = <<"put", "tos">> /\ mine'[x] = n /\ v'[n] = t[x]
    BY <1>1, <1>2, <1>3 DEF Construct
  <2>2. t[x] # NoItem
    BY <1>1, <1>3 DEF HasItem
  <2> QED
    BY <1>3, <2>1, <2>2 DEF HasItem
<1>4. CASE Push(x)
  BY <1>1, <1>2, <1>4 DEF Push, HasItem
<1>5. CASE Pop(x)
  BY <1>1, <1>2, <1>5 DEF Pop, HasItem
<1>6. CASE FindEmpty(x)
  BY <1>1, <1>2, <1>6 DEF FindEmpty, HasItem
<1>7. CASE FindPoolEmpty(x)
  <2>1. CASE Static
    BY <1>1, <1>2, <1>7, <2>1 DEF FindPoolEmpty, HasItem
  <2>2. CASE ~Static
    <3> DEFINE n == CHOOSE n \in fresh : TRUE
    <3>1. n \in fresh /\ Construct(x, n) /\ t' = t /\ pc[x] = <<"take", "pool">>
      BY <1>7, <2>2 DEF FindPoolEmpty
    <3>2. n \in Nodes
      BY <3>1 DEF Inv, Typed
    <3> HIDE DEF n
    <3> QED
      BY <1>3, <3>1, <3>2
  <2> QED
    BY <2>1, <2>2
<1>8. CASE Allocate(x)
  <2>1. pc[x] = <<"swap", "pool">> /\ t' = t /\ old[x].ptr \in Nodes
    BY <1>8, InHand DEF Allocate
  <2>2. CASE Construct(x, old[x].ptr)
    BY <1>3, <2>1, <2>2
  <2>3. CASE Goto(x, "take", "pool")
    BY <1>1, <1>2, <2>1, <2>3 DEF HasItem
  <2> QED
    BY <1>8, <2>2, <2>3 DEF Allocate
<1>9. CASE TakeItem(x)
  <2>1. pc[x] = <<"swap", "tos">> /\ old[x].ptr \in Nodes /\ next' = next /\ "tos" \in Stacks
    BY <1>9, InHand DEF TakeItem, Stacks
  <2>2. CASE Cas(x, "tos", new[x]) /\ t' = [t EXCEPT ![x] = v[old[x].ptr]] /\ Goto(x, "put", "pool")
    <3>1. old[x].ptr \in On("tos")
      BY <2>1, <2>2, TakingKeepsLists
    <3>2. v[old[x].ptr] \in Items
      BY <3>1 DEF Inv, Placed
    <3>3. t'[x] # NoItem /\ pc'[x] = <<"put", "pool">>
      BY <1>1, <1>2, <2>2, <3>2
    <3> QED
      BY <1>1, <3>3 DEF HasItem
  <2>3. CASE UNCHANGED t /\ Goto(x, "take", "tos")
    BY <1>1, <1>2, <2>1, <2>3 DEF HasItem
  <2> QED
    BY <1>9, <2>2, <2>3 DEF TakeItem
<1>10. ASSUME NEW s \in Stacks, NEW l \in {"next", "swap"}, Goto(x, l, s), t' = t,
              pc[x] = <<"take", s>> \/ pc[x] = <<"next", s>>
       PROVE  HasItem(x)'
  BY <1>1, <1>2, <1>10 DEF HasItem
<1>11. ASSUME NEW s \in Stacks, ReadTop(x, s) PROVE HasItem(x)'
  BY <1>10, <1>11 DEF ReadTop
<1>12. ASSUME NEW s \in Stacks, ReadNext(x, s) PROVE HasItem(x)'
  BY <1>10, <1>12 DEF ReadNext
<1>13. ASSUME NEW s \in Stacks, NEW l \in {"put", "set", "give"}, Goto(x, l, s), t' = t, v' = v, mine' = mine,
              pc[x] = <<"put", s>> \/ pc[x] = <<"set", s>> \/ pc[x] = <<"give", s>>
       PROVE  HasItem(x)'
  BY <1>1, <1>2, <1>13 DEF HasItem
<1>14. ASSUME NEW s \in Stacks, CopyTop(x, s) PROVE HasItem(x)'
  BY <1>13, <1>14 DEF CopyTop
<1>15. ASSUME NEW s \in Stacks, SetNext(x, s) PROVE HasItem(x)'
  BY <1>13, <1>15 DEF SetNext
<1>16. ASSUME NEW s \in Stacks, Give(x, s) PROVE HasItem(x)'
  <2>1. CASE Goto(x, "out", "tos") /\ t' = [t EXCEPT ![x] = NoItem]
    BY <1>1, <1>2, <2>1 DEF HasItem
  <2>2. CASE Goto(x, "put", s) /\ UNCHANGED <<mine, t>>
    BY <1>13, <1>16, <2>2 DEF Give
  <2> QED
    BY <1>16, <2>1, <2>2 DEF Give
<1> QED
  BY <1>4, <1>5, <1>6, <1>7, <1>8, <1>9, <1>11, <1>12, <1>14, <1>15, <1>16 DEF Step

LEMMA PlacedKept == ASSUME StackAssumption, TagsTell, Inv, Typed', Lists', [Next]_vars PROVE Placed'
<1>1. ASSUME NEW x \in Threads, Step(x) PROVE Placed'
  <2>1. ASSUME NEW n \in On("tos")' PROVE v'[n] \in Items
    <3>1. n \in Nodes
      <4>1. Chain("tos")' \in Seq(Nodes)
        BY DEF Lists, Chained, Stacks
      <4> QED
        BY <2>1, <4>1, Elements DEF On
    <3>2. n # mine'[x]
      BY <2>1 DEF Lists
    <3>3. v'[n] = v[n]
      BY <1>1, <3>1, <3>2, ItemsStay
    <3>4. CASE n \in On("tos")
      BY <3>3, <3>4 DEF Inv, Placed
    <3>5. CASE n = mine[x] /\ pc[x] = <<"give", "tos">>
      <4>1. HasItem(x) /\ t[x] \in Items \cup {NoItem}
        BY DEF Inv, Placed, Typed
      <4>2. v[n] = t[x] /\ t[x] # NoItem
        BY <3>5, <4>1 DEF HasItem
      <4> QED
        BY <3>3, <4>1, <4>2
    <3> QED
      BY <1>1, <3>4, <3>5, JoinsStack
  <2>2. ASSUME NEW y \in Threads PROVE HasItem(y)'
    BY <1>1, OwnItem, OthersItem
  <2> QED
    BY <2>1, <2>2 DEF Placed
<1>2. ASSUME UNCHANGED vars PROVE Placed'
  <2>1. On("tos")' = On("tos")
    BY <1>2, SameChain DEF vars
  <2> QED
    BY <1>2, <2>1 DEF vars, Inv, Placed, HasItem
<1> QED
  BY <1>1, <1>2 DEF Next, Finished

LEMMA Kept == ASSUME StackAssumption, TagsTell, Inv, [Next]_vars PROVE Inv'
<1>1. Typed'
  BY TypedKept
<1>2. Lists' /\ Copies'
  BY <1>1, ListsKept, CopiesKept
<1> QED
  BY <1>1, <1>2, PlacedKept DEF Inv

-----------------------------------------------------------------------------
(* The first states *)

\* Order has every node once.
LEMMA OrderOfNodes ==
    ASSUME StackAssumption
    PROVE  /\ Cardinality(Nodes) \in Nat \ {0}
           /\ Order \in [1..Cardinality(Nodes) -> Nodes] /\ Order \in Seq(Nodes)
           /\ Len(Order) = Cardinality(Nodes)
           /\ \A i, j \in 1..Cardinality(Nodes) : Order[i] = Order[j] => i = j
           /\ \A n \in Nodes : \E i \in 1..Cardinality(Nodes) : Order[i] = n
<1> DEFINE N == Cardinality(Nodes)
<1>1. IsFiniteSet(Nodes) /\ Nodes # {}
  BY DEF StackAssumption
<1>2. N \in Nat /\ ExistsBijection(1..N, Nodes)
  BY <1>1, FS_CardinalityType
<1>3. N # 0
  BY <1>1, FS_EmptySet
<1>4. \E f \in [1..N -> Nodes] : IsInjective(f)
  BY <1>2 DEF ExistsBijection, Bijection, Injection
<1>5. Order \in [1..N -> Nodes] /\ IsInjective(Order)
  BY <1>4 DEF Order, SetToSeq
<1> HIDE DEF N
<1>6. Order \in Seq(Nodes) /\ Len(Order) = N
  BY <1>2, <1>5
<1>7. Cardinality(1..N) = N
  <2>1. 1 \in Int /\ N \in Int
    BY <1>2
  <2>2. Cardinality(1..N) = IF 1 > N THEN 0 ELSE N - 1 + 1
    BY <2>1, FS_Interval
  <2> QED
    BY <1>2, <2>2
<1>8. Order \in Injection(1..N, Nodes)
  BY <1>5 DEF Injection
<1>9. Order \in Surjection(1..N, Nodes)
  BY <1>1, <1>7, <1>8, FS_Injection DEF N
<1> QED
  BY <1>2, <1>3, <1>5, <1>6, <1>9 DEF IsInjective, Surjection, N

\* The constructor of a static pool links every node.
LEMMA PoolLinked ==
    ASSUME StackAssumption, Init, Static
    PROVE  Chained(Chain("pool"), top["pool"].ptr, next) /\ On("pool") = Nodes
<1> DEFINE N == Cardinality(Nodes)
           c == [i \in 1..N |-> Order[N + 1 - i]]
<1>1. /\ N \in Nat \ {0} /\ Order \in [1..N -> Nodes] /\ Len(Order) = N
      /\ \A i, j \in 1..N : Order[i] = Order[j] => i = j
      /\ \A n \in Nodes : \E i \in 1..N : Order[i] = n
  BY OrderOfNodes
<1> HIDE DEF N
<1>2. \A i \in 1..N : N + 1 - i \in 1..N /\ c[i] = Order[N + 1 - i] /\ c[i] \in Nodes
  BY <1>1
<1>3. c \in [1..N -> Nodes] /\ DOMAIN c = 1..N
  BY <1>2
<1>4. c \in Seq(Nodes) /\ Len(c) = N
  BY <1>1, <1>3
<1> HIDE DEF c
<1>5. IsInjective(c)
  <2> SUFFICES ASSUME NEW i \in 1..N, NEW j \in 1..N, c[i] = c[j] PROVE i = j
    BY <1>3 DEF IsInjective
  <2>1. N + 1 - i = N + 1 - j
    BY <1>1, <1>2
  <2> QED
    BY <1>1, <2>1
<1>6. top["pool"].ptr = Order[N] /\ c[1] = Order[N] /\ c # <<>> /\ c[N] = Order[1]
  <2>1. 1 \in 1..N /\ N \in 1..N /\ N + 1 - 1 = N /\ N + 1 - N = 1
    BY <1>1
  <2>2. top["pool"].ptr = Order[N]
    BY <1>1 DEF Init
  <2>3. c # <<>>
    BY <1>1, <1>4
  <2> QED
    BY <1>2, <2>1, <2>2, <2>3
<1>7. next[Order[1]] = NULL
  <2>1. Order[1] \in Nodes
    BY <1>1
  <2> QED
    BY <2>1 DEF Init
<1>8. ASSUME NEW i \in 1..N - 1 PROVE next[c[i]] = c[i + 1]
  <2>1. /\ i \in 1..N /\ i + 1 \in 1..N /\ N - i \in 1..N - 1 /\ N + 1 - i = (N - i) + 1
        /\ N + 1 - (i + 1) = N - i /\ N + 1 - i # 1 /\ 1 \in 1..N /\ N + 1 - i \in 1..N
    BY <1>1
  <2>2. c[i] = Order[(N - i) + 1] /\ c[i + 1] = Order[N - i] /\ c[i] # Order[1] /\ c[i] \in Nodes
    BY <1>1, <1>2, <2>1
  <2> DEFINE j == CHOOSE k \in 1..N - 1 : Order[k + 1] = c[i]
  <2>3. j \in 1..N - 1 /\ Order[j + 1] = c[i]
    BY <2>1, <2>2
  <2>4. next[c[i]] = Order[j]
    BY <1>1, <2>2 DEF Init
  <2> HIDE DEF j
  <2>5. j + 1 = N + 1 - i
    <3>1. j + 1 \in 1..N /\ N + 1 - i \in 1..N
      BY <1>1, <2>1, <2>3
    <3> QED
      BY <1>1, <2>1, <2>2, <2>3, <3>1
  <2>6. j = N - i
    BY <1>1, <2>1, <2>3, <2>5
  <2> QED
    BY <2>2, <2>4, <2>6
<1>9. Chained(c, top["pool"].ptr, next)
  BY <1>4, <1>5, <1>6, <1>7, <1>8 DEF Chained
<1>10. Chain("pool") = c
  BY <1>9, WalkFinds DEF Chain
<1>11. ToSet(c) = Nodes
  <2>1. ASSUME NEW n \in Nodes PROVE n \in ToSet(c)
    <3>1. PICK i \in 1..N : Order[i] = n
      BY <1>1
    <3>2. N + 1 - i \in 1..N /\ N + 1 - (N + 1 - i) = i
      BY <1>1
    <3>3. c[N + 1 - i] = n
      BY <1>2, <3>1, <3>2
    <3> QED
      BY <1>3, <3>2, <3>3 DEF ToSet
  <2> QED
    BY <1>2, <1>3, <2>1 DEF ToSet
<1> QED
  BY <1>9, <1>10, <1>11 DEF On

\* A stack without a top has no nodes.
LEMMA NothingLinked ==
    ASSUME StackAssumption, NEW s, top[s].ptr = NULL
    PROVE  Chain(s) = <<>> /\ Chained(Chain(s), top[s].ptr, next) /\ On(s) = {}
<1>1. Chained(<<>>, NULL, next)
  BY DEF Chained, IsInjective
<1>2. Walk(NULL, next) = <<>>
  BY <1>1, WalkFinds
<1>3. ToSet(<<>>) = {}
  BY DEF ToSet
<1> QED
  BY <1>1, <1>2, <1>3 DEF Chain, On

LEMMA Initially == ASSUME StackAssumption, Init PROVE Inv
<1>1. Typed
  <2>1. /\ Cardinality(Nodes) \in Nat \ {0} /\ Order \in [1..Cardinality(Nodes) -> Nodes]
        /\ Len(Order) = Cardinality(Nodes)
        /\ \A n \in Nodes : \E i \in 1..Cardinality(Nodes) : Order[i] = n
    BY OrderOfNodes
  <2>2. [ptr |-> Order[Len(Order)], tag |-> Len(Order)] \in Tagged /\ Null \in Tagged
    <3>1. Len(Order) \in 1..Cardinality(Nodes) /\ Len(Order) \in Nat
      BY <2>1
    <3> QED
      BY <2>1, <3>1 DEF Tagged, Null
  <2>3. top \in [Stacks -> Tagged]
    BY <2>2 DEF Init, Stacks
  <2>4. ASSUME NEW n \in Nodes, n # Order[1]
        PROVE  Order[CHOOSE i \in 1..Len(Order) - 1 : Order[i + 1] = n] \in Nodes
    <3>1. PICK k \in 1..Cardinality(Nodes) : Order[k] = n
      BY <2>1
    <3>2. k - 1 \in 1..Len(Order) - 1 /\ (k - 1) + 1 = k
      BY <2>1, <2>4, <3>1
    <3>3. (CHOOSE i \in 1..Len(Order) - 1 : Order[i + 1] = n) \in 1..Len(Order) - 1
      BY <3>1, <3>2
    <3>4. \A i \in 1..Len(Order) - 1 : i \in 1..Cardinality(Nodes)
      BY <2>1
    <3> QED
      BY <2>1, <3>3, <3>4
  <2>5. next \in [Nodes -> Nodes \cup {NULL}]
    BY <2>4 DEF Init
  <2>6. /\ v \in [Nodes -> Items \cup {NoItem}] /\ fresh \subseteq Nodes
        /\ pc \in [Threads -> {"out", "take", "next", "swap", "put", "set", "give"} \X Stacks]
        /\ old \in [Threads -> Tagged]
        /\ new \in [Threads -> Nodes \cup {NULL}] /\ mine \in [Threads -> Nodes \cup {NULL}]
        /\ t \in [Threads -> Items \cup {NoItem}]
    BY <2>2 DEF Init, Stacks
  <2> QED
    BY <2>3, <2>5, <2>6 DEF Typed
<1>2. Chain("tos") = <<>> /\ Chained(Chain("tos"), top["tos"].ptr, next) /\ On("tos") = {}
  BY NothingLinked DEF Init, Null
<1>3. /\ Chained(Chain("pool"), top["pool"].ptr, next)
      /\ fresh \cap On("pool") = {} /\ fresh \cup On("pool") = Nodes
  <2>1. CASE Static
    BY <2>1, PoolLinked DEF Init
  <2>2. CASE ~Static
    BY <2>2, NothingLinked DEF Init, Null
  <2> QED
    BY <2>1, <2>2
<1>4. Lists
  <2>1. \A x \in Threads : mine[x] = NULL /\ pc[x] = <<"out", "tos">>
    BY DEF Init
  <2>2. NULL \notin Nodes
    BY DEF StackAssumption
  <2>3. \A x \in Threads : mine[x] \notin On("tos") \cup On("pool") \cup fresh
    BY <1>2, <1>3, <2>1, <2>2
  <2>4. \A s \in Stacks : Chained(Chain(s), top[s].ptr, next)
    BY <1>2, <1>3 DEF Stacks
  <2> QED
    BY <1>2, <1>3, <2>1, <2>3, <2>4 DEF Lists
<1>5. Copies
  BY DEF Init, Copies, CopyHolds
<1>6. Placed
  BY <1>2 DEF Init, Placed, HasItem
<1> QED
  BY <1>1, <1>4, <1>5, <1>6 DEF Inv

LEMMA Invariant == ASSUME StackAssumption PROVE Spec /\ []TagsTell => []Inv
<1>1. Init => Inv
  BY Initially
<1>2. Inv /\ TagsTell /\ [Next]_vars => Inv'
  BY Kept
<1> QED
  BY <1>1, <1>2, PTL DEF Spec

-----------------------------------------------------------------------------
(* A node is in one place *)

\* Two sequences without repetitions, of different nodes, one after the other.
LEMMA Concatenated ==
    ASSUME NEW a \in Seq(Nodes), NEW b \in Seq(Nodes), IsInjective(a), IsInjective(b),
           ToSet(a) \cap ToSet(b) = {}
    PROVE  IsInjective(a \o b) /\ ToSet(a \o b) = ToSet(a) \cup ToSet(b)
<1> DEFINE c == a \o b
<1>1. Len(a) \in Nat /\ Len(b) \in Nat
  OBVIOUS
<1>2. /\ c \in Seq(Nodes) /\ Len(c) = Len(a) + Len(b)
      /\ \A i \in 1..Len(a) : c[i] = a[i]
      /\ \A i \in Len(a) + 1..Len(a) + Len(b) : c[i] = b[i - Len(a)]
  BY <1>1
<1> HIDE DEF c
<1>3. DOMAIN a = 1..Len(a) /\ DOMAIN b = 1..Len(b) /\ DOMAIN c = 1..Len(a) + Len(b)
  BY <1>2
<1>4. \A i \in 1..Len(a) + Len(b) : i \in 1..Len(a) \/ i \in Len(a) + 1..Len(a) + Len(b)
  BY <1>1
<1>5. \A i \in Len(a) + 1..Len(a) + Len(b) : i - Len(a) \in 1..Len(b)
  BY <1>1
<1>6. \A i \in 1..Len(b) : i + Len(a) \in Len(a) + 1..Len(a) + Len(b) /\ (i + Len(a)) - Len(a) = i
                           /\ i + Len(a) \in 1..Len(a) + Len(b)
  BY <1>1
<1>7. \A i \in 1..Len(a) : i \in 1..Len(a) + Len(b) /\ a[i] \in ToSet(a)
  BY <1>1, <1>3 DEF ToSet
<1>8. \A i \in 1..Len(b) : b[i] \in ToSet(b)
  BY <1>3 DEF ToSet
<1>9. IsInjective(c)
  <2> SUFFICES ASSUME NEW i \in DOMAIN c, NEW j \in DOMAIN c, c[i] = c[j] PROVE i = j
    BY DEF IsInjective
  <2>1. CASE i \in 1..Len(a) /\ j \in 1..Len(a)
    BY <1>2, <1>3, <2>1 DEF IsInjective
  <2>2. CASE i \in 1..Len(a) /\ j \in Len(a) + 1..Len(a) + Len(b)
    BY <1>2, <1>5, <1>7, <1>8, <2>2
  <2>3. CASE j \in 1..Len(a) /\ i \in Len(a) + 1..Len(a) + Len(b)
    BY <1>2, <1>5, <1>7, <1>8, <2>3
  <2>4. CASE i \in Len(a) + 1..Len(a) + Len(b) /\ j \in Len(a) + 1..Len(a) + Len(b)
    <3>1. i - Len(a) \in DOMAIN b /\ j - Len(a) \in DOMAIN b /\ b[i - Len(a)] = b[j - Len(a)]
      BY <1>2, <1>3, <1>5, <2>4
    <3>2. i - Len(a) = j - Len(a)
      BY <3>1 DEF IsInjective
    <3> QED
      BY <1>1, <2>4, <3>2
  <2> QED
    BY <1>3, <1>4, <2>1, <2>2, <2>3, <2>4
<1>10. ASSUME NEW n \in ToSet(c) PROVE n \in ToSet(a) \cup ToSet(b)
  <2>1. PICK i \in 1..Len(a) + Len(b) : c[i] = n
    BY <1>3 DEF ToSet
  <2> QED
    BY <1>2, <1>4, <1>5, <1>7, <1>8, <2>1
<1>11. ASSUME NEW n \in ToSet(a) PROVE n \in ToSet(c)
  BY <1>2, <1>3, <1>7 DEF ToSet
<1>12. ASSUME NEW n \in ToSet(b) PROVE n \in ToSet(c)
  <2>1. PICK i \in 1..Len(b) : b[i] = n
    BY <1>3 DEF ToSet
  <2>2. c[i + Len(a)] = n /\ i + Len(a) \in DOMAIN c
    BY <1>2, <1>3, <1>6, <2>1
  <2> QED
    BY <2>2 DEF ToSet
<1>13. ToSet(c) = ToSet(a) \cup ToSet(b)
  BY <1>10, <1>11, <1>12
<1> QED
  BY <1>9, <1>13 DEF c

LEMMA InvNodesApart == ASSUME StackAssumption, Inv PROVE NodesApart
<1> DEFINE a == Chain("tos")
           b == Chain("pool")
           held == {mine[x] : x \in Threads} \ {NULL}
<1>1. /\ a \in Seq(Nodes) /\ b \in Seq(Nodes) /\ IsInjective(a) /\ IsInjective(b)
      /\ ToSet(a) \cap ToSet(b) = {}
  BY DEF Inv, Lists, Chained, On, Stacks
<1>2. IsInjective(a \o b) /\ ToSet(a \o b) = On("tos") \cup On("pool")
  <2> HIDE DEF a, b
  <2>1. IsInjective(a \o b) /\ ToSet(a \o b) = ToSet(a) \cup ToSet(b)
    BY <1>1, Concatenated
  <2> QED
    BY <2>1 DEF a, b, On
<1>3. \A x, y \in Threads : x # y /\ mine[x] = mine[y] => mine[x] = NULL
  BY DEF Inv, Lists
<1>4. (On("tos") \cup On("pool")) \cap held = {}
  BY DEF Inv, Lists
<1>5. fresh = Nodes \ (On("tos") \cup On("pool") \cup held)
  <2>1. ASSUME NEW n \in fresh PROVE n \in Nodes \ (On("tos") \cup On("pool") \cup held)
    BY DEF Inv, Lists, Typed
  <2>2. ASSUME NEW n \in Nodes, n \notin On("tos") \cup On("pool") \cup held PROVE n \in fresh
    BY <2>2 DEF Inv, Lists, StackAssumption
  <2> QED
    BY <2>1, <2>2
<1> QED
  BY <1>2, <1>3, <1>4, <1>5 DEF NodesApart

\* NodesApart: at every moment a node is on the stack, in the pool, unused, or in the hands of
\* one thread, for any number of threads and nodes.
THEOREM NodesInOnePlace == ASSUME StackAssumption PROVE Spec /\ []TagsTell => []NodesApart
  BY Invariant, InvNodesApart, PTL

-----------------------------------------------------------------------------
(* The stack implements Lifo *)

Offered == [x \in Threads |-> IF Pushing(x) THEN t[x] ELSE NoItem]
Taken == [x \in Threads |-> IF Pushing(x) THEN NoItem ELSE t[x]]

\* What is pushed at a place.
IsPush(p) == p \in ({"put", "set", "give"} \X {"tos"}) \cup ({"take", "next", "swap"} \X {"pool"})

LEMMA StackInitially == ASSUME StackAssumption, Init PROVE Abstract!Init
<1>1. Chain("tos") = <<>>
  BY NothingLinked DEF Init, Null
<1>2. stack = <<>>
  BY <1>1 DEF stack
<1> QED
  BY <1>2 DEF Init, Abstract!Init

\* A stack with the same nodes and items is the same.
LEMMA SameStack ==
    ASSUME Inv, Chain("tos")' = Chain("tos"), \A n \in On("tos") : v'[n] = v[n]
    PROVE  stack' = stack
<1> DEFINE c == Chain("tos")
<1>1. c \in Seq(Nodes)
  BY DEF Inv, Lists, Chained, Stacks
<1>2. \A i \in DOMAIN c : c[i] \in On("tos")
  BY DEF On, ToSet
<1>3. stack = [i \in DOMAIN c |-> v[c[i]]] /\ stack' = [i \in DOMAIN c |-> v'[c[i]]]
  BY DEF stack
<1> HIDE DEF c
<1>4. \A i \in DOMAIN c : v'[c[i]] = v[c[i]]
  BY <1>2
<1> QED
  BY <1>3, <1>4

\* The items of a thread that does not step are the same for Lifo.
LEMMA AbstractOthers ==
    ASSUME Inv, NEW x \in Threads, Step(x)
    PROVE  Offered' = [Offered EXCEPT ![x] = Offered'[x]] /\ Taken' = [Taken EXCEPT ![x] = Taken'[x]]
<1>1. ASSUME NEW y \in Threads, y # x PROVE Offered'[y] = Offered[y] /\ Taken'[y] = Taken[y]
  <2>1. pc'[y] = pc[y] /\ t'[y] = t[y]
    BY <1>1, OtherThreads
  <2> QED
    BY <2>1 DEF Offered, Taken, Pushing
<1>2. /\ Offered = [y \in Threads |-> Offered[y]] /\ Offered' = [y \in Threads |-> Offered'[y]]
      /\ Taken = [y \in Threads |-> Taken[y]] /\ Taken' = [y \in Threads |-> Taken'[y]]
  BY DEF Offered, Taken
<1> HIDE DEF Offered, Taken
<1> QED
  BY <1>1, <1>2

\* What a thread offers and has taken, where the step leaves it.
LEMMA OwnPlace ==
    ASSUME NEW x \in Threads
    PROVE  /\ Offered[x] = IF IsPush(pc[x]) THEN t[x] ELSE NoItem
           /\ Taken[x] = IF IsPush(pc[x]) THEN NoItem ELSE t[x]
           /\ Offered'[x] = IF IsPush(pc'[x]) THEN t'[x] ELSE NoItem
           /\ Taken'[x] = IF IsPush(pc'[x]) THEN NoItem ELSE t'[x]
BY DEF Offered, Taken, Pushing, IsPush

\* A step that leaves the stack and a thread's item alone, and goes on with the same call.
LEMMA Stutters ==
    ASSUME Inv, NEW x \in Threads, Step(x), stack' = stack, t'[x] = t[x],
           IsPush(pc'[x]) <=> IsPush(pc[x])
    PROVE  UNCHANGED Abstract!vars
<1>1. Offered'[x] = Offered[x] /\ Taken'[x] = Taken[x]
  BY OwnPlace
<1>2. /\ Offered = [y \in Threads |-> Offered[y]] /\ Taken = [y \in Threads |-> Taken[y]]
  BY DEF Offered, Taken
<1>3. Offered' = Offered /\ Taken' = Taken
  <2> HIDE DEF Offered, Taken
  <2> QED
    BY <1>1, <1>2, AbstractOthers
<1> QED
  BY <1>3 DEF Abstract!vars, Offered, Taken

\* The step of Lifo that a change of one thread's item is.
LEMMA AbstractStep ==
    ASSUME Inv, NEW x \in Threads, Step(x)
    PROVE  /\ stack' = stack /\ Taken'[x] = Taken[x] /\ Offered[x] = NoItem /\ Offered'[x] \in Items
                => Abstract!Offer(x)
           /\ stack' = stack /\ Taken'[x] = Taken[x] /\ Offered[x] # NoItem /\ Offered'[x] = NoItem
                => Abstract!Offer(x)
           /\ stack' = <<Offered[x]>> \o stack /\ Taken'[x] = Taken[x]
              /\ Offered[x] # NoItem /\ Offered'[x] = NoItem
                => Abstract!Push(x)
           /\ stack # <<>> /\ stack' = Tail(stack) /\ Offered'[x] = Offered[x]
              /\ Taken[x] = NoItem /\ Taken'[x] = Head(stack)
                => Abstract!Pop(x)
           /\ stack' = stack /\ Offered'[x] = Offered[x] /\ Taken[x] # NoItem /\ Taken'[x] = NoItem
                => Abstract!HandOver(x)
<1>1. Offered' = [Offered EXCEPT ![x] = Offered'[x]] /\ Taken' = [Taken EXCEPT ![x] = Taken'[x]]
  BY AbstractOthers
<1>2. Offered = [y \in Threads |-> Offered[y]] /\ Taken = [y \in Threads |-> Taken[y]]
  BY DEF Offered, Taken
<1>3. (Offered'[x] = Offered[x] => Offered' = Offered) /\ (Taken'[x] = Taken[x] => Taken' = Taken)
  <2> HIDE DEF Offered, Taken
  <2> QED
    BY <1>1, <1>2
<1>4. stack' = stack /\ Taken'[x] = Taken[x] /\ Offered[x] = NoItem /\ Offered'[x] \in Items
        => Abstract!Offer(x)
  <2> SUFFICES ASSUME stack' = stack, Taken'[x] = Taken[x], Offered[x] = NoItem, Offered'[x] \in Items
               PROVE  Abstract!Offer(x)
    OBVIOUS
  <2>1. \E i \in Items : Offered' = [Offered EXCEPT ![x] = i]
    BY <1>1
  <2>2. Offered[x] = NoItem /\ stack' = stack /\ Taken' = Taken
    BY <1>3
  <2> QED
    BY <2>1, <2>2 DEF Abstract!Offer, Offered, Taken
<1>5. stack' = stack /\ Taken'[x] = Taken[x] /\ Offered[x] # NoItem /\ Offered'[x] = NoItem
        => Abstract!Offer(x)
  <2> SUFFICES ASSUME stack' = stack, Taken'[x] = Taken[x], Offered[x] # NoItem, Offered'[x] = NoItem
               PROVE  Abstract!Offer(x)
    OBVIOUS
  <2>1. Offered' = [Offered EXCEPT ![x] = NoItem]
    BY <1>1
  <2>2. Offered[x] # NoItem /\ stack' = stack /\ Taken' = Taken
    BY <1>3
  <2> QED
    BY <2>1, <2>2 DEF Abstract!Offer, Offered, Taken
<1>6. stack' = <<Offered[x]>> \o stack /\ Taken'[x] = Taken[x] /\ Offered[x] # NoItem /\ Offered'[x] = NoItem
        => Abstract!Push(x)
  <2> SUFFICES ASSUME stack' = <<Offered[x]>> \o stack, Taken'[x] = Taken[x], Offered[x] # NoItem,
                      Offered'[x] = NoItem
               PROVE  Abstract!Push(x)
    OBVIOUS
  <2>1. Offered' = [Offered EXCEPT ![x] = NoItem]
    BY <1>1
  <2>2. Offered[x] # NoItem /\ stack' = <<Offered[x]>> \o stack /\ Taken' = Taken
    BY <1>3
  <2> QED
    BY <2>1, <2>2 DEF Abstract!Push, Offered, Taken
<1>7. stack # <<>> /\ stack' = Tail(stack) /\ Offered'[x] = Offered[x] /\ Taken[x] = NoItem
      /\ Taken'[x] = Head(stack) => Abstract!Pop(x)
  <2> SUFFICES ASSUME stack # <<>>, stack' = Tail(stack), Offered'[x] = Offered[x], Taken[x] = NoItem,
                      Taken'[x] = Head(stack)
               PROVE  Abstract!Pop(x)
    OBVIOUS
  <2>1. Taken' = [Taken EXCEPT ![x] = Head(stack)]
    BY <1>1
  <2>2. Taken[x] = NoItem /\ stack # <<>> /\ stack' = Tail(stack) /\ Offered' = Offered
    BY <1>3
  <2> QED
    BY <2>1, <2>2 DEF Abstract!Pop, Offered, Taken
<1>8. stack' = stack /\ Offered'[x] = Offered[x] /\ Taken[x] # NoItem /\ Taken'[x] = NoItem
        => Abstract!HandOver(x)
  <2> SUFFICES ASSUME stack' = stack, Offered'[x] = Offered[x], Taken[x] # NoItem, Taken'[x] = NoItem
               PROVE  Abstract!HandOver(x)
    OBVIOUS
  <2>1. Taken' = [Taken EXCEPT ![x] = NoItem]
    BY <1>1
  <2>2. Taken[x] # NoItem /\ stack' = stack /\ Offered' = Offered
    BY <1>3
  <2> QED
    BY <2>1, <2>2 DEF Abstract!HandOver, Offered, Taken
<1> QED
  BY <1>4, <1>5, <1>6, <1>7, <1>8

\* The swap that puts a node in front puts its item on top.
LEMMA ItemOnTop ==
    ASSUME StackAssumption, Inv, NEW n \in Nodes, Chain("tos")' = <<n>> \o Chain("tos"), v' = v
    PROVE  stack' = <<v[n]>> \o stack
<1> DEFINE c == Chain("tos")
<1>1. c \in Seq(Nodes) /\ Len(c) \in Nat /\ DOMAIN c = 1..Len(c)
  BY DEF Inv, Lists, Chained, Stacks
<1>2. v \in [Nodes -> Items \cup {NoItem}]
  BY DEF Inv, Typed
<1>3. stack = [i \in DOMAIN c |-> v[c[i]]] /\ stack' = [i \in DOMAIN (<<n>> \o c) |-> v[(<<n>> \o c)[i]]]
  BY DEF stack
<1> HIDE DEF c
<1> DEFINE d == <<n>> \o c
           V == Items \cup {NoItem}
           p == [i \in DOMAIN c |-> v[c[i]]]
           q == [i \in DOMAIN d |-> v[d[i]]]
<1>4. /\ <<n>> \in Seq(Nodes) /\ d \in Seq(Nodes) /\ Len(d) = Len(c) + 1 /\ d[1] = n
      /\ \A i \in 2..Len(c) + 1 : d[i] = c[i - 1]
  BY <1>1
<1>5. DOMAIN d = 1..Len(c) + 1
  BY <1>1, <1>4
<1> HIDE DEF d
<1>6. p \in Seq(V) /\ Len(p) = Len(c) /\ \A i \in 1..Len(c) : p[i] = v[c[i]]
  <2>1. p \in [1..Len(c) -> V]
    BY <1>1, <1>2, Elements
  <2> QED
    BY <1>1, <2>1
<1>7. q \in Seq(V) /\ Len(q) = Len(c) + 1 /\ \A i \in 1..Len(c) + 1 : q[i] = v[d[i]]
  <2>1. q \in [1..Len(c) + 1 -> V]
    BY <1>2, <1>4, <1>5, Elements
  <2> QED
    BY <1>1, <1>5, <2>1
<1> HIDE DEF p, q
<1>8. v[n] \in V
  BY <1>2
<1> HIDE DEF V
<1> DEFINE r == <<v[n]>> \o p
<1>9. r \in Seq(V) /\ Len(r) = Len(c) + 1 /\ r[1] = v[n] /\ \A i \in 2..Len(c) + 1 : r[i] = p[i - 1]
  BY <1>1, <1>6, <1>8
<1> HIDE DEF r
<1>10. \A i \in 1..Len(q) : q[i] = r[i]
  <2> SUFFICES ASSUME NEW i \in 1..Len(c) + 1 PROVE q[i] = r[i]
    BY <1>7
  <2>1. CASE i = 1
    BY <1>4, <1>7, <1>9, <2>1
  <2>2. CASE i # 1
    <3>1. i \in 2..Len(c) + 1 /\ i - 1 \in 1..Len(c)
      BY <1>1, <2>2
    <3> QED
      BY <1>4, <1>6, <1>7, <1>9, <3>1
  <2> QED
    BY <2>1, <2>2
<1>11. q = r
  BY <1>7, <1>9, <1>10, SameSequence
<1> QED
  BY <1>3, <1>11 DEF c, d, p, q, r

\* The swap that takes the first node takes the item on top.
LEMMA ItemOffTop ==
    ASSUME StackAssumption, Inv, Chain("tos") # <<>>, Chain("tos")' = Tail(Chain("tos")), v' = v
    PROVE  stack # <<>> /\ Head(stack) = v[Head(Chain("tos"))] /\ stack' = Tail(stack)
<1> DEFINE c == Chain("tos")
<1>1. c \in Seq(Nodes) /\ Len(c) \in Nat /\ DOMAIN c = 1..Len(c) /\ c # <<>>
  BY DEF Inv, Lists, Chained, Stacks
<1>2. v \in [Nodes -> Items \cup {NoItem}]
  BY DEF Inv, Typed
<1>3. stack = [i \in DOMAIN c |-> v[c[i]]] /\ stack' = [i \in DOMAIN Tail(c) |-> v[Tail(c)[i]]]
  BY DEF stack
<1> HIDE DEF c
<1> DEFINE d == Tail(c)
           V == Items \cup {NoItem}
           p == [i \in DOMAIN c |-> v[c[i]]]
           q == [i \in DOMAIN d |-> v[d[i]]]
<1>4. /\ d \in Seq(Nodes) /\ Len(d) = Len(c) - 1 /\ DOMAIN d = 1..Len(c) - 1 /\ Head(c) = c[1]
      /\ Len(c) - 1 \in Nat /\ \A i \in 1..Len(c) - 1 : d[i] = c[i + 1] /\ i + 1 \in 1..Len(c)
  BY <1>1
<1> HIDE DEF d
<1>5. p \in Seq(V) /\ Len(p) = Len(c) /\ \A i \in 1..Len(c) : p[i] = v[c[i]]
  <2>1. p \in [1..Len(c) -> V]
    BY <1>1, <1>2, Elements
  <2> QED
    BY <1>1, <2>1
<1>6. q \in Seq(V) /\ Len(q) = Len(c) - 1 /\ \A i \in 1..Len(c) - 1 : q[i] = v[d[i]]
  <2>1. q \in [1..Len(c) - 1 -> V]
    BY <1>2, <1>4, Elements
  <2> QED
    BY <1>1, <1>4, <2>1
<1> HIDE DEF p, q, V
<1>7. p # <<>> /\ Head(p) = v[Head(c)] /\ 1 \in 1..Len(c)
  BY <1>1, <1>4, <1>5
<1>8. Tail(p) \in Seq(V) /\ Len(Tail(p)) = Len(c) - 1 /\ \A i \in 1..Len(c) - 1 : Tail(p)[i] = p[i + 1]
  BY <1>1, <1>5, <1>7
<1>9. \A i \in 1..Len(q) : q[i] = Tail(p)[i]
  <2> SUFFICES ASSUME NEW i \in 1..Len(c) - 1 PROVE q[i] = Tail(p)[i]
    BY <1>6
  <2>1. q[i] = v[c[i + 1]] /\ i + 1 \in 1..Len(c)
    BY <1>4, <1>6
  <2>2. p[i + 1] = v[c[i + 1]]
    BY <1>5, <2>1
  <2>3. Tail(p)[i] = p[i + 1]
    BY <1>8
  <2> QED
    BY <2>1, <2>2, <2>3
<1>10. q = Tail(p)
  BY <1>6, <1>8, <1>9, SameSequence
<1> QED
  BY <1>3, <1>7, <1>10 DEF c, d, p, q

LEMMA StepRefines == ASSUME StackAssumption, TagsTell, Inv, Inv', [Next]_vars PROVE [Abstract!Next]_(Abstract!vars)
<1>1. ASSUME UNCHANGED vars PROVE UNCHANGED Abstract!vars
  <2>1. Chain("tos")' = Chain("tos") /\ v' = v /\ pc' = pc /\ t' = t
    BY <1>1, SameChain DEF vars
  <2> QED
    BY <2>1 DEF Abstract!vars, stack, Pushing
<1>2. ASSUME NEW x \in Threads, Step(x) PROVE Abstract!Next \/ UNCHANGED Abstract!vars
  <2>0. /\ Offered[x] = IF IsPush(pc[x]) THEN t[x] ELSE NoItem
        /\ Taken[x] = IF IsPush(pc[x]) THEN NoItem ELSE t[x]
        /\ Offered'[x] = IF IsPush(pc'[x]) THEN t'[x] ELSE NoItem
        /\ Taken'[x] = IF IsPush(pc'[x]) THEN NoItem ELSE t'[x]
    BY OwnPlace
  <2>1. \A p, q : /\ IsPush(<<"take", "pool">>) /\ IsPush(<<"next", "pool">>) /\ IsPush(<<"swap", "pool">>)
                  /\ IsPush(<<"put", "tos">>) /\ IsPush(<<"set", "tos">>) /\ IsPush(<<"give", "tos">>)
                  /\ ~IsPush(<<"out", p>>)
                  /\ ~IsPush(<<"take", "tos">>) /\ ~IsPush(<<"next", "tos">>) /\ ~IsPush(<<"swap", "tos">>)
                  /\ ~IsPush(<<"put", "pool">>) /\ ~IsPush(<<"set", "pool">>) /\ ~IsPush(<<"give", "pool">>)
    BY DEF IsPush
  <2>2. /\ t \in [Threads -> Items \cup {NoItem}] /\ HasItem(x) /\ NoItem \notin Items
        /\ pc \in [Threads -> {"out", "take", "next", "swap", "put", "set", "give"} \X Stacks]
        /\ "tos" \in Stacks /\ "pool" \in Stacks /\ "tos" # "pool" /\ HasItem(x)' /\ t[x] \in Items \cup {NoItem}
    BY DEF Inv, Typed, Placed, StackAssumption, Stacks
  <2>3. ASSUME NEW l, NEW s, Goto(x, l, s) PROVE pc'[x] = <<l, s>>
    BY <2>2, <2>3 DEF Goto
  <2>4. ASSUME UNCHANGED <<top, next, v>> PROVE stack' = stack
    BY <2>4, SameChain, SameStack
  <2>5. ASSUME Abstract!Offer(x) \/ Abstract!Push(x) \/ Abstract!Pop(x) \/ Abstract!HandOver(x)
        PROVE  Abstract!Next
    BY <2>5 DEF Abstract!Next
  <2>6. CASE Push(x)
    <3>1. pc[x][1] = "out" /\ pc'[x] = <<"take", "pool">> /\ stack' = stack
      BY <2>3, <2>4, <2>6 DEF Push
    <3>2. t[x] = NoItem /\ t'[x] \in Items /\ pc[x] = <<"out", pc[x][2]>>
      BY <2>2, <2>6, <3>1 DEF Push, HasItem
    <3>3. Taken'[x] = Taken[x] /\ Offered[x] = NoItem /\ Offered'[x] \in Items
      BY <2>0, <2>1, <3>1, <3>2
    <3> QED
      BY <1>2, <2>5, <3>1, <3>3, AbstractStep
  <2>7. CASE Pop(x)
    <3>1. pc[x][1] = "out" /\ pc'[x] = <<"take", "tos">> /\ stack' = stack /\ t' = t
      BY <2>3, <2>4, <2>7 DEF Pop
    <3>2. pc[x] = <<"out", pc[x][2]>>
      BY <2>2, <3>1
    <3> QED
      BY <1>2, <2>1, <3>1, <3>2, Stutters
  <2>8. CASE FindEmpty(x)
    <3>1. pc[x] = <<"take", "tos">> /\ pc'[x] = <<"out", "tos">> /\ stack' = stack /\ t' = t
      BY <2>3, <2>4, <2>8 DEF FindEmpty
    <3> QED
      BY <1>2, <2>1, <3>1, Stutters
  <2>9. CASE FindPoolEmpty(x)
    <3>1. CASE Static
      <4>1. /\ pc[x] = <<"take", "pool">> /\ pc'[x] = <<"out", "tos">> /\ stack' = stack
            /\ t' = [t EXCEPT ![x] = NoItem]
        BY <2>3, <2>4, <2>9, <3>1 DEF FindPoolEmpty
      <4>2. t[x] # NoItem /\ t'[x] = NoItem
        BY <2>2, <4>1 DEF HasItem
      <4>3. Taken'[x] = Taken[x] /\ Offered[x] # NoItem /\ Offered'[x] = NoItem
        BY <2>0, <2>1, <4>1, <4>2
      <4> QED
        BY <1>2, <2>5, <4>1, <4>3, AbstractStep
    <3>2. CASE ~Static
      <4> DEFINE n == CHOOSE n \in fresh : TRUE
      <4>1. /\ n \in fresh /\ Construct(x, n) /\ pc[x] = <<"take", "pool">> /\ t' = t
            /\ UNCHANGED <<top, next>>
        BY <2>9, <3>2 DEF FindPoolEmpty
      <4> HIDE DEF n
      <4>2. pc'[x] = <<"put", "tos">> /\ v' = [v EXCEPT ![n] = t[x]]
        BY <2>3, <4>1 DEF Construct
      <4>3. n \notin On("tos")
        BY <4>1 DEF Inv, Lists
      <4>4. Chain("tos")' = Chain("tos") /\ \A m \in On("tos") : m \in Nodes
        <5>1. Chain("tos") \in Seq(Nodes)
          BY <2>2 DEF Inv, Lists, Chained
        <5> QED
          BY <4>1, <5>1, SameChain, Elements DEF On
      <4>5. \A m \in On("tos") : v'[m] = v[m]
        BY <4>2, <4>3, <4>4 DEF Inv, Typed
      <4>6. stack' = stack
        BY <4>4, <4>5, SameStack
      <4> QED
        BY <1>2, <2>1, <4>1, <4>2, <4>6, Stutters
    <3> QED
      BY <3>1, <3>2
  <2>10. CASE Allocate(x)
    <3>1. pc[x] = <<"swap", "pool">> /\ next' = next /\ t' = t
      BY <2>10 DEF Allocate
    <3>2. CASE Cas(x, "pool", new[x]) /\ Construct(x, old[x].ptr)
      <4>1. /\ Chain("tos")' = Chain("tos") /\ old[x].ptr \in On("pool")
        BY <2>2, <3>1, <3>2, TakingKeepsLists
      <4>2. old[x].ptr \notin On("tos")
        BY <4>1 DEF Inv, Lists
      <4>3. pc'[x] = <<"put", "tos">> /\ v' = [v EXCEPT ![old[x].ptr] = t[x]]
        BY <2>3, <3>2 DEF Construct
      <4>4. \A m \in On("tos") : m \in Nodes
        <5>1. Chain("tos") \in Seq(Nodes)
          BY <2>2 DEF Inv, Lists, Chained
        <5> QED
          BY <5>1, Elements DEF On
      <4>5. \A m \in On("tos") : v'[m] = v[m]
        BY <4>2, <4>3, <4>4 DEF Inv, Typed
      <4>6. stack' = stack
        BY <4>1, <4>5, SameStack
      <4> QED
        BY <1>2, <2>1, <3>1, <4>3, <4>6, Stutters
    <3>3. CASE CasFails(x, "pool") /\ Goto(x, "take", "pool") /\ UNCHANGED <<v, mine>>
      <4>1. pc'[x] = <<"take", "pool">> /\ stack' = stack
        BY <2>3, <2>4, <3>1, <3>3 DEF CasFails
      <4> QED
        BY <1>2, <2>1, <3>1, <4>1, Stutters
    <3> QED
      BY <2>10, <3>2, <3>3 DEF Allocate
  <2>11. CASE TakeItem(x)
    <3>1. pc[x] = <<"swap", "tos">> /\ next' = next /\ v' = v
      BY <2>11 DEF TakeItem
    <3>2. CASE Cas(x, "tos", new[x]) /\ t' = [t EXCEPT ![x] = v[old[x].ptr]] /\ Goto(x, "put", "pool")
      <4>1. Chain("tos") # <<>> /\ old[x].ptr = Head(Chain("tos")) /\ Chain("tos")' = Tail(Chain("tos"))
        BY <2>2, <3>1, <3>2, TakingKeepsLists
      <4>2. stack # <<>> /\ Head(stack) = v[old[x].ptr] /\ stack' = Tail(stack)
        BY <3>1, <4>1, ItemOffTop
      <4>3. pc'[x] = <<"put", "pool">> /\ t'[x] = Head(stack) /\ t[x] = NoItem
        BY <2>2, <2>3, <3>1, <3>2, <4>2 DEF HasItem
      <4>4. Offered'[x] = Offered[x] /\ Taken[x] = NoItem /\ Taken'[x] = Head(stack)
        BY <2>0, <2>1, <3>1, <4>3
      <4> QED
        BY <1>2, <2>5, <4>2, <4>4, AbstractStep
    <3>3. CASE CasFails(x, "tos") /\ Goto(x, "take", "tos") /\ UNCHANGED <<t, mine>>
      <4>1. pc'[x] = <<"take", "tos">> /\ stack' = stack /\ t' = t
        BY <2>3, <2>4, <3>1, <3>3 DEF CasFails
      <4> QED
        BY <1>2, <2>1, <3>1, <4>1, Stutters
    <3> QED
      BY <2>11, <3>2, <3>3 DEF TakeItem
  <2>12. ASSUME NEW s \in Stacks PROVE s = "tos" \/ s = "pool"
    BY DEF Stacks
  <2>13. ASSUME NEW s \in Stacks, ReadTop(x, s) PROVE UNCHANGED Abstract!vars
    <3>1. pc[x] = <<"take", s>> /\ pc'[x] = <<"next", s>> /\ stack' = stack /\ t' = t
      BY <2>3, <2>4, <2>13 DEF ReadTop
    <3> QED
      BY <1>2, <2>1, <2>12, <3>1, Stutters
  <2>14. ASSUME NEW s \in Stacks, ReadNext(x, s) PROVE UNCHANGED Abstract!vars
    <3>1. pc[x] = <<"next", s>> /\ pc'[x] = <<"swap", s>> /\ stack' = stack /\ t' = t
      BY <2>3, <2>4, <2>14 DEF ReadNext
    <3> QED
      BY <1>2, <2>1, <2>12, <3>1, Stutters
  <2>15. ASSUME NEW s \in Stacks, CopyTop(x, s) PROVE UNCHANGED Abstract!vars
    <3>1. pc[x] = <<"put", s>> /\ pc'[x] = <<"set", s>> /\ stack' = stack /\ t' = t
      BY <2>3, <2>4, <2>15 DEF CopyTop
    <3> QED
      BY <1>2, <2>1, <2>12, <3>1, Stutters
  <2>16. ASSUME NEW s \in Stacks, SetNext(x, s) PROVE UNCHANGED Abstract!vars
    <3>1. pc[x] = <<"set", s>> /\ pc'[x] = <<"give", s>> /\ t' = t /\ v' = v
      BY <2>3, <2>16 DEF SetNext
    <3>2. Chain("tos")' = Chain("tos")
      BY <2>2, <2>16, SetNextKeepsLists DEF Inv
    <3>3. stack' = stack
      BY <3>1, <3>2, SameStack
    <3> QED
      BY <1>2, <2>1, <2>12, <3>1, <3>3, Stutters
  <2>17. ASSUME NEW s \in Stacks, Give(x, s) PROVE Abstract!Next \/ UNCHANGED Abstract!vars
    <3>1. pc[x] = <<"give", s>> /\ next' = next /\ v' = v
      BY <2>17 DEF Give
    <3>2. CASE Cas(x, s, mine[x]) /\ t' = [t EXCEPT ![x] = NoItem] /\ Goto(x, "out", "tos")
      <4>1. pc'[x] = <<"out", "tos">> /\ t'[x] = NoItem /\ t[x] # NoItem
        BY <2>2, <2>3, <3>1, <3>2 DEF HasItem
      <4>2. CASE s = "tos"
        <5>1. Chain("tos")' = <<mine[x]>> \o Chain("tos") /\ mine[x] \in Nodes
          <6>1. mine[x] \in Nodes
            BY <3>1, InHand
          <6>2. pc[x] = <<"give", "tos">> /\ Cas(x, "tos", mine[x])
            BY <3>1, <3>2, <4>2
          <6> QED
            BY <2>2, <3>1, <6>1, <6>2, GivingKeepsLists
        <5>2. v[mine[x]] = t[x]
          BY <2>2, <3>1, <4>2 DEF HasItem
        <5>3. stack' = <<t[x]>> \o stack
          BY <3>1, <5>1, <5>2, ItemOnTop
        <5>4. Offered[x] = t[x] /\ Taken'[x] = Taken[x] /\ Offered'[x] = NoItem
          BY <2>0, <2>1, <3>1, <4>1, <4>2
        <5> QED
          BY <1>2, <2>5, <4>1, <5>3, <5>4, AbstractStep
      <4>3. CASE s = "pool"
        <5>1. Chain("tos")' = Chain("tos")
          BY <2>2, <3>1, <3>2, <4>3, GivingKeepsLists
        <5>2. stack' = stack
          BY <3>1, <5>1, SameStack
        <5>3. Offered'[x] = Offered[x] /\ Taken[x] # NoItem /\ Taken'[x] = NoItem
          BY <2>0, <2>1, <3>1, <4>1, <4>3
        <5> QED
          BY <1>2, <2>5, <5>2, <5>3, AbstractStep
      <4> QED
        BY <2>12, <4>2, <4>3
    <3>3. CASE CasFails(x, s) /\ Goto(x, "put", s) /\ UNCHANGED <<mine, t, old, new>>
      <4>1. pc'[x] = <<"put", s>> /\ stack' = stack /\ t' = t
        BY <2>3, <2>4, <3>1, <3>3 DEF CasFails
      <4> QED
        BY <1>2, <2>1, <2>12, <3>1, <4>1, Stutters
    <3> QED
      BY <2>17, <3>2, <3>3 DEF Give
  <2> QED
    BY <1>2, <2>6, <2>7, <2>8, <2>9, <2>10, <2>11, <2>13, <2>14, <2>15, <2>16, <2>17 DEF Step
<1> QED
  BY <1>1, <1>2 DEF Next, Finished

\* ImplementsLifo: the stack of boost::lockfree is a stack.  An item that has been pushed is
\* popped once, the one on top first, although a node may leave the stack, pass through the
\* pool and come back while another thread holds its address: for any number of threads,
\* nodes, items and calls, over either pool.
THEOREM StackIsLifo == ASSUME StackAssumption PROVE Spec /\ []TagsTell => ImplementsLifo
<1>1. Init => Abstract!Init
  BY StackInitially
<1>2. TagsTell /\ Inv /\ Inv' /\ [Next]_vars => [Abstract!Next]_(Abstract!vars)
  BY StepRefines
<1> QED
  BY <1>1, <1>2, Invariant, PTL DEF Spec, Abstract!Spec, ImplementsLifo
=============================================================================
