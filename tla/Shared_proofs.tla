---------------------------- MODULE Shared_proofs ----------------------------
(***************************************************************************)
(* Proofs about objects that threads share: PionLockedQueue, PionBlob,     *)
(* PionPlugin and PluginManager.                                           *)
(***************************************************************************)
EXTENDS LockedQueue, Blob, Plugins, PluginManager, FiniteSetTheorems, TLAPS

-----------------------------------------------------------------------------
(* PionLockedQueue implements the specification Fifo for any numbers of    *)
(* producers, consumers and pollers, whatever stop(), reset(), clear() and *)
(* spurious wake-ups do to the list of idle consumers.                     *)

\* What the refinement needs beyond the types: every node behind the dummy
\* holds an item, a producer holds one exactly from the call of push() to
\* the link, and whoever has dequeued holds one until it hands it over.
Holding ==
    /\ \A i \in 2..Len(list) : list[i].data \in Items
    /\ \A p \in Producers :
        /\ pc[p] \in {"out", "room", "link", "count", "wake"}
        /\ pc[p] \in {"room", "link"} => t[p] \in Items
        /\ pc[p] \notin {"room", "link"} => t[p] = NoItem
    /\ \A x \in Takers :
        /\ pc[x] \in {"out", "dequeue", "uncount", "look", "waiting"}
        /\ pc[x] = "uncount" => t[x] \in Items
        /\ pc[x] # "uncount" => t[x] = NoItem

Inv == TypeOK /\ Holding

USE DEF Threads, Takers, Idlers

LEMMA Initially == Init => Inv
  <1> SUFFICES ASSUME Init PROVE Inv
    OBVIOUS
  <1>1. [data |-> NoItem, version |-> 0] \in QueueNode
    BY DEF QueueNode
  <1>2. list \in Seq(QueueNode) /\ list # <<>> /\ Len(list) = 1
    BY <1>1 DEF Init
  <1> QED BY <1>2, LockedQueueAssumption DEF Init, Inv, TypeOK, Holding

\* What the operators on sequences do, for elements of any set.
LEMMA TailFacts ==
    ASSUME NEW S, NEW s \in Seq(S), s # <<>>
    PROVE  /\ Len(s) \in Nat \ {0}
           /\ \A i \in 1..Len(s) : s[i] \in S
           /\ Tail(s) \in Seq(S)
           /\ Len(Tail(s)) = Len(s) - 1
           /\ \A i \in 1..(Len(s) - 1) : Tail(s)[i] = s[i + 1]
  OBVIOUS

LEMMA AppendFacts ==
    ASSUME NEW S, NEW s \in Seq(S), NEW e \in S
    PROVE  /\ Append(s, e) \in Seq(S)
           /\ Append(s, e) # <<>>
           /\ Len(Append(s, e)) = Len(s) + 1
           /\ \A i \in 1..Len(s) : Append(s, e)[i] = s[i]
           /\ Append(s, e)[Len(s) + 1] = e
  OBVIOUS

\* Two sequences are equal when their lengths and their elements are.
LEMMA SameSequence ==
    ASSUME NEW S, NEW u \in Seq(S), NEW v \in Seq(S), Len(u) = Len(v),
           \A i \in 1..Len(u) : u[i] = v[i]
    PROVE  u = v
  OBVIOUS

\* The whole of the list, but one node at least, stays a list.
LEMMA ListSteps ==
    ASSUME TypeOK, Holding
    PROVE  /\ Last \in QueueNode
           /\ ~isEmpty => /\ Tail(list) \in Seq(QueueNode)
                          /\ Tail(list) # <<>>
                          /\ list[2].data \in Items
                          /\ \A i \in 2..Len(Tail(list)) : Tail(list)[i].data \in Items
  <1>1. Len(list) \in Nat \ {0}
    BY DEF TypeOK
  <1>2. Last \in QueueNode
    BY <1>1 DEF TypeOK, Last
  <1>3. ASSUME ~isEmpty
        PROVE  /\ Tail(list) \in Seq(QueueNode)
               /\ Tail(list) # <<>>
               /\ list[2].data \in Items
               /\ \A i \in 2..Len(Tail(list)) : Tail(list)[i].data \in Items
    <2>1. Len(list) >= 2
      BY <1>1, <1>3 DEF isEmpty
    <2>2. /\ Len(Tail(list)) = Len(list) - 1
          /\ \A i \in 1..(Len(list) - 1) : Tail(list)[i] = list[i + 1]
          /\ Tail(list) \in Seq(QueueNode)
      BY <2>1 DEF TypeOK
    <2>3. Tail(list) # <<>>
      BY <2>1, <2>2
    <2>4. \A i \in 2..Len(Tail(list)) : Tail(list)[i].data \in Items
      BY <2>1, <2>2 DEF Holding
    <2> QED BY <2>1, <2>2, <2>3, <2>4 DEF Holding
  <1> QED BY <1>2, <1>3

LEMMA PushStep == ASSUME Inv, NEW p \in Producers, Push(p) PROVE Inv'
  BY LockedQueueAssumption DEF Inv, TypeOK, Holding, Push

LEMMA FindRoomStep == ASSUME Inv, NEW p \in Producers, FindRoom(p) PROVE Inv'
  BY LockedQueueAssumption DEF Inv, TypeOK, Holding, FindRoom

LEMMA LinkStep == ASSUME Inv, NEW p \in Producers, Link(p) PROVE Inv'
  <1>1. t[p] \in Items
    BY DEF Inv, Holding, Link
  <1> DEFINE node == [data |-> t[p], version |-> m_next_version']
  <1>2. node \in QueueNode /\ list \in Seq(QueueNode) /\ list' = Append(list, node)
    BY <1>1 DEF Inv, TypeOK, Link, QueueNode
  <1>3. /\ list' \in Seq(QueueNode)
        /\ list' # <<>>
        /\ \A i \in 2..Len(list') : list'[i].data \in Items
    <2>1. /\ list' \in Seq(QueueNode)
          /\ list' # <<>>
          /\ Len(list') = Len(list) + 1
          /\ \A i \in 1..Len(list) : list'[i] = list[i]
          /\ list'[Len(list) + 1] = node
      BY <1>2, AppendFacts
    <2>2. Len(list) \in Nat
      BY <1>2
    <2>3. ASSUME NEW i \in 2..Len(list') PROVE list'[i].data \in Items
      <3>1. CASE i = Len(list) + 1
        BY <3>1, <2>1, <1>1
      <3>2. CASE i \in 2..Len(list)
        BY <3>2, <2>1 DEF Inv, Holding
      <3> QED BY <2>1, <2>2, <3>1, <3>2
    <2> QED BY <2>1, <2>3
  <1>4. TypeOK'
    BY <1>3, LockedQueueAssumption DEF Inv, TypeOK, Link
  <1>5. Holding'
    BY <1>3, LockedQueueAssumption DEF Inv, TypeOK, Holding, Link
  <1> QED BY <1>4, <1>5 DEF Inv

LEMMA CountStep == ASSUME Inv, NEW p \in Producers, Count(p) PROVE Inv'
  BY LockedQueueAssumption DEF Inv, TypeOK, Holding, Count

LEMMA WakeIdleStep == ASSUME Inv, NEW p \in Producers, WakeIdle(p) PROVE Inv'
  <1>1. m_wakeup_event' \in [Consumers -> BOOLEAN] /\ m_idle_ptr' \in Consumers \cup {NoOne}
    BY LockedQueueAssumption DEF Inv, TypeOK, WakeIdle, Notified
  <1> QED BY <1>1, LockedQueueAssumption DEF Inv, TypeOK, Holding, WakeIdle

LEMMA PopStep == ASSUME Inv, NEW c \in Consumers, Pop(c) PROVE Inv'
  BY LockedQueueAssumption DEF Inv, TypeOK, Holding, Pop

\* dequeue() for a consumer that waits and for one that does not.
LEMMA DequeueStep ==
    ASSUME Inv, NEW x \in Takers, Dequeue(x), pc' = [pc EXCEPT ![x] = "uncount"],
           UNCHANGED <<m_next_version, m_size, m_tail_mutex, Idlers>>
    PROVE  Inv'
  <1>1. /\ list' \in Seq(QueueNode)
        /\ list' # <<>>
        /\ \A i \in 2..Len(list') : list'[i].data \in Items
        /\ list[2].data \in Items
    BY ListSteps DEF Inv, Dequeue
  <1>2. TypeOK'
    BY <1>1, LockedQueueAssumption DEF Inv, TypeOK, Dequeue
  <1>3. Holding'
    BY <1>1, LockedQueueAssumption DEF Inv, TypeOK, Holding, Dequeue
  <1> QED BY <1>2, <1>3 DEF Inv

LEMMA FindEmptyStep == ASSUME Inv, NEW c \in Consumers, FindEmpty(c) PROVE Inv'
  <1>1. list[1] \in QueueNode
    BY TailFacts DEF Inv, TypeOK
  <1>2. list[1].version \in Nat
    BY <1>1 DEF QueueNode
  <1> QED BY <1>2, LockedQueueAssumption DEF Inv, TypeOK, Holding, FindEmpty

LEMMA UncountStep == ASSUME Inv, NEW x \in Takers, Uncount(x) PROVE Inv'
  <1>1. m_size' \in Int
    BY DEF Inv, TypeOK, Uncount
  <1> QED BY <1>1, LockedQueueAssumption DEF Inv, TypeOK, Holding, Uncount

LEMMA WaitStep == ASSUME Inv, NEW c \in Consumers, Wait(c) PROVE Inv'
  BY LockedQueueAssumption DEF Inv, TypeOK, Holding, Wait

LEMMA LookAgainStep == ASSUME Inv, NEW c \in Consumers, LookAgain(c) PROVE Inv'
  BY LockedQueueAssumption DEF Inv, TypeOK, Holding, LookAgain, Again

LEMMA WakeUpStep == ASSUME Inv, NEW c \in Consumers, WakeUp(c) PROVE Inv'
  BY LockedQueueAssumption DEF Inv, TypeOK, Holding, WakeUp, Again

LEMMA StopStep == ASSUME Inv, NEW c \in Consumers, Stop(c) PROVE Inv'
  BY LockedQueueAssumption DEF Inv, TypeOK, Holding, Stop, Notified

LEMMA ResetStep == ASSUME Inv, NEW c \in Consumers, Reset(c) PROVE Inv'
  BY LockedQueueAssumption DEF Inv, TypeOK, Holding, Reset

LEMMA ClearStep == ASSUME Inv, Clear PROVE Inv'
  <1>1. Last \in QueueNode /\ Len(list) \in Nat
    BY ListSteps DEF Inv, TypeOK
  <1>2. /\ list' \in Seq(QueueNode)
        /\ list' # <<>>
        /\ Len(list') = 1
    BY <1>1 DEF Clear
  <1> QED BY <1>1, <1>2, LockedQueueAssumption DEF Inv, TypeOK, Holding, Clear

LEMMA NextStep == Inv /\ [Next]_vars => Inv'
  <1> SUFFICES ASSUME Inv, [Next]_vars PROVE Inv'
    OBVIOUS
  <1>1. ASSUME NEW p \in Producers, Push(p) \/ Producing(p) PROVE Inv'
    BY <1>1, PushStep, FindRoomStep, LinkStep, CountStep, WakeIdleStep DEF Producing
  <1>2. ASSUME NEW c \in Consumers, Pop(c) \/ Consuming(c) \/ WakeUp(c) PROVE Inv'
    <2>1. CASE Take(c)
      BY <2>1, <1>2, DequeueStep DEF Take
    <2> QED BY <1>2, <2>1, PopStep, FindEmptyStep, UncountStep, WaitStep, LookAgainStep, WakeUpStep
            DEF Consuming
  <1>3. ASSUME NEW c \in Stoppable, Stop(c) PROVE Inv'
    BY <1>3, StopStep, LockedQueueAssumption
  <1>4. ASSUME NEW c \in Resettable, Reset(c) PROVE Inv'
    BY <1>4, ResetStep, LockedQueueAssumption
  <1>5. ASSUME NEW x \in Pollers, Poll(x) \/ Uncount(x) PROVE Inv'
    <2>1. CASE Poll(x)
      BY <2>1, <1>5, DequeueStep DEF Poll
    <2> QED BY <1>5, <2>1, UncountStep
  <1>6. CASE Clear
    BY <1>6, ClearStep
  <1>7. CASE UNCHANGED vars
    BY <1>7 DEF vars, Inv, TypeOK, Holding
  <1> QED BY <1>1, <1>2, <1>3, <1>4, <1>5, <1>6, <1>7 DEF Next

LEMMA Invariance == Spec => []Inv
  BY Initially, NextStep, PTL DEF Spec

\* Every variable keeps its type; in particular the list always has its
\* dummy node, which dequeue() and clear() rely on.
THEOREM TypeCorrect == Spec => []TypeOK
  BY Invariance, PTL DEF Inv

-----------------------------------------------------------------------------
(* The refinement: every step is a step of Fifo or leaves its state alone. *)

\* The items behind the dummy are a sequence.
LEMMA QueueIsSequence ==
    ASSUME NEW l \in Seq(QueueNode), l # <<>>, \A i \in 2..Len(l) : l[i].data \in Items
    PROVE  /\ [i \in 1..(Len(l) - 1) |-> l[i + 1].data] \in Seq(Items)
           /\ Len([i \in 1..(Len(l) - 1) |-> l[i + 1].data]) = Len(l) - 1
  <1>1. Len(l) \in Nat \ {0}
    BY TailFacts
  <1>2. \A i \in 1..(Len(l) - 1) : l[i + 1].data \in Items
    BY <1>1
  <1> QED BY <1>1, <1>2

LEMMA QueueInitially == Init => Abstract!Init
  <1> SUFFICES ASSUME Init PROVE Abstract!Init
    OBVIOUS
  <1>1. Len(list) = 1
    BY DEF Init
  <1>2. queue = <<>>
    BY <1>1 DEF queue
  <1> QED BY <1>2 DEF Init, Abstract!Init

LEMMA QueueUnchanged ==
    ASSUME list' = list, t' = t
    PROVE  UNCHANGED Abstract!vars
  BY DEF Abstract!vars, queue

LEMMA LinkRefines == ASSUME Inv, NEW p \in Producers, Link(p) PROVE Abstract!Push(p)
  <1>1. t[p] \in Items /\ t[p] # NoItem
    BY LockedQueueAssumption DEF Inv, Holding, Link
  <1> DEFINE node == [data |-> t[p], version |-> m_next_version']
  <1>2. /\ list \in Seq(QueueNode) /\ list' = Append(list, node) /\ Len(list) \in Nat \ {0}
        /\ node \in QueueNode
    BY <1>1 DEF Inv, TypeOK, Link, QueueNode
  <1>3. /\ Len(list') = Len(list) + 1
        /\ \A i \in 1..Len(list) : list'[i] = list[i]
        /\ list'[Len(list) + 1].data = t[p]
    BY <1>2, AppendFacts
  <1>4. queue \in Seq(Items) /\ Len(queue) = Len(list) - 1
    BY QueueIsSequence DEF queue, Inv, TypeOK, Holding
  <1>5. queue' = Append(queue, t[p])
    <2>1. /\ Append(queue, t[p]) \in Seq(Items)
          /\ Len(Append(queue, t[p])) = Len(list)
          /\ \A i \in 1..(Len(list) - 1) : Append(queue, t[p])[i] = queue[i]
          /\ Append(queue, t[p])[Len(list)] = t[p]
      BY <1>1, <1>2, <1>4, AppendFacts
    <2>2. /\ queue' \in Seq(Items)
          /\ Len(queue') = Len(list)
      <3>1. list' \in Seq(QueueNode) /\ list' # <<>> /\ \A i \in 2..Len(list') : list'[i].data \in Items
        BY LinkStep DEF Inv, TypeOK, Holding
      <3>2. /\ queue' \in Seq(Items)
            /\ Len(queue') = Len(list') - 1
        BY <3>1, QueueIsSequence DEF queue
      <3> QED BY <3>2, <1>2, <1>3
    <2>3. ASSUME NEW i \in 1..Len(list) PROVE queue'[i] = Append(queue, t[p])[i]
      <3>1. queue'[i] = list'[i + 1].data
        BY <1>2, <1>3 DEF queue
      <3>2. CASE i = Len(list)
        BY <3>1, <3>2, <1>3, <2>1
      <3>3. CASE i \in 1..(Len(list) - 1)
        <4>1. i + 1 \in 1..Len(list)
          BY <3>3, <1>2
        <4>2. queue'[i] = list[i + 1].data
          BY <3>1, <4>1, <1>3
        <4>3. queue[i] = list[i + 1].data
          BY <3>3 DEF queue
        <4> QED BY <4>2, <4>3, <3>3, <2>1
      <3>4. i = Len(list) \/ i \in 1..(Len(list) - 1)
        BY <1>2
      <3> QED BY <3>2, <3>3, <3>4
    <2>4. Len(queue') = Len(Append(queue, t[p]))
      BY <2>1, <2>2
    <2> QED BY <2>1, <2>2, <2>3, <2>4, SameSequence
  <1>6. t' = [t EXCEPT ![p] = NoItem] /\ t \in [Threads -> Items \cup {NoItem}]
    BY DEF Inv, TypeOK, Link
  <1> QED BY <1>1, <1>5, <1>6, LockedQueueAssumption DEF Abstract!Push

LEMMA DequeueRefines ==
    ASSUME Inv, NEW x \in Takers, pc[x] # "uncount", Dequeue(x)
    PROVE  Abstract!Pop(x)
  <1>1. /\ list \in Seq(QueueNode) /\ list # <<>>
        /\ Len(list) \in Nat /\ Len(list) >= 2
        /\ list' = Tail(list)
    <2>1. list \in Seq(QueueNode) /\ list # <<>> /\ Len(list) # 1 /\ list' = Tail(list)
      BY DEF Inv, TypeOK, Dequeue, isEmpty
    <2>2. Len(list) \in Nat \ {0}
      BY <2>1, TailFacts
    <2>3. \A n \in Nat \ {0} : n # 1 => n >= 2
      OBVIOUS
    <2>4. Len(list) >= 2
      BY <2>1, <2>2, <2>3, Zenon
    <2> QED BY <2>1, <2>2, <2>4
  <1>2. /\ list' \in Seq(QueueNode)
        /\ Len(list') = Len(list) - 1
        /\ \A i \in 1..(Len(list) - 1) : list'[i] = list[i + 1]
    BY <1>1, TailFacts
  <1>3. queue \in Seq(Items) /\ Len(queue) = Len(list) - 1
    BY QueueIsSequence DEF queue, Inv, TypeOK, Holding
  <1>4. queue # <<>> /\ Head(queue) = list[2].data
    <2>1. queue # <<>>
      BY <1>1, <1>3
    <2>2. 1 \in 1..(Len(list) - 1)
      BY <1>1
    <2>3. queue[1] = list[1 + 1].data
      BY <2>2 DEF queue
    <2> QED BY <1>3, <2>1, <2>3
  <1>5. queue' = Tail(queue)
    <2>1. /\ Tail(queue) \in Seq(Items)
          /\ Len(Tail(queue)) = Len(list) - 2
          /\ \A i \in 1..(Len(list) - 2) : Tail(queue)[i] = queue[i + 1]
      BY <1>1, <1>3, <1>4, TailFacts
    <2>2. /\ list' # <<>>
          /\ \A i \in 2..Len(list') : list'[i].data \in Items
      BY ListSteps DEF Inv, Dequeue
    <2>3. /\ queue' \in Seq(Items)
          /\ Len(queue') = Len(list) - 2
      <3>1. queue' \in Seq(Items) /\ Len(queue') = Len(list') - 1
        BY <1>2, <2>2, QueueIsSequence DEF queue
      <3> QED BY <1>1, <1>2, <3>1
    <2>4. ASSUME NEW i \in 1..(Len(list) - 2) PROVE queue'[i] = Tail(queue)[i]
      <3>1. queue'[i] = list'[i + 1].data
        BY <1>1, <1>2 DEF queue
      <3>2. list'[i + 1] = list[i + 2]
        BY <1>1, <1>2
      <3>3. queue[i + 1] = list[i + 2].data
        BY <1>1 DEF queue
      <3> QED BY <3>1, <3>2, <3>3, <2>1
    <2>5. Len(queue') = Len(Tail(queue))
      BY <2>1, <2>3
    <2> QED BY <2>1, <2>3, <2>4, <2>5, SameSequence
  <1>6. /\ t' = [t EXCEPT ![x] = list[2].data]
        /\ t \in [Threads -> Items \cup {NoItem}]
        /\ t[x] = NoItem
    BY DEF Inv, TypeOK, Holding, Dequeue
  <1> QED BY <1>4, <1>5, <1>6, LockedQueueAssumption DEF Abstract!Pop

LEMMA UncountRefines == ASSUME Inv, NEW x \in Takers, Uncount(x) PROVE Abstract!HandOver(x)
  <1>1. t[x] # NoItem /\ t \in [Threads -> Items \cup {NoItem}]
    BY LockedQueueAssumption DEF Inv, TypeOK, Holding, Uncount
  <1> QED BY <1>1, LockedQueueAssumption DEF Uncount, Abstract!HandOver, queue

LEMMA PushRefines == ASSUME Inv, NEW p \in Producers, Push(p) PROVE Abstract!Offer(p)
  <1>1. t[p] = NoItem /\ t \in [Threads -> Items \cup {NoItem}]
    BY DEF Inv, TypeOK, Holding, Push
  <1> QED BY <1>1, LockedQueueAssumption DEF Push, Abstract!Offer, queue

LEMMA ClearRefines == ASSUME Inv, Clear PROVE Abstract!Clear
  <1>1. Len(list') = 1
    BY DEF Clear
  <1>2. queue' = <<>>
    BY <1>1 DEF queue
  <1> QED BY <1>2 DEF Clear, Abstract!Clear

LEMMA StepRefines == Inv /\ [Next]_vars => [Abstract!Next]_(Abstract!vars)
  <1> SUFFICES ASSUME Inv, [Next]_vars PROVE [Abstract!Next]_(Abstract!vars)
    OBVIOUS
  <1>1. ASSUME NEW p \in Producers, Push(p) \/ Producing(p) PROVE [Abstract!Next]_(Abstract!vars)
    <2>1. CASE FindRoom(p) \/ Count(p) \/ WakeIdle(p)
      BY <2>1, QueueUnchanged DEF FindRoom, Count, WakeIdle
    <2> QED BY <1>1, <2>1, PushRefines, LinkRefines DEF Producing, Abstract!Next
  <1>2. ASSUME NEW c \in Consumers, Pop(c) \/ Consuming(c) \/ WakeUp(c)
        PROVE [Abstract!Next]_(Abstract!vars)
    <2>1. CASE Pop(c) \/ FindEmpty(c) \/ Wait(c) \/ LookAgain(c) \/ WakeUp(c)
      BY <2>1, QueueUnchanged DEF Pop, FindEmpty, Wait, LookAgain, WakeUp
    <2>2. CASE Take(c)
      BY <2>2, DequeueRefines DEF Take, Abstract!Next
    <2>3. CASE Uncount(c)
      BY <2>3, UncountRefines DEF Abstract!Next
    <2> QED BY <1>2, <2>1, <2>2, <2>3 DEF Consuming
  <1>3. ASSUME NEW c \in Stoppable, Stop(c) PROVE [Abstract!Next]_(Abstract!vars)
    BY <1>3, QueueUnchanged DEF Stop
  <1>4. ASSUME NEW c \in Resettable, Reset(c) PROVE [Abstract!Next]_(Abstract!vars)
    BY <1>4, QueueUnchanged DEF Reset
  <1>5. ASSUME NEW x \in Pollers, Poll(x) \/ Uncount(x) PROVE [Abstract!Next]_(Abstract!vars)
    <2>1. CASE Poll(x)
      BY <2>1, DequeueRefines DEF Poll, Abstract!Next
    <2>2. CASE Uncount(x)
      BY <2>2, UncountRefines DEF Abstract!Next
    <2> QED BY <1>5, <2>1, <2>2
  <1>6. CASE Clear
    BY <1>6, ClearRefines DEF Abstract!Next
  <1>7. CASE UNCHANGED vars
    BY <1>7, QueueUnchanged DEF vars
  <1> QED BY <1>1, <1>2, <1>3, <1>4, <1>5, <1>6, <1>7 DEF Next

\* PionLockedQueue is a FIFO queue: every push() takes effect once, at the
\* back, and every successful pop() removes the item at the front, for any
\* number of threads on either side of the two locks.
THEOREM Refinement == Spec => ImplementsFifo
  <1>1. Init => Abstract!Init
    BY QueueInitially
  <1>2. Inv /\ [Next]_vars => [Abstract!Next]_(Abstract!vars)
    BY StepRefines
  <1> QED BY <1>1, <1>2, Invariance, PTL DEF Spec, ImplementsFifo, Abstract!Spec

-----------------------------------------------------------------------------
(* The limit.                                                              *)

\* The producers that have found room, the takers that have not counted down yet, and
\* whether a linked item has not been counted.
Linking == {p \in Producers : pc[p] = "link"}
Uncounting == {x \in Takers : pc[x] = "uncount"}
Late == IF \E p \in Producers : pc[p] = "count" THEN 1 ELSE 0

\* m_size is off by what is under way; a producer that has found room has its place.
Sized ==
    /\ \A p \in Producers : pc[p] \in {"count", "wake"} <=> m_tail_mutex = p
    /\ m_size = Len(list) - 1 + Cardinality(Uncounting) - Late
    /\ Len(list) - 1 + Cardinality(Linking) <= MaxSize + Cardinality(Producers) - 1

LEMMA CountsFinite ==
    /\ IsFiniteSet(Producers) /\ IsFiniteSet(Linking) /\ IsFiniteSet(Uncounting)
    /\ Cardinality(Producers) \in Nat /\ Cardinality(Linking) \in Nat /\ Cardinality(Uncounting) \in Nat
  <1>1. Linking \subseteq Producers /\ Uncounting \subseteq Takers
    BY DEF Linking, Uncounting
  <1>2. IsFiniteSet(Producers) /\ IsFiniteSet(Takers)
    BY LockedQueueAssumption, FS_Subset
  <1>3. IsFiniteSet(Linking) /\ IsFiniteSet(Uncounting)
    BY <1>1, <1>2, FS_Subset
  <1> QED  BY <1>2, <1>3, FS_CardinalityType

\* A producer that looks for room is neither one that has found it nor the one that counts.
LEMMA OthersLink ==
    ASSUME Inv, Sized, NEW p \in Producers, pc[p] = "room"
    PROVE  Cardinality(Linking) + Late <= Cardinality(Producers) - 1
  <1>1. IsFiniteSet(Producers \ {p}) /\ Cardinality(Producers \ {p}) = Cardinality(Producers) - 1
    BY CountsFinite, FS_RemoveElement
  <1>2. CASE Late = 0
    <2>1. Linking \subseteq Producers \ {p}
      BY DEF Linking
    <2>2. Cardinality(Linking) <= Cardinality(Producers \ {p})
      BY <1>1, <2>1, FS_Subset
    <2> QED  BY <1>1, <1>2, <2>2, CountsFinite
  <1>3. CASE Late # 0
    <2>1. PICK q \in Producers : pc[q] = "count"
      BY <1>3 DEF Late
    <2>2. Linking \cup {q} \subseteq Producers \ {p}
      BY <2>1 DEF Linking
    <2>3. Cardinality(Linking \cup {q}) <= Cardinality(Producers \ {p})
      BY <1>1, <2>2, FS_Subset
    <2>4. q \notin Linking
      BY <2>1 DEF Linking
    <2>5. Cardinality(Linking \cup {q}) = Cardinality(Linking) + 1
      BY <2>4, CountsFinite, FS_AddElement
    <2> QED  BY <1>1, <1>3, <2>3, <2>5, CountsFinite DEF Late
  <1> QED  BY <1>2, <1>3

LEMMA SizedInit == ASSUME Init PROVE Sized
  <1>1. Linking = {} /\ Uncounting = {} /\ Late = 0 /\ Len(list) = 1 /\ m_size = 0
    BY DEF Init, Linking, Uncounting, Late
  <1>2. \A p \in Producers : pc[p] \in {"count", "wake"} <=> m_tail_mutex = p
    BY LockedQueueAssumption DEF Init
  <1>3. Cardinality({}) = 0
    BY FS_EmptySet
  <1> QED  BY <1>1, <1>2, <1>3, CountsFinite, LockedQueueAssumption DEF Sized

\* The steps that neither link nor count.
LEMMA SizedOtherwise ==
    ASSUME Inv, Sized,
           \/ \E p \in Producers : Push(p) \/ WakeIdle(p)
           \/ \E c \in Consumers : Pop(c) \/ FindEmpty(c) \/ Wait(c) \/ LookAgain(c) \/ WakeUp(c)
                                  \/ Stop(c) \/ Reset(c)
           \/ UNCHANGED vars
    PROVE  Sized'
  <1>1. list' = list /\ m_size' = m_size
    BY DEF Push, WakeIdle, Pop, FindEmpty, Wait, LookAgain, WakeUp, Stop, Reset, vars
  <1>2. /\ \A x \in Threads : pc'[x] \in {"link", "uncount", "count"} \/ pc[x] \in {"link", "uncount", "count"}
                               => pc'[x] = pc[x]
        /\ \A p \in Producers : pc'[p] \in {"count", "wake"} <=> m_tail_mutex' = p
    <2>1. CASE \E p \in Producers : Push(p)
      BY <2>1, LockedQueueAssumption DEF Push, Inv, TypeOK, Sized
    <2>2. CASE \E p \in Producers : WakeIdle(p)
      BY <2>2, LockedQueueAssumption DEF WakeIdle, Inv, TypeOK, Sized
    <2>3. CASE \E c \in Consumers : Pop(c) \/ FindEmpty(c) \/ Wait(c)
      BY <2>3, LockedQueueAssumption DEF Pop, FindEmpty, Wait, Inv, TypeOK, Sized
    <2>4. CASE \E c \in Consumers : LookAgain(c) \/ WakeUp(c) \/ Stop(c) \/ Reset(c)
      BY <2>4, LockedQueueAssumption DEF LookAgain, WakeUp, Again, Stop, Reset, Inv, TypeOK, Sized
    <2>5. CASE UNCHANGED vars
      BY <2>5 DEF vars, Sized
    <2> QED  BY <2>1, <2>2, <2>3, <2>4, <2>5
  <1>3. Linking' = Linking /\ Uncounting' = Uncounting /\ Late' = Late
    BY <1>2 DEF Linking, Uncounting, Late
  <1> QED  BY <1>1, <1>2, <1>3 DEF Sized

LEMMA SizedFindRoom == ASSUME Inv, Sized, NEW p \in Producers, FindRoom(p) PROVE Sized'
  <1>1. Linking' = Linking \cup {p} /\ p \notin Linking /\ Uncounting' = Uncounting /\ Late' = Late
    BY LockedQueueAssumption DEF FindRoom, Inv, TypeOK, Linking, Uncounting, Late
  <1>2. Cardinality(Linking') = Cardinality(Linking) + 1
    BY <1>1, CountsFinite, FS_AddElement
  <1>3. m_size < MaxSize /\ m_size \in Int /\ MaxSize \in Nat
    BY LockedQueueAssumption DEF FindRoom, size, Inv, TypeOK
  <1>4. Cardinality(Linking) + Late <= Cardinality(Producers) - 1
    BY OthersLink DEF FindRoom
  <1>5. Late \in 0..1 /\ Len(list) \in Nat
    BY DEF Late, Inv, TypeOK
  <1>6. Len(list) - 1 + Cardinality(Linking) + 1 <= MaxSize + Cardinality(Producers) - 1
    BY <1>3, <1>4, <1>5, CountsFinite DEF Sized
  <1>7. list' = list /\ m_size' = m_size
    BY DEF FindRoom
  <1>8. \A q \in Producers : pc'[q] \in {"count", "wake"} <=> m_tail_mutex' = q
    BY DEF FindRoom, Inv, TypeOK, Sized
  <1>9. m_size' = Len(list') - 1 + Cardinality(Uncounting') - Late'
    BY <1>1, <1>7 DEF Sized
  <1>10. Len(list') - 1 + Cardinality(Linking') <= MaxSize + Cardinality(Producers) - 1
    BY <1>2, <1>5, <1>6, <1>7, CountsFinite
  <1> QED  BY <1>8, <1>9, <1>10 DEF Sized

LEMMA SizedLink == ASSUME Inv, Sized, NEW p \in Producers, Link(p) PROVE Sized'
  <1>1. \A q \in Producers : pc[q] \notin {"count", "wake"}
    BY LockedQueueAssumption DEF Link, Sized
  <1>2. Linking' = Linking \ {p} /\ p \in Linking /\ Uncounting' = Uncounting /\ Late = 0 /\ Late' = 1
    BY <1>1, LockedQueueAssumption DEF Link, Inv, TypeOK, Linking, Uncounting, Late
  <1>3. Cardinality(Linking') = Cardinality(Linking) - 1
    BY <1>2, CountsFinite, FS_RemoveElement
  <1>4. Len(list') = Len(list) + 1 /\ Len(list) \in Nat
    <2>1. [data |-> t[p], version |-> m_next_version'] \in QueueNode
      BY DEF Link, Inv, TypeOK, QueueNode
    <2>2. list \in Seq(QueueNode) /\ list' = Append(list, [data |-> t[p], version |-> m_next_version'])
      BY DEF Link, Inv, TypeOK
    <2> QED  BY <2>1, <2>2, AppendFacts
  <1>5. m_size' = m_size
    BY DEF Link
  <1>6. \A q \in Producers : pc'[q] \in {"count", "wake"} <=> m_tail_mutex' = q
    BY <1>1 DEF Link, Inv, TypeOK
  <1> QED  BY <1>2, <1>3, <1>4, <1>5, <1>6, CountsFinite, LockedQueueAssumption DEF Sized

LEMMA SizedCount == ASSUME Inv, Sized, NEW p \in Producers, Count(p) PROVE Sized'
  <1>1. \A q \in Producers : pc[q] = "count" => q = p
    BY DEF Count, Sized
  <1>2. Linking' = Linking /\ Uncounting' = Uncounting /\ Late = 1 /\ Late' = 0
    BY <1>1, LockedQueueAssumption DEF Count, Inv, TypeOK, Linking, Uncounting, Late
  <1>3. list' = list /\ m_size' = m_size + 1 /\ Len(list) \in Nat
    BY DEF Count, Inv, TypeOK
  <1>4. \A q \in Producers : pc'[q] \in {"count", "wake"} <=> m_tail_mutex' = q
    BY DEF Count, Inv, TypeOK, Sized
  <1>5. m_size' = Len(list') - 1 + Cardinality(Uncounting') - Late'
    BY <1>2, <1>3, CountsFinite DEF Sized
  <1>6. Len(list') - 1 + Cardinality(Linking') <= MaxSize + Cardinality(Producers) - 1
    BY <1>2, <1>3 DEF Sized
  <1> QED  BY <1>4, <1>5, <1>6 DEF Sized

LEMMA SizedDequeue ==
    ASSUME Inv, Sized, NEW x \in Takers, pc[x] # "uncount", Dequeue(x), pc' = [pc EXCEPT ![x] = "uncount"],
           UNCHANGED <<m_size, m_tail_mutex>>
    PROVE  Sized'
  <1>1. Linking' = Linking /\ Uncounting' = Uncounting \cup {x} /\ x \notin Uncounting /\ Late' = Late
    BY LockedQueueAssumption DEF Inv, TypeOK, Linking, Uncounting, Late
  <1>2. Cardinality(Uncounting') = Cardinality(Uncounting) + 1
    BY <1>1, CountsFinite, FS_AddElement
  <1>3. Len(list') = Len(list) - 1 /\ Len(list) \in Nat /\ Late \in 0..1
    BY TailFacts DEF Dequeue, Inv, TypeOK, Late
  <1>4. \A q \in Producers : pc'[q] \in {"count", "wake"} <=> m_tail_mutex' = q
    BY LockedQueueAssumption DEF Inv, TypeOK, Sized
  <1>5. m_size' = Len(list') - 1 + Cardinality(Uncounting') - Late'
    BY <1>1, <1>2, <1>3, CountsFinite DEF Sized
  <1>6. Len(list') - 1 + Cardinality(Linking') <= MaxSize + Cardinality(Producers) - 1
    BY <1>1, <1>3, CountsFinite, LockedQueueAssumption DEF Sized
  <1> QED  BY <1>4, <1>5, <1>6 DEF Sized

LEMMA SizedUncount == ASSUME Inv, Sized, NEW x \in Takers, Uncount(x) PROVE Sized'
  <1>1. Linking' = Linking /\ Uncounting' = Uncounting \ {x} /\ x \in Uncounting /\ Late' = Late
    BY LockedQueueAssumption DEF Uncount, Inv, TypeOK, Linking, Uncounting, Late
  <1>2. Cardinality(Uncounting') = Cardinality(Uncounting) - 1
    BY <1>1, CountsFinite, FS_RemoveElement
  <1>3. list' = list /\ m_size' = m_size - 1 /\ Len(list) \in Nat /\ Late \in 0..1
    BY DEF Uncount, Inv, TypeOK, Late
  <1>4. \A q \in Producers : pc'[q] \in {"count", "wake"} <=> m_tail_mutex' = q
    BY LockedQueueAssumption DEF Uncount, Inv, TypeOK, Sized
  <1>5. m_size' = Len(list') - 1 + Cardinality(Uncounting') - Late'
    <2>1. m_size = Len(list) - 1 + Cardinality(Uncounting) - Late
      BY DEF Sized
    <2>2. Cardinality(Uncounting) \in Nat
      BY CountsFinite
    <2> QED BY <1>1, <1>2, <1>3, <2>1, <2>2
  <1> QED  BY <1>1, <1>3, <1>4, <1>5 DEF Sized

\* clear() holds both locks, so that no item is linked and not counted.
LEMMA SizedClear == ASSUME Inv, Sized, Clear PROVE Sized'
  <1>1. Linking' = Linking /\ Uncounting' = Uncounting /\ Late' = Late /\ Late \in 0..1
    BY DEF Clear, Linking, Uncounting, Late
  <1>2. Len(list') = 1 /\ m_size' = m_size - (Len(list) - 1) /\ Len(list) \in Nat \ {0}
    BY DEF Clear, Inv, TypeOK
  <1>3. \A q \in Producers : pc'[q] \in {"count", "wake"} <=> m_tail_mutex' = q
    BY DEF Clear, Sized
  <1> QED  BY <1>1, <1>2, <1>3, CountsFinite, LockedQueueAssumption DEF Sized

LEMMA SizedStep == ASSUME Inv, Sized, [Next]_vars PROVE Sized'
  <1>1. ASSUME NEW p \in Producers, Push(p) \/ Producing(p) PROVE Sized'
    BY <1>1, SizedOtherwise, SizedFindRoom, SizedLink, SizedCount DEF Producing
  <1>2. ASSUME NEW c \in Consumers, Pop(c) \/ Consuming(c) \/ WakeUp(c) PROVE Sized'
    <2>1. CASE Take(c)
      BY <2>1, SizedDequeue DEF Take
    <2>2. CASE Uncount(c)
      BY <2>2, SizedUncount
    <2> QED  BY <1>2, <2>1, <2>2, SizedOtherwise DEF Consuming
  <1>3. ASSUME NEW c \in Consumers, Stop(c) \/ Reset(c) PROVE Sized'
    BY <1>3, SizedOtherwise
  <1>4. ASSUME NEW x \in Pollers, Poll(x) \/ Uncount(x) PROVE Sized'
    <2>1. CASE Poll(x)
      BY <2>1, SizedDequeue DEF Poll
    <2> QED  BY <1>4, <2>1, SizedUncount
  <1> QED  BY <1>1, <1>2, <1>3, <1>4, SizedClear, SizedOtherwise, LockedQueueAssumption DEF Next

\* push() looks at m_size before it locks the tail, and m_size is counted after the link:
\* the queue is longer than its limit by at most one item for every producer but the one
\* that found room first, whatever consumers, pollers and clear() do (push 185-193).
THEOREM LimitOverrunByOneEach == Spec => []Overrun
  <1>1. Init => Sized
    BY SizedInit
  <1>2. Inv /\ Sized /\ [Next]_vars => Sized'
    BY SizedStep
  <1>3. Inv /\ Sized => Overrun
    <2> SUFFICES ASSUME Inv, Sized PROVE Overrun
      OBVIOUS
    <2>1. Len(list) \in Nat
      BY DEF Inv, TypeOK
    <2> QED  BY <2>1, CountsFinite, LockedQueueAssumption DEF Sized, Overrun
  <1> QED  BY <1>1, <1>2, <1>3, Invariance, PTL DEF Spec

HIDE DEF Threads, Takers, Idlers

-----------------------------------------------------------------------------
(* PionBlob shares memory soundly for any numbers of blobs and threads:    *)
(* no memory is given back while a blob refers to it, the count is the     *)
(* number of holders, and a blob changes only by a call on it.             *)

\* The count a release has read stays good enough for what it does next: the
\* holder that read zero stays the only one, since nobody copies a blob that
\* is being changed.
CallsStand ==
    \A o \in Objects :
        /\ step[o] = "free" => m_blob_ptr[o] # NULL /\ Holders(m_blob_ptr[o]) = {o}
        /\ step[o] = "decrement" => m_blob_ptr[o] # NULL
        /\ step[o] = "grab" => m_blob_ptr[o] = NULL
        /\ step[o] = "idle" => source[o] = NULL
        /\ \A p \in Objects : source[p] = o => step[o] = "idle" \/ (p = o /\ SelfAssign)

BlobInv == BlobTypeOK /\ NeverFreedInUse /\ CountsHolders /\ CallsStand

USE BlobAssumption

LEMMA BlobInitially == BlobInit => BlobInv
  BY DEF BlobInit, BlobInv, BlobTypeOK, NeverFreedInUse, CountsHolders, CallsStand

\* The holders of an address are finitely many.
LEMMA HoldersFinite ==
    ASSUME NEW a
    PROVE  IsFiniteSet(Holders(a)) /\ Cardinality(Holders(a)) \in Nat
  <1>1. Holders(a) \subseteq Objects
    BY DEF Holders
  <1> QED BY <1>1, FS_Subset, FS_CardinalityType

\* Two ways the holders change: one leaves, one joins.
LEMMA HolderLeaves ==
    ASSUME BlobTypeOK, NEW o \in Objects, NEW b \in Addresses, m_blob_ptr[o] = b,
           m_blob_ptr' = [m_blob_ptr EXCEPT ![o] = NULL]
    PROVE  /\ Holders(b)' = Holders(b) \ {o}
           /\ Cardinality(Holders(b)') = Cardinality(Holders(b)) - 1
           /\ \A a \in Addresses : a # b => Holders(a)' = Holders(a)
  <1>1. Holders(b)' = Holders(b) \ {o}
    BY DEF Holders, BlobTypeOK
  <1>2. \A a \in Addresses : a # b => Holders(a)' = Holders(a)
    BY DEF Holders, BlobTypeOK
  <1>3. o \in Holders(b)
    BY DEF Holders
  <1>4. Cardinality(Holders(b) \ {o}) = Cardinality(Holders(b)) - 1
    BY <1>3, HoldersFinite, FS_RemoveElement
  <1> QED BY <1>1, <1>2, <1>4

LEMMA HolderJoins ==
    ASSUME BlobTypeOK, NEW o \in Objects, NEW b \in Addresses, m_blob_ptr[o] = NULL,
           m_blob_ptr' = [m_blob_ptr EXCEPT ![o] = b]
    PROVE  /\ Holders(b)' = Holders(b) \cup {o}
           /\ Cardinality(Holders(b)') = Cardinality(Holders(b)) + 1
           /\ \A a \in Addresses : a # b => Holders(a)' = Holders(a)
  <1>1. Holders(b)' = Holders(b) \cup {o}
    BY DEF Holders, BlobTypeOK
  <1>2. \A a \in Addresses : a # b => Holders(a)' = Holders(a)
    BY DEF Holders, BlobTypeOK
  <1>3. o \notin Holders(b)
    BY DEF Holders
  <1>4. Cardinality(Holders(b) \cup {o}) = Cardinality(Holders(b)) + 1
    BY <1>3, HoldersFinite, FS_AddElement
  <1> QED BY <1>1, <1>2, <1>4

\* The count of an address in terms of its holders.
LEMMA CountIs ==
    ASSUME BlobTypeOK
    PROVE  CountsHolders <=> \A o \in Objects, b \in Addresses :
                                m_blob_ptr[o] = b => m_copies[b] + 1 = Cardinality(Holders(b))
  BY DEF BlobTypeOK, CountsHolders, use_count

\* The first half of release() reads zero only where the blob is alone.
LEMMA StartKeeps ==
    ASSUME BlobInv, NEW o \in Objects, NEW s \in Objects \cup Contents \cup {NULL}, Start(o, s)
    PROVE  BlobInv'
  <1>1. BlobTypeOK'
    BY DEF BlobInv, BlobTypeOK, Start, Following
  <1>2. NeverFreedInUse'
    BY DEF BlobInv, NeverFreedInUse, Start
  <1>3. CountsHolders'
    BY DEF BlobInv, CountsHolders, use_count, Holders, Start
  <1>4. \A a : Holders(a)' = Holders(a)
    BY DEF Holders, Start
  <1>5. ASSUME step'[o] = "free"
        PROVE  m_blob_ptr[o] # NULL /\ Holders(m_blob_ptr[o]) = {o}
    <2>1. m_blob_ptr[o] # NULL /\ m_copies[m_blob_ptr[o]] = 0
      BY <1>5 DEF BlobInv, BlobTypeOK, Start, Following
    <2> DEFINE b == m_blob_ptr[o]
    <2>2. Cardinality(Holders(b)) = 1
      BY <2>1 DEF BlobInv, CountsHolders, use_count
    <2>3. PICK x : Holders(b) = {x}
      BY <2>2, HoldersFinite, FS_Singleton
    <2>4. o \in Holders(b)
      BY DEF Holders
    <2> QED BY <2>1, <2>3, <2>4
  <1>6. CallsStand'
    <2> SUFFICES ASSUME NEW p \in Objects
                 PROVE  /\ step'[p] = "free" => m_blob_ptr'[p] # NULL /\ Holders(m_blob_ptr[p])' = {p}
                        /\ step'[p] = "decrement" => m_blob_ptr'[p] # NULL
                        /\ step'[p] = "grab" => m_blob_ptr'[p] = NULL
                        /\ step'[p] = "idle" => source'[p] = NULL
                        /\ \A q \in Objects : source'[q] = p => step'[p] = "idle" \/ (q = p /\ SelfAssign)
      BY DEF CallsStand
    <2>1. /\ step'[p] = "free" => m_blob_ptr'[p] # NULL /\ Holders(m_blob_ptr[p])' = {p}
      <3>1. CASE p = o
        BY <3>1, <1>4, <1>5 DEF Start
      <3>2. CASE p # o
        BY <3>2, <1>4 DEF Start, BlobInv, CallsStand, BlobTypeOK
      <3> QED BY <3>1, <3>2
    <2>2. step'[p] = "decrement" => m_blob_ptr'[p] # NULL
      BY DEF Start, BlobInv, CallsStand, BlobTypeOK, Following
    <2>3. step'[p] = "grab" => m_blob_ptr'[p] = NULL
      BY DEF Start, BlobInv, CallsStand, BlobTypeOK, Following
    <2>4. step'[p] = "idle" => source'[p] = NULL
      BY DEF Start, BlobInv, CallsStand, BlobTypeOK, Following
    <2>5. ASSUME NEW q \in Objects, source'[q] = p
          PROVE  step'[p] = "idle" \/ (q = p /\ SelfAssign)
      <3>1. CASE q = o
        BY <3>1, <2>5 DEF Start, BlobInv, BlobTypeOK, Readable
      <3>2. CASE q # o
        BY <3>2, <2>5 DEF Start, Changeable, BlobInv, BlobTypeOK, CallsStand
      <3> QED BY <3>1, <3>2
    <2> QED BY <2>1, <2>2, <2>3, <2>4, <2>5
  <1> QED BY <1>1, <1>2, <1>3, <1>6 DEF BlobInv

\* Giving the memory back and counting down both make the caller leave.
LEMMA FreeKeeps ==
    ASSUME BlobInv, NEW o \in Objects, Free(o)
    PROVE  BlobInv'
  <1> PICK b \in Addresses : m_blob_ptr[o] = b
    BY DEF BlobInv, BlobTypeOK, CallsStand, Free
  <1>1. BlobTypeOK'
    BY DEF BlobInv, BlobTypeOK, Free, Following
  <1>2. /\ Holders(b)' = {}
        /\ \A a \in Addresses : a # b => Holders(a)' = Holders(a)
    <2>1. Holders(b) = {o}
      BY DEF BlobInv, CallsStand, Free
    <2>2. /\ Holders(b)' = Holders(b) \ {o}
          /\ \A a \in Addresses : a # b => Holders(a)' = Holders(a)
      BY HolderLeaves DEF BlobInv, Free
    <2> QED BY <2>1, <2>2
  <1>3. \A p \in Objects : m_blob_ptr'[p] # b
    BY <1>2 DEF Holders
  <1>4. \A p \in Objects : m_blob_ptr'[p] # NULL => m_blob_ptr'[p] = m_blob_ptr[p] /\ p # o
    BY DEF Free, BlobInv, BlobTypeOK
  <1>5. NeverFreedInUse'
    BY <1>3, <1>4 DEF BlobInv, NeverFreedInUse, Free
  <1>6. CountsHolders'
    <2>1. \A p \in Objects, a \in Addresses :
            m_blob_ptr'[p] = a => m_copies'[a] + 1 = Cardinality(Holders(a)')
      <3> SUFFICES ASSUME NEW p \in Objects, NEW a \in Addresses, m_blob_ptr'[p] = a
                   PROVE  m_copies'[a] + 1 = Cardinality(Holders(a)')
        OBVIOUS
      <3>1. m_blob_ptr[p] = a /\ a # b
        BY <1>3, <1>4
      <3>2. Holders(a)' = Holders(a)
        BY <3>1, <1>2
      <3>3. m_copies[a] + 1 = Cardinality(Holders(a))
        BY <3>1, CountIs DEF BlobInv
      <3> QED BY <3>2, <3>3 DEF Free
    <2> QED BY <2>1, <1>1 DEF CountsHolders, use_count, BlobTypeOK
  <1>7. CallsStand'
    <2> SUFFICES ASSUME NEW p \in Objects
                 PROVE  /\ step'[p] = "free" => m_blob_ptr'[p] # NULL /\ Holders(m_blob_ptr[p])' = {p}
                        /\ step'[p] = "decrement" => m_blob_ptr'[p] # NULL
                        /\ step'[p] = "grab" => m_blob_ptr'[p] = NULL
                        /\ step'[p] = "idle" => source'[p] = NULL
                        /\ \A q \in Objects : source'[q] = p => step'[p] = "idle" \/ (q = p /\ SelfAssign)
      BY DEF CallsStand
    <2>1. CASE p = o
      BY <2>1 DEF Free, Following, BlobInv, BlobTypeOK, CallsStand
    <2>2. CASE p # o
      <3>1. step'[p] = step[p] /\ source' = source /\ m_blob_ptr'[p] = m_blob_ptr[p]
        BY <2>2 DEF Free, BlobInv, BlobTypeOK
      <3>2. step[p] = "free" => Holders(m_blob_ptr[p])' = {p}
        <4> SUFFICES ASSUME step[p] = "free" PROVE Holders(m_blob_ptr[p])' = {p}
          OBVIOUS
        <4>1. PICK a \in Addresses : m_blob_ptr[p] = a
          BY DEF BlobInv, BlobTypeOK, CallsStand
        <4>2. a # b /\ Holders(a) = {p}
          BY <4>1, <3>1, <1>3 DEF BlobInv, CallsStand
        <4> QED BY <4>1, <4>2, <1>2, <3>1 DEF Holders
      <3> QED BY <3>1, <3>2 DEF BlobInv, CallsStand
    <2> QED BY <2>1, <2>2
  <1> QED BY <1>1, <1>5, <1>6, <1>7 DEF BlobInv

LEMMA DecrementKeeps ==
    ASSUME BlobInv, NEW o \in Objects, Decrement(o)
    PROVE  BlobInv'
  <1> PICK b \in Addresses : m_blob_ptr[o] = b
    BY DEF BlobInv, BlobTypeOK, CallsStand, Decrement
  <1>1. BlobTypeOK'
    BY DEF BlobInv, BlobTypeOK, Decrement, Following
  <1>2. /\ Holders(b)' = Holders(b) \ {o}
        /\ Cardinality(Holders(b)') = Cardinality(Holders(b)) - 1
        /\ \A a \in Addresses : a # b => Holders(a)' = Holders(a)
    BY HolderLeaves DEF BlobInv, Decrement
  <1>3. \A p \in Objects : m_blob_ptr'[p] # NULL => m_blob_ptr'[p] = m_blob_ptr[p] /\ p # o
    BY DEF Decrement, BlobInv, BlobTypeOK
  <1>4. NeverFreedInUse'
    BY <1>3 DEF BlobInv, NeverFreedInUse, Decrement
  <1>5. CountsHolders'
    <2>1. \A p \in Objects, a \in Addresses :
            m_blob_ptr'[p] = a => m_copies'[a] + 1 = Cardinality(Holders(a)')
      <3> SUFFICES ASSUME NEW p \in Objects, NEW a \in Addresses, m_blob_ptr'[p] = a
                   PROVE  m_copies'[a] + 1 = Cardinality(Holders(a)')
        OBVIOUS
      <3>1. m_blob_ptr[p] = a
        BY <1>3
      <3>2. m_copies[a] + 1 = Cardinality(Holders(a))
        BY <3>1, CountIs DEF BlobInv
      <3>3. CASE a = b
        BY <3>2, <3>3, <1>2, HoldersFinite DEF Decrement, BlobInv, BlobTypeOK
      <3>4. CASE a # b
        BY <3>2, <3>4, <1>2 DEF Decrement, BlobInv, BlobTypeOK
      <3> QED BY <3>3, <3>4
    <2> QED BY <2>1, <1>1 DEF CountsHolders, use_count, BlobTypeOK
  <1>6. CallsStand'
    <2> SUFFICES ASSUME NEW p \in Objects
                 PROVE  /\ step'[p] = "free" => m_blob_ptr'[p] # NULL /\ Holders(m_blob_ptr[p])' = {p}
                        /\ step'[p] = "decrement" => m_blob_ptr'[p] # NULL
                        /\ step'[p] = "grab" => m_blob_ptr'[p] = NULL
                        /\ step'[p] = "idle" => source'[p] = NULL
                        /\ \A q \in Objects : source'[q] = p => step'[p] = "idle" \/ (q = p /\ SelfAssign)
      BY DEF CallsStand
    <2>1. CASE p = o
      BY <2>1 DEF Decrement, Following, BlobInv, BlobTypeOK, CallsStand
    <2>2. CASE p # o
      <3>1. step'[p] = step[p] /\ source' = source /\ m_blob_ptr'[p] = m_blob_ptr[p]
        BY <2>2 DEF Decrement, BlobInv, BlobTypeOK
      <3>2. step[p] = "free" => Holders(m_blob_ptr[p])' = {p}
        <4> SUFFICES ASSUME step[p] = "free" PROVE Holders(m_blob_ptr[p])' = {p}
          OBVIOUS
        <4>1. PICK a \in Addresses : m_blob_ptr[p] = a
          BY DEF BlobInv, BlobTypeOK, CallsStand
        <4>2. Holders(a) = {p}
          BY <4>1 DEF BlobInv, CallsStand
        <4>3. a # b
          BY <4>2, <2>2 DEF Holders
        <4> QED BY <4>1, <4>2, <4>3, <1>2, <3>1 DEF Holders
      <3> QED BY <3>1, <3>2 DEF BlobInv, CallsStand
    <2> QED BY <2>1, <2>2
  <1> QED BY <1>1, <1>4, <1>5, <1>6 DEF BlobInv

\* A copy is taken from a blob nobody changes, so that no release that read
\* zero is under way on its memory.
LEMMA GrabKeeps ==
    ASSUME BlobInv, NEW o \in Objects, Grab(o)
    PROVE  BlobInv'
  <1> DEFINE s == source[o]
  <1>1. BlobTypeOK'
    BY DEF BlobInv, BlobTypeOK, Grab
  <1>2. s \in Objects /\ m_blob_ptr[o] = NULL /\ (s = o \/ step[s] = "idle")
    BY DEF BlobInv, CallsStand, Grab
  <1>3. CASE m_blob_ptr[s] = NULL
    <2>1. m_blob_ptr' = m_blob_ptr /\ m_copies' = m_copies
      BY <1>2, <1>3 DEF Grab, BlobInv, BlobTypeOK
    <2>2. \A a : Holders(a)' = Holders(a)
      BY <2>1 DEF Holders
    <2>3. NeverFreedInUse'
      BY <2>1 DEF BlobInv, NeverFreedInUse, Grab
    <2>4. CountsHolders'
      BY <2>1, <2>2 DEF BlobInv, CountsHolders, use_count
    <2>5. CallsStand'
      BY <1>2, <2>1, <2>2 DEF BlobInv, BlobTypeOK, CallsStand, Grab
    <2> QED BY <1>1, <2>3, <2>4, <2>5 DEF BlobInv
  <1>4. CASE m_blob_ptr[s] # NULL
    <2> PICK b \in Addresses : m_blob_ptr[s] = b
      BY <1>2, <1>4 DEF BlobInv, BlobTypeOK
    <2>1. /\ Holders(b)' = Holders(b) \cup {o}
          /\ Cardinality(Holders(b)') = Cardinality(Holders(b)) + 1
          /\ \A a \in Addresses : a # b => Holders(a)' = Holders(a)
      BY <1>2, HolderJoins DEF BlobInv, Grab
    <2>2. \A p \in Objects : p # o => m_blob_ptr'[p] = m_blob_ptr[p]
      BY DEF Grab, BlobInv, BlobTypeOK
    <2>3. m_blob_ptr'[o] = b /\ s # o /\ step[s] = "idle"
      BY <1>2, <1>4 DEF Grab, BlobInv, BlobTypeOK
    <2>4. NeverFreedInUse'
      BY <1>2, <2>2, <2>3 DEF BlobInv, NeverFreedInUse, Grab
    <2>5. CountsHolders'
      <3>1. \A p \in Objects, a \in Addresses :
              m_blob_ptr'[p] = a => m_copies'[a] + 1 = Cardinality(Holders(a)')
        <4> SUFFICES ASSUME NEW p \in Objects, NEW a \in Addresses, m_blob_ptr'[p] = a
                     PROVE  m_copies'[a] + 1 = Cardinality(Holders(a)')
          OBVIOUS
        <4>1. CASE a = b
          <5>1. m_copies[b] + 1 = Cardinality(Holders(b))
            BY <1>2, CountIs DEF BlobInv
          <5> QED BY <5>1, <4>1, <2>1, HoldersFinite DEF Grab, BlobInv, BlobTypeOK
        <4>2. CASE a # b
          <5>1. m_blob_ptr[p] = a
            BY <4>2, <2>2, <2>3
          <5>2. m_copies[a] + 1 = Cardinality(Holders(a))
            BY <5>1, CountIs DEF BlobInv
          <5> QED BY <5>2, <4>2, <2>1 DEF Grab, BlobInv, BlobTypeOK
        <4> QED BY <4>1, <4>2
      <3> QED BY <3>1, <1>1 DEF CountsHolders, use_count, BlobTypeOK
    <2>6. CallsStand'
      <3> SUFFICES ASSUME NEW p \in Objects
                   PROVE  /\ step'[p] = "free" => m_blob_ptr'[p] # NULL /\ Holders(m_blob_ptr[p])' = {p}
                          /\ step'[p] = "decrement" => m_blob_ptr'[p] # NULL
                          /\ step'[p] = "grab" => m_blob_ptr'[p] = NULL
                          /\ step'[p] = "idle" => source'[p] = NULL
                          /\ \A q \in Objects : source'[q] = p => step'[p] = "idle" \/ (q = p /\ SelfAssign)
        BY DEF CallsStand
      <3>1. CASE p = o
        BY <3>1 DEF Grab, BlobInv, BlobTypeOK, CallsStand
      <3>2. CASE p # o
        <4>1. step'[p] = step[p] /\ source'[p] = source[p] /\ m_blob_ptr'[p] = m_blob_ptr[p]
          BY <3>2 DEF Grab, BlobInv, BlobTypeOK
        <4>2. step[p] = "free" => Holders(m_blob_ptr[p])' = {p}
          <5> SUFFICES ASSUME step[p] = "free" PROVE Holders(m_blob_ptr[p])' = {p}
            OBVIOUS
          <5>1. PICK a \in Addresses : m_blob_ptr[p] = a
            BY DEF BlobInv, BlobTypeOK, CallsStand
          <5>2. Holders(a) = {p}
            BY <5>1 DEF BlobInv, CallsStand
          <5>3. a # b
            BY <5>2, <2>3, <1>2 DEF Holders
          <5> QED BY <5>1, <5>2, <5>3, <2>1, <4>1 DEF Holders
        <4>3. \A q \in Objects : source'[q] = p => source[q] = p
          BY DEF Grab, BlobInv, BlobTypeOK
        <4> QED BY <4>1, <4>2, <4>3 DEF BlobInv, CallsStand
      <3> QED BY <3>1, <3>2
    <2> QED BY <1>1, <2>4, <2>5, <2>6 DEF BlobInv
  <1> QED BY <1>3, <1>4

LEMMA CreateKeeps ==
    ASSUME BlobInv, NEW o \in Objects, Create(o)
    PROVE  BlobInv'
  <1> PICK b \in Addresses \ allocated :
        /\ allocated' = allocated \cup {b}
        /\ m_copies' = [m_copies EXCEPT ![b] = 0]
        /\ payload' = [payload EXCEPT ![b] = source[o]]
        /\ m_blob_ptr' = [m_blob_ptr EXCEPT ![o] = b]
    BY DEF Create
  <1>1. BlobTypeOK'
    BY DEF BlobInv, BlobTypeOK, Create
  <1>2. m_blob_ptr[o] = NULL /\ \A p \in Objects : m_blob_ptr[p] # b
    BY DEF BlobInv, CallsStand, Create, NeverFreedInUse
  <1>3. /\ Holders(b)' = {o}
        /\ \A a \in Addresses : a # b => Holders(a)' = Holders(a)
    BY <1>2 DEF Holders, BlobInv, BlobTypeOK
  <1>4. \A p \in Objects : p # o => m_blob_ptr'[p] = m_blob_ptr[p]
    BY DEF BlobInv, BlobTypeOK
  <1>5. m_blob_ptr'[o] = b
    BY DEF BlobInv, BlobTypeOK
  <1>6. NeverFreedInUse'
    BY <1>4, <1>5 DEF BlobInv, NeverFreedInUse
  <1>7. CountsHolders'
    <2>1. \A p \in Objects, a \in Addresses :
            m_blob_ptr'[p] = a => m_copies'[a] + 1 = Cardinality(Holders(a)')
      <3> SUFFICES ASSUME NEW p \in Objects, NEW a \in Addresses, m_blob_ptr'[p] = a
                   PROVE  m_copies'[a] + 1 = Cardinality(Holders(a)')
        OBVIOUS
      <3>1. CASE a = b
        <4>1. Cardinality({o}) = 1
          BY FS_Singleton
        <4> QED BY <4>1, <3>1, <1>3 DEF BlobInv, BlobTypeOK
      <3>2. CASE a # b
        <4>1. m_blob_ptr[p] = a
          BY <3>2, <1>4, <1>5
        <4>2. m_copies[a] + 1 = Cardinality(Holders(a))
          BY <4>1, CountIs DEF BlobInv
        <4> QED BY <4>2, <3>2, <1>3 DEF BlobInv, BlobTypeOK
      <3> QED BY <3>1, <3>2
    <2> QED BY <2>1, <1>1 DEF CountsHolders, use_count, BlobTypeOK
  <1>8. CallsStand'
    <2> SUFFICES ASSUME NEW p \in Objects
                 PROVE  /\ step'[p] = "free" => m_blob_ptr'[p] # NULL /\ Holders(m_blob_ptr[p])' = {p}
                        /\ step'[p] = "decrement" => m_blob_ptr'[p] # NULL
                        /\ step'[p] = "grab" => m_blob_ptr'[p] = NULL
                        /\ step'[p] = "idle" => source'[p] = NULL
                        /\ \A q \in Objects : source'[q] = p => step'[p] = "idle" \/ (q = p /\ SelfAssign)
      BY DEF CallsStand
    <2>1. CASE p = o
      BY <2>1 DEF Create, BlobInv, BlobTypeOK, CallsStand
    <2>2. CASE p # o
      <3>1. step'[p] = step[p] /\ source'[p] = source[p] /\ m_blob_ptr'[p] = m_blob_ptr[p]
        BY <2>2 DEF Create, BlobInv, BlobTypeOK
      <3>2. step[p] = "free" => Holders(m_blob_ptr[p])' = {p}
        <4> SUFFICES ASSUME step[p] = "free" PROVE Holders(m_blob_ptr[p])' = {p}
          OBVIOUS
        <4>1. PICK a \in Addresses : m_blob_ptr[p] = a
          BY DEF BlobInv, BlobTypeOK, CallsStand
        <4>2. Holders(a) = {p} /\ a # b
          BY <4>1, <1>2 DEF BlobInv, CallsStand
        <4> QED BY <4>1, <4>2, <1>3, <3>1 DEF Holders
      <3>3. \A q \in Objects : source'[q] = p => source[q] = p
        BY DEF Create, BlobInv, BlobTypeOK
      <3> QED BY <3>1, <3>2, <3>3 DEF BlobInv, CallsStand
    <2> QED BY <2>1, <2>2
  <1> QED BY <1>1, <1>6, <1>7, <1>8 DEF BlobInv

LEMMA Inductive == BlobInv /\ [BlobNext]_blobVars => BlobInv'
  <1> SUFFICES ASSUME BlobInv, [BlobNext]_blobVars PROVE BlobInv'
    OBVIOUS
  <1>1. CASE UNCHANGED blobVars
    BY <1>1 DEF blobVars, BlobInv, BlobTypeOK, NeverFreedInUse, CountsHolders, use_count, Holders, CallsStand
  <1>2. ASSUME NEW o \in Objects, NEW s \in Objects \cup Contents \cup {NULL}, Start(o, s) PROVE BlobInv'
    BY <1>2, StartKeeps
  <1>3. ASSUME NEW o \in Objects, Free(o) PROVE BlobInv'
    BY <1>3, FreeKeeps
  <1>4. ASSUME NEW o \in Objects, Decrement(o) PROVE BlobInv'
    BY <1>4, DecrementKeeps
  <1>5. ASSUME NEW o \in Objects, Grab(o) PROVE BlobInv'
    BY <1>5, GrabKeeps
  <1>6. ASSUME NEW o \in Objects, Create(o) PROVE BlobInv'
    BY <1>6, CreateKeeps
  <1> QED BY <1>1, <1>2, <1>3, <1>4, <1>5, <1>6 DEF BlobNext

LEMMA BlobInvariance == BlobSpec => []BlobInv
  BY BlobInitially, Inductive, PTL DEF BlobSpec

\* Whatever the order of copies and releases by however many threads, memory
\* that a blob refers to is not given back (PionBlob.hpp 79-100).
THEOREM MemoryStays == BlobSpec => []NeverFreedInUse
  <1>1. BlobInv => NeverFreedInUse
    BY DEF BlobInv
  <1> QED BY <1>1, BlobInvariance, PTL

\* use_count() is always the number of blobs that share the memory, so that
\* unique() never calls a shared blob its own (PionBlob.hpp 245-252).
THEOREM CountIsRight == BlobSpec => []CountsHolders
  <1>1. BlobInv => CountsHolders
    BY DEF BlobInv
  <1> QED BY <1>1, BlobInvariance, PTL

\* Where no blob is assigned to itself, a blob changes its content only by a
\* call on it, and the source of an assignment never does (PionBlob.hpp
\* 176-186): memory handed out again is nobody's.
THEOREM ContentIsKept ==
    ASSUME ~SelfAssign
    PROVE  BlobSpec => ContentKept
  <1> DEFINE Kept(o) == get(o)' # get(o) => step[o] # "idle" /\ \A p \in Objects : source[p] # o
  <1>1. ASSUME BlobInv, [BlobNext]_blobVars, NEW o \in Objects PROVE Kept(o)
    <2>1. ASSUME step[o] = "idle" \/ \E p \in Objects : source[p] = o
          PROVE  step[o] = "idle"
      BY <1>1, <2>1 DEF BlobInv, CallsStand
    <2>2. SUFFICES ASSUME step[o] = "idle" PROVE get(o)' = get(o)
      BY <2>1
    <2>3. CASE UNCHANGED blobVars
      BY <2>3 DEF blobVars, get
    <2>4. ASSUME NEW q \in Objects, NEW s \in Objects \cup Contents \cup {NULL}, Start(q, s)
          PROVE  get(o)' = get(o)
      BY <2>4 DEF Start, get
    <2>5. ASSUME NEW q \in Objects, Free(q) \/ Decrement(q) \/ Grab(q)
          PROVE  get(o)' = get(o)
      <3>1. q # o /\ payload' = payload
        BY <2>2, <2>5 DEF Free, Decrement, Grab
      <3>2. m_blob_ptr'[o] = m_blob_ptr[o]
        BY <1>1, <2>5, <3>1 DEF Free, Decrement, Grab, BlobInv, BlobTypeOK
      <3> QED BY <3>1, <3>2 DEF get
    <2>6. ASSUME NEW q \in Objects, Create(q)
          PROVE  get(o)' = get(o)
      <3>1. q # o
        BY <2>2, <2>6 DEF Create
      <3>2. PICK b \in Addresses \ allocated :
              /\ payload' = [payload EXCEPT ![b] = source[q]]
              /\ m_blob_ptr' = [m_blob_ptr EXCEPT ![q] = b]
        BY <2>6 DEF Create
      <3>3. m_blob_ptr'[o] = m_blob_ptr[o] /\ m_blob_ptr[o] # b
        BY <1>1, <2>6, <3>1, <3>2 DEF BlobInv, BlobTypeOK, NeverFreedInUse
      <3> QED BY <1>1, <3>2, <3>3 DEF get, BlobInv, BlobTypeOK
    <2> QED BY <1>1, <2>3, <2>4, <2>5, <2>6 DEF BlobNext
  <1>2. BlobInv /\ [BlobNext]_blobVars => [\A o \in Objects : Kept(o)]_blobVars
    BY <1>1
  <1> QED BY <1>2, BlobInvariance, PTL DEF BlobSpec, ContentKept

-----------------------------------------------------------------------------
(* Memory is given back.                                                   *)

\* Where one thread uses the blobs one call is under way, and the count that it has read
\* is still the count.
OneCall ==
    /\ \A o, p \in Objects : step[o] # "idle" /\ step[p] # "idle" => o = p
    /\ \A o \in Objects : step[o] = "decrement" => m_copies[m_blob_ptr[o]] # 0
    /\ NothingLeaks

LEMMA OneCallStart ==
    ASSUME ~Concurrent, BlobInv, OneCall, NEW o \in Objects, NEW s \in Objects \cup Contents \cup {NULL}, Start(o, s)
    PROVE  OneCall'
  <1>1. \A p \in Objects : step[p] = "idle"
    BY DEF Start
  <1>2. \A p \in Objects : p # o => step'[p] = "idle"
    BY <1>1 DEF Start, BlobInv, BlobTypeOK
  <1>3. step'[o] = "decrement" => m_copies[m_blob_ptr[o]] # 0
    BY DEF Start, Following, BlobInv, BlobTypeOK
  <1>4. NothingLeaks'
    BY DEF Start, OneCall, NothingLeaks, Holders
  <1>5. m_copies' = m_copies /\ m_blob_ptr' = m_blob_ptr
    BY DEF Start
  <1> QED BY <1>2, <1>3, <1>4, <1>5 DEF OneCall

\* A call that ends, or goes on, is the only one.
LEMMA StillOne ==
    ASSUME BlobInv, OneCall, NEW o \in Objects, step[o] # "idle", NEW q, step' = [step EXCEPT ![o] = q], q # "decrement"
    PROVE  /\ \A x, y \in Objects : step'[x] # "idle" /\ step'[y] # "idle" => x = y
           /\ \A x \in Objects : step'[x] # "decrement"
  <1>1. \A x \in Objects : x # o => step'[x] = "idle"
    BY DEF BlobInv, BlobTypeOK, OneCall
  <1>2. step'[o] = q
    BY DEF BlobInv, BlobTypeOK
  <1> QED BY <1>1, <1>2

LEMMA OneCallRelease ==
    ASSUME BlobInv, OneCall, NEW o \in Objects, Free(o) \/ Decrement(o)
    PROVE  OneCall'
  <1> PICK b \in Addresses : m_blob_ptr[o] = b
    BY DEF BlobInv, BlobTypeOK, CallsStand, Free, Decrement
  <1>1. /\ \A x, y \in Objects : step'[x] # "idle" /\ step'[y] # "idle" => x = y
        /\ \A x \in Objects : step'[x] # "decrement"
    <2>1. Following(source[o]) # "decrement"
      BY DEF Following
    <2> QED BY <2>1, StillOne DEF Free, Decrement
  <1>2. /\ Holders(b)' = Holders(b) \ {o}
        /\ Cardinality(Holders(b)') = Cardinality(Holders(b)) - 1
        /\ \A a \in Addresses : a # b => Holders(a)' = Holders(a)
    BY HolderLeaves DEF Free, Decrement, BlobInv
  <1>3. CASE Free(o)
    BY <1>1, <1>2, <1>3 DEF Free, OneCall, NothingLeaks, BlobInv, BlobTypeOK
  <1>4. CASE Decrement(o)
    <2>1. m_copies[b] # 0 /\ m_copies[b] \in Int
      BY <1>4 DEF Decrement, OneCall, BlobInv, BlobTypeOK
    <2>2. m_copies[b] + 1 = Cardinality(Holders(b))
      BY CountIs DEF BlobInv
    <2>3. Cardinality(Holders(b)') # 0
      BY <1>2, <2>1, <2>2
    <2>4. Holders(b)' # {}
      BY <2>3, FS_EmptySet
    <2>5. NothingLeaks'
      BY <1>2, <1>4, <2>4 DEF Decrement, OneCall, NothingLeaks, BlobInv, BlobTypeOK
    <2> QED BY <1>1, <2>5 DEF OneCall
  <1> QED BY <1>3, <1>4

LEMMA OneCallHold ==
    ASSUME BlobInv, OneCall, NEW o \in Objects, Grab(o) \/ Create(o)
    PROVE  OneCall'
  <1>1. /\ \A x, y \in Objects : step'[x] # "idle" /\ step'[y] # "idle" => x = y
        /\ \A x \in Objects : step'[x] # "decrement"
    BY StillOne DEF Grab, Create
  <1>2. m_blob_ptr[o] = NULL
    BY DEF BlobInv, CallsStand, Grab, Create
  <1>3. ASSUME NEW a \in Addresses PROVE Holders(a) \subseteq Holders(a)'
    BY <1>2 DEF Holders, Grab, Create, BlobInv, BlobTypeOK
  <1>4. CASE Grab(o)
    BY <1>1, <1>3, <1>4 DEF Grab, OneCall, NothingLeaks, BlobInv, BlobTypeOK
  <1>5. CASE Create(o)
    <2>1. PICK b \in Addresses : allocated' = allocated \cup {b} /\ m_blob_ptr' = [m_blob_ptr EXCEPT ![o] = b]
      BY <1>5 DEF Create
    <2>2. o \in Holders(b)'
      BY <2>1 DEF Holders, BlobInv, BlobTypeOK
    <2>3. NothingLeaks'
      BY <1>3, <2>1, <2>2 DEF OneCall, NothingLeaks, BlobInv, BlobTypeOK
    <2> QED BY <1>1, <2>3 DEF OneCall
  <1> QED BY <1>4, <1>5

\* Where one thread uses the blobs, the memory that no blob refers to has been given back
\* (PionBlob.hpp 77-88).  With several threads two releases may both read a count of one
\* and both count down, which gives nothing back.
THEOREM MemoryIsGivenBack ==
    ASSUME ~Concurrent
    PROVE  BlobSpec => []NothingLeaks
  <1>1. BlobInit => OneCall
    BY DEF BlobInit, OneCall, NothingLeaks
  <1>2. BlobInv /\ OneCall /\ [BlobNext]_blobVars => OneCall'
    <2> SUFFICES ASSUME BlobInv, OneCall, [BlobNext]_blobVars PROVE OneCall'
      OBVIOUS
    <2>1. CASE UNCHANGED blobVars
      BY <2>1 DEF blobVars, OneCall, NothingLeaks, Holders
    <2>2. CASE BlobNext
      BY <2>2, OneCallStart, OneCallRelease, OneCallHold DEF BlobNext
    <2> QED BY <2>1, <2>2
  <1>3. OneCall => NothingLeaks
    BY DEF OneCall
  <1> QED BY <1>1, <1>2, <1>3, BlobInvariance, PTL DEF BlobSpec

-----------------------------------------------------------------------------
(* PionPlugin for any number of threads, objects, names and libraries: the *)
(* data of a plug-in counts the objects that share it, no pointer dangles, *)
(* and objects share libraries as the specification Libraries says.        *)

\* The object a thread works on is its own, and empty between its release and its next
\* plug-in.
Apart ==
    /\ \A u \in Callers : phase[u] = "take" => m_plugin_data[call[u].x] = Nil /\ call[u].op # "close"
    /\ \A s, u \in Callers : phase[s] # "out" /\ phase[u] # "out" /\ s # u => call[s].x # call[u].x

PluginsInv == PluginsTypeOK /\ CountsObjects /\ Apart

-----------------------------------------------------------------------------
(* The data of calls and of plug-ins.                                      *)

LEMMA CallFacts ==
    ASSUME NEW c \in Calls
    PROVE  /\ c.x \in Handles
           /\ c.op \in {"openFile", "openStaticLinked", "grabData", "close"}
           /\ c.op \in {"openFile", "openStaticLinked"} => c.n \in Names
           /\ c.op = "grabData" => c.p \in Handles
  BY DEF Calls

LEMMA CallsMade ==
    ASSUME NEW x \in Handles
    PROVE  /\ \A n \in Names : /\ [op |-> "openFile", x |-> x, n |-> n] \in Calls
                               /\ [op |-> "openStaticLinked", x |-> x, n |-> n] \in Calls
           /\ \A p \in Handles : [op |-> "grabData", x |-> x, p |-> p] \in Calls
           /\ [op |-> "close", x |-> x] \in Calls
  BY DEF Calls

\* What is known of the call of a thread that is in one.
LEMMA Working ==
    ASSUME PluginsInv, NEW u \in Callers, phase[u] # "out"
    PROVE  /\ call[u] \in Calls /\ call[u].x \in Handles
           /\ call[u].op \in {"openFile", "openStaticLinked", "grabData", "close"}
           /\ call[u].op \in {"openFile", "openStaticLinked"} => call[u].n \in Names
           /\ call[u].op = "grabData" => call[u].p \in Handles
  <1>1. call[u] \in Calls
    BY DEF PluginsInv, PluginsTypeOK
  <1> QED BY <1>1, CallFacts

\* What is known of the data that a pointer of an object leads to.
LEMMA Pointed ==
    ASSUME PluginsInv, NEW x \in Handles, m_plugin_data[x] # Nil
    PROVE  LET a == m_plugin_data[x] IN
           /\ a \in DataAddresses /\ heap[a] # Nil /\ heap[a] \in PionPluginData
           /\ heap[a].m_plugin_name \in Names /\ heap[a].m_references \in Nat
           /\ m_plugin_map[heap[a].m_plugin_name] = a
           /\ x \in Sharers(a)
  <1> DEFINE a == m_plugin_data[x]
  <1>1. a \in DataAddresses /\ heap[a] # Nil /\ heap[a] \in PionPluginData
    BY DEF PluginsInv, PluginsTypeOK
  <1>2. heap[a].m_plugin_name \in Names /\ heap[a].m_references \in Nat
    BY <1>1 DEF PionPluginData
  <1>3. m_plugin_map[heap[a].m_plugin_name] = a
    BY <1>1 DEF PluginsInv, CountsObjects
  <1>4. x \in Sharers(a)
    BY DEF Sharers
  <1> QED BY <1>1, <1>2, <1>3, <1>4

LEMMA Mapped ==
    ASSUME PluginsInv, NEW n \in Names, m_plugin_map[n] # Nil
    PROVE  LET a == m_plugin_map[n] IN
           /\ a \in DataAddresses /\ heap[a] # Nil /\ heap[a] \in PionPluginData
           /\ heap[a].m_plugin_name = n /\ heap[a].m_references \in Nat
  BY DEF PluginsInv, PluginsTypeOK, CountsObjects, PionPluginData

-----------------------------------------------------------------------------
(* Steps that leave the data alone.                                        *)

LEMMA PluginsInitially == PluginsAssumption /\ PluginsInit => PluginsInv
  BY DEF PluginsAssumption, PluginsInit, PluginsInv, PluginsTypeOK, CountsObjects, Apart, Sharers

\* The parts of the invariant that speak of the data.
LEMMA DataKept ==
    ASSUME PluginsInv, UNCHANGED <<heap, m_plugin_map, m_plugin_data, loaded>>
    PROVE  CountsObjects'
  BY DEF PluginsInv, CountsObjects, Sharers

LEMMA EnterStep ==
    ASSUME PluginsAssumption, PluginsInv, NEW u \in Callers, NEW c \in Calls, Enter(u, c)
    PROVE  PluginsInv'
  <1>1. CountsObjects'
    BY DataKept DEF Enter
  <1>2. PluginsTypeOK'
    BY DEF PluginsAssumption, PluginsInv, PluginsTypeOK, Enter
  <1>3. Apart'
    BY DEF PluginsInv, PluginsTypeOK, Apart, Enter
  <1> QED BY <1>1, <1>2, <1>3 DEF PluginsInv

LEMMA DirectoryStep ==
    ASSUME PluginsAssumption, PluginsInv,
           \/ \E d \in Directories : AddPluginDirectory(d)
           \/ ResetPluginDirectories
           \/ \E n \in StaticallyLinked : AddStaticEntryPoint(n)
    PROVE  PluginsInv'
  <1>1. UNCHANGED <<heap, m_plugin_map, m_plugin_data, loaded, phase, call>>
    BY DEF AddPluginDirectory, ResetPluginDirectories, AddStaticEntryPoint
  <1>2. m_plugin_dirs' \subseteq Directories /\ m_entry_points' \subseteq Names
    BY DEF PluginsAssumption, PluginsInv, PluginsTypeOK, AddPluginDirectory, ResetPluginDirectories, AddStaticEntryPoint
  <1>3. CountsObjects'
    BY <1>1, DataKept
  <1> QED BY <1>1, <1>2, <1>3 DEF PluginsInv, PluginsTypeOK, Apart

-----------------------------------------------------------------------------
(* releaseData().                                                          *)

\* Where a call goes after its release.
LEMMA ReleasedStep ==
    ASSUME PluginsAssumption, PluginsInv, NEW u \in Callers, phase[u] = "release", Released(u),
           m_plugin_data' = [m_plugin_data EXCEPT ![call[u].x] = Nil]
    PROVE  /\ phase' \in [Callers -> {"out", "release", "take"}]
           /\ call' \in [Callers -> Calls \cup {Nil}]
           /\ \A s \in Callers : phase'[s] # "out" => call'[s] # Nil
           /\ UNCHANGED <<m_plugin_dirs, m_entry_points>>
           /\ Apart'
  <1>1. call[u] \in Calls /\ call[u].x \in Handles
    BY Working
  <1>2. CASE call[u].op = "close" /\ Return(u)
    BY <1>1, <1>2 DEF PluginsInv, PluginsTypeOK, Apart, Return
  <1>3. CASE /\ call[u].op # "close"
             /\ phase' = [phase EXCEPT ![u] = "take"]
             /\ UNCHANGED <<m_plugin_dirs, m_entry_points, call>>
    <2>1. \A s \in Callers : phase[s] # "out" => call[s].x \in Handles
      BY Working
    <2> QED BY <1>1, <1>3, <2>1 DEF PluginsInv, PluginsTypeOK, Apart
  <1> QED BY <1>2, <1>3 DEF Released

\* One object less shares the data.
LEMMA OneSharerLess ==
    ASSUME PluginsAssumption, PluginsInv, NEW x \in Handles, NEW a \in DataAddresses, m_plugin_data[x] = a,
           m_plugin_data' = [m_plugin_data EXCEPT ![x] = Nil]
    PROVE  /\ Sharers(a)' = Sharers(a) \ {x}
           /\ Cardinality(Sharers(a)') = heap[a].m_references - 1
           /\ \A b \in DataAddresses : b # a => Sharers(b)' = Sharers(b)
           /\ heap[a].m_references = 1 => Sharers(a)' = {}
           /\ heap[a].m_references # 1 => Sharers(a)' # {} /\ heap[a].m_references - 1 \in Nat
  <1>1. /\ heap[a] # Nil /\ x \in Sharers(a)
        /\ heap[a].m_references = Cardinality(Sharers(a))
    BY Pointed DEF PluginsAssumption, PluginsInv, CountsObjects
  <1>2. a # Nil
    BY DEF PluginsAssumption
  <1>3. Sharers(a)' = Sharers(a) \ {x}
    BY <1>2 DEF PluginsInv, PluginsTypeOK, Sharers
  <1>4. \A b \in DataAddresses : b # a => Sharers(b)' = Sharers(b)
    BY DEF PluginsAssumption, PluginsInv, PluginsTypeOK, Sharers
  <1>5. IsFiniteSet(Sharers(a))
    BY FS_Subset DEF PluginsAssumption, Sharers
  <1>6. /\ IsFiniteSet(Sharers(a) \ {x})
        /\ Cardinality(Sharers(a) \ {x}) = Cardinality(Sharers(a)) - 1
    BY <1>1, <1>5, FS_RemoveElement
  <1>7. Cardinality(Sharers(a)) \in Nat /\ Cardinality(Sharers(a) \ {x}) \in Nat
    BY <1>5, <1>6, FS_CardinalityType
  <1>8. Cardinality(Sharers(a) \ {x}) = 0 <=> Sharers(a) \ {x} = {}
    BY <1>6, FS_EmptySet
  <1> QED BY <1>1, <1>3, <1>4, <1>6, <1>7, <1>8

LEMMA ReleaseDataStep ==
    ASSUME PluginsAssumption, PluginsInv, NEW u \in Callers, ReleaseData(u)
    PROVE  PluginsInv'
  <1> DEFINE x == call[u].x
  <1>1. x \in Handles
    BY Working DEF ReleaseData
  <1>2. m_plugin_data' = [m_plugin_data EXCEPT ![x] = Nil]
    BY DEF ReleaseData
  <1>3. /\ phase' \in [Callers -> {"out", "release", "take"}]
        /\ call' \in [Callers -> Calls \cup {Nil}]
        /\ \A s \in Callers : phase'[s] # "out" => call'[s] # Nil
        /\ UNCHANGED <<m_plugin_dirs, m_entry_points>>
        /\ Apart'
    BY ReleasedStep DEF ReleaseData
  <1> HIDE DEF x
  <1>4. CASE m_plugin_data[x] = Nil /\ UNCHANGED <<heap, m_plugin_map, loaded>>
    <2>1. m_plugin_data' = m_plugin_data
      BY <1>1, <1>2, <1>4 DEF PluginsInv, PluginsTypeOK
    <2>2. CountsObjects'
      BY <1>4, <2>1, DataKept
    <2> QED BY <1>3, <1>4, <2>1, <2>2 DEF PluginsInv, PluginsTypeOK
  <1>5. ASSUME NEW a \in DataAddresses, a = m_plugin_data[x], ~isLastReference(a),
               heap' = [heap EXCEPT ![a].m_references = @ - 1], UNCHANGED <<m_plugin_map, loaded>>
        PROVE  PluginsInv'
    <2>1. /\ heap[a] # Nil /\ heap[a] \in PionPluginData
          /\ heap[a].m_plugin_name \in Names
          /\ m_plugin_map[heap[a].m_plugin_name] = a
          /\ a # Nil
      BY <1>1, <1>5, Pointed DEF PluginsAssumption
    <2>2. /\ Sharers(a)' # {} /\ heap[a].m_references - 1 \in Nat
          /\ Cardinality(Sharers(a)') = heap[a].m_references - 1
          /\ \A b \in DataAddresses : b # a => Sharers(b)' = Sharers(b)
      BY <1>1, <1>2, <1>5, OneSharerLess DEF isLastReference
    <2>3. /\ heap'[a] \in PionPluginData
          /\ heap'[a].m_plugin_name = heap[a].m_plugin_name
          /\ heap'[a].m_lib_handle = heap[a].m_lib_handle
          /\ heap'[a].m_references = heap[a].m_references - 1
          /\ \A b \in DataAddresses : b # a => heap'[b] = heap[b]
          /\ heap' \in [DataAddresses -> PionPluginData \cup {Nil}]
      BY <1>5, <2>1, <2>2 DEF PluginsInv, PluginsTypeOK, PionPluginData
    <2>4. heap'[a] # Nil
      BY <2>3 DEF PluginsAssumption
    <2>5. PluginsTypeOK'
      BY <1>1, <1>2, <1>3, <1>5, <2>3, <2>4 DEF PluginsInv, PluginsTypeOK
    <2>6. CountsObjects'
      <3>1. ASSUME NEW b \in DataAddresses, heap'[b] # Nil
            PROVE  /\ heap'[b].m_references = Cardinality(Sharers(b)')
                   /\ Sharers(b)' # {}
                   /\ m_plugin_map'[heap'[b].m_plugin_name] = b
        BY <1>5, <2>1, <2>2, <2>3, <3>1 DEF PluginsInv, CountsObjects
      <3>2. ASSUME NEW n \in Names
            PROVE  /\ m_plugin_map'[n] # Nil => heap'[m_plugin_map'[n]].m_plugin_name = n
                   /\ loaded'[n] = IF m_plugin_map'[n] # Nil /\ heap'[m_plugin_map'[n]].m_lib_handle
                                   THEN 1 ELSE 0
        BY <1>5, <2>1, <2>3 DEF PluginsInv, PluginsTypeOK, CountsObjects
      <3> QED BY <3>1, <3>2 DEF CountsObjects
    <2> QED BY <1>3, <2>5, <2>6 DEF PluginsInv
  <1>6. ASSUME NEW a \in DataAddresses, a = m_plugin_data[x], isLastReference(a),
               loaded' = closeDynamicLibrary(a),
               m_plugin_map' = [m_plugin_map EXCEPT ![heap[a].m_plugin_name] = Nil],
               heap' = [heap EXCEPT ![a] = Nil]
        PROVE  PluginsInv'
    <2> DEFINE name == heap[a].m_plugin_name
    <2>1. /\ heap[a] # Nil /\ heap[a] \in PionPluginData
          /\ name \in Names
          /\ m_plugin_map[name] = a
          /\ a # Nil
      BY <1>1, <1>6, Pointed DEF PluginsAssumption
    <2>2. /\ Sharers(a)' = {}
          /\ \A b \in DataAddresses : b # a => Sharers(b)' = Sharers(b)
      BY <1>1, <1>2, <1>6, OneSharerLess DEF isLastReference
    <2>3. \A y \in Handles : m_plugin_data'[y] # a
      BY <2>2 DEF Sharers
    <2>4. \A n \in Names : n # name => m_plugin_map[n] # a
      BY <2>1 DEF PluginsInv, CountsObjects
    <2>5. loaded' \in [Names -> Nat] /\ loaded'[name] = 0
          /\ \A n \in Names : n # name => loaded'[n] = loaded[n]
      <3>1. heap[a].m_lib_handle \in BOOLEAN
        BY <2>1 DEF PionPluginData
      <3>2. loaded[name] = IF heap[a].m_lib_handle THEN 1 ELSE 0
        BY <1>6, <2>1 DEF PluginsInv, CountsObjects
      <3> QED BY <1>6, <2>1, <3>1, <3>2 DEF PluginsInv, PluginsTypeOK, closeDynamicLibrary
    <2>6. /\ heap'[a] = Nil
          /\ \A b \in DataAddresses : b # a => heap'[b] = heap[b]
          /\ m_plugin_map'[name] = Nil
          /\ \A n \in Names : n # name => m_plugin_map'[n] = m_plugin_map[n]
      BY <1>6, <2>1 DEF PluginsInv, PluginsTypeOK
    <2> HIDE DEF name
    <2>7. PluginsTypeOK'
      <3>1. heap' \in [DataAddresses -> PionPluginData \cup {Nil}]
        BY <1>6 DEF PluginsInv, PluginsTypeOK
      <3>2. m_plugin_map' \in [Names -> {b \in DataAddresses : heap'[b] # Nil} \cup {Nil}]
        BY <1>6, <2>1, <2>4, <2>6 DEF PluginsInv, PluginsTypeOK, name
      <3>3. m_plugin_data' \in [Handles -> {b \in DataAddresses : heap'[b] # Nil} \cup {Nil}]
        BY <1>1, <1>2, <2>3, <2>6 DEF PluginsInv, PluginsTypeOK
      <3> QED BY <1>3, <2>5, <3>1, <3>2, <3>3 DEF PluginsInv, PluginsTypeOK
    <2>8. CountsObjects'
      <3>1. ASSUME NEW b \in DataAddresses, heap'[b] # Nil
            PROVE  /\ heap'[b].m_references = Cardinality(Sharers(b)')
                   /\ Sharers(b)' # {}
                   /\ m_plugin_map'[heap'[b].m_plugin_name] = b
        <4>1. b # a /\ heap'[b] = heap[b] /\ heap[b] # Nil /\ Sharers(b)' = Sharers(b)
          BY <2>2, <2>6, <3>1
        <4>2. heap[b].m_plugin_name \in Names /\ m_plugin_map[heap[b].m_plugin_name] = b
          BY <4>1 DEF PluginsInv, PluginsTypeOK, CountsObjects, PionPluginData
        <4>3. heap[b].m_plugin_name # name
          BY <2>1, <4>1, <4>2
        <4> QED BY <2>6, <4>1, <4>2, <4>3 DEF PluginsInv, CountsObjects
      <3>2. ASSUME NEW n \in Names
            PROVE  /\ m_plugin_map'[n] # Nil => heap'[m_plugin_map'[n]].m_plugin_name = n
                   /\ loaded'[n] = IF m_plugin_map'[n] # Nil /\ heap'[m_plugin_map'[n]].m_lib_handle
                                   THEN 1 ELSE 0
        <4>1. CASE n = name
          BY <2>5, <2>6, <4>1
        <4>2. CASE n # name
          <5>1. m_plugin_map'[n] = m_plugin_map[n] /\ loaded'[n] = loaded[n] /\ m_plugin_map[n] # a
            BY <2>4, <2>5, <2>6, <4>2
          <5>2. m_plugin_map[n] # Nil => heap'[m_plugin_map[n]] = heap[m_plugin_map[n]]
            BY <2>6, <5>1, Mapped
          <5> QED BY <5>1, <5>2 DEF PluginsInv, CountsObjects
        <4> QED BY <4>1, <4>2
      <3> QED BY <3>1, <3>2 DEF CountsObjects
    <2> QED BY <1>3, <2>7, <2>8 DEF PluginsInv
  <1>7. m_plugin_data[x] = Nil \/ m_plugin_data[x] \in DataAddresses
    BY <1>1 DEF PluginsInv, PluginsTypeOK
  <1> QED BY <1>4, <1>5, <1>6, <1>7 DEF ReleaseData, x

-----------------------------------------------------------------------------
(* openFile(), openStaticLinked() and grabData(), after the release.       *)

\* The end of a call whose object takes the data at v, or stays empty.
LEMMA ReturnStep ==
    ASSUME PluginsAssumption, PluginsInv, NEW u \in Callers, phase[u] = "take", Return(u),
           NEW v, m_plugin_data' = [m_plugin_data EXCEPT ![call[u].x] = v]
    PROVE  /\ phase' \in [Callers -> {"out", "release", "take"}]
           /\ call' \in [Callers -> Calls \cup {Nil}]
           /\ \A s \in Callers : phase'[s] # "out" => call'[s] # Nil
           /\ UNCHANGED <<m_plugin_dirs, m_entry_points>>
           /\ Apart'
  <1>1. call[u].x \in Handles
    BY Working
  <1>2. \A s \in Callers : phase[s] # "out" => call[s].x \in Handles
    BY Working
  <1> QED BY <1>1, <1>2 DEF PluginsInv, PluginsTypeOK, Apart, Return

LEMMA ThrowStep ==
    ASSUME PluginsAssumption, PluginsInv, NEW u \in Callers, phase[u] = "take", Throw(u), UNCHANGED loaded
    PROVE  PluginsInv'
  <1>1. call[u].x \in Handles
    BY Working
  <1>2. m_plugin_data' = [m_plugin_data EXCEPT ![call[u].x] = m_plugin_data[call[u].x]]
    BY <1>1 DEF PluginsInv, PluginsTypeOK, Throw
  <1>3. CountsObjects'
    BY DataKept DEF Throw
  <1>4. /\ phase' \in [Callers -> {"out", "release", "take"}]
        /\ call' \in [Callers -> Calls \cup {Nil}]
        /\ \A s \in Callers : phase'[s] # "out" => call'[s] # Nil
        /\ UNCHANGED <<m_plugin_dirs, m_entry_points>>
        /\ Apart'
    BY <1>2, ReturnStep DEF Throw
  <1> QED BY <1>3, <1>4 DEF PluginsInv, PluginsTypeOK, Throw

\* One object more shares the data at a.
LEMMA OneSharerMore ==
    ASSUME PluginsAssumption, PluginsInv, NEW x \in Handles, m_plugin_data[x] = Nil, NEW a \in DataAddresses,
           m_plugin_data' = [m_plugin_data EXCEPT ![x] = a]
    PROVE  /\ Sharers(a)' = Sharers(a) \cup {x}
           /\ Cardinality(Sharers(a)') = Cardinality(Sharers(a)) + 1
           /\ Cardinality(Sharers(a)) \in Nat
           /\ Sharers(a)' # {}
           /\ \A b \in DataAddresses : b # a => Sharers(b)' = Sharers(b)
  <1>1. a # Nil /\ x \notin Sharers(a)
    BY DEF PluginsAssumption, Sharers
  <1>2. Sharers(a)' = Sharers(a) \cup {x}
    BY <1>1 DEF PluginsInv, PluginsTypeOK, Sharers
  <1>3. \A b \in DataAddresses : b # a => Sharers(b)' = Sharers(b)
    BY DEF PluginsAssumption, PluginsInv, PluginsTypeOK, Sharers
  <1>4. IsFiniteSet(Sharers(a))
    BY FS_Subset DEF PluginsAssumption, Sharers
  <1>5. Cardinality(Sharers(a) \cup {x}) = Cardinality(Sharers(a)) + 1
    BY <1>1, <1>4, FS_AddElement
  <1>6. Cardinality(Sharers(a)) \in Nat
    BY <1>4, FS_CardinalityType
  <1> QED BY <1>2, <1>3, <1>5, <1>6

LEMMA ShareStep ==
    ASSUME PluginsAssumption, PluginsInv, NEW u \in Callers, phase[u] = "take",
           NEW a \in DataAddresses, heap[a] # Nil, Share(u, a)
    PROVE  PluginsInv'
  <1> DEFINE x == call[u].x
  <1>1. x \in Handles /\ m_plugin_data[x] = Nil
    BY Working DEF PluginsInv, Apart
  <1>2. m_plugin_data' = [m_plugin_data EXCEPT ![x] = a]
    BY DEF Share
  <1>3. /\ phase' \in [Callers -> {"out", "release", "take"}]
        /\ call' \in [Callers -> Calls \cup {Nil}]
        /\ \A s \in Callers : phase'[s] # "out" => call'[s] # Nil
        /\ UNCHANGED <<m_plugin_dirs, m_entry_points>>
        /\ Apart'
    BY <1>2, ReturnStep DEF Share
  <1> HIDE DEF x
  <1>4. /\ heap[a] \in PionPluginData /\ heap[a].m_plugin_name \in Names
        /\ heap[a].m_references = Cardinality(Sharers(a)) /\ heap[a].m_references \in Nat
    BY DEF PluginsInv, PluginsTypeOK, CountsObjects, PionPluginData
  <1>5. /\ Sharers(a)' # {}
        /\ Cardinality(Sharers(a)') = heap[a].m_references + 1
        /\ \A b \in DataAddresses : b # a => Sharers(b)' = Sharers(b)
    BY <1>1, <1>2, <1>4, OneSharerMore
  <1>6. /\ heap'[a] \in PionPluginData
        /\ heap'[a].m_plugin_name = heap[a].m_plugin_name
        /\ heap'[a].m_lib_handle = heap[a].m_lib_handle
        /\ heap'[a].m_references = heap[a].m_references + 1
        /\ \A b \in DataAddresses : b # a => heap'[b] = heap[b]
        /\ heap' \in [DataAddresses -> PionPluginData \cup {Nil}]
    BY <1>4 DEF PluginsInv, PluginsTypeOK, PionPluginData, Share
  <1>7. heap'[a] # Nil
    BY <1>6 DEF PluginsAssumption
  <1>8. UNCHANGED <<m_plugin_map, loaded>>
    BY DEF Share
  <1>9. PluginsTypeOK'
    BY <1>1, <1>2, <1>3, <1>6, <1>7, <1>8 DEF PluginsInv, PluginsTypeOK
  <1>10. CountsObjects'
    <2>1. ASSUME NEW b \in DataAddresses, heap'[b] # Nil
          PROVE  /\ heap'[b].m_references = Cardinality(Sharers(b)')
                 /\ Sharers(b)' # {}
                 /\ m_plugin_map'[heap'[b].m_plugin_name] = b
      BY <1>5, <1>6, <1>8, <2>1 DEF PluginsInv, CountsObjects
    <2>2. ASSUME NEW n \in Names
          PROVE  /\ m_plugin_map'[n] # Nil => heap'[m_plugin_map'[n]].m_plugin_name = n
                 /\ loaded'[n] = IF m_plugin_map'[n] # Nil /\ heap'[m_plugin_map'[n]].m_lib_handle
                                 THEN 1 ELSE 0
      BY <1>6, <1>8 DEF PluginsInv, PluginsTypeOK, CountsObjects
    <2> QED BY <2>1, <2>2 DEF CountsObjects
  <1> QED BY <1>3, <1>9, <1>10 DEF PluginsInv

\* New data for a plug-in that the map has none for; lib says that its library was loaded.
LEMMA InsertStep ==
    ASSUME PluginsAssumption, PluginsInv, NEW u \in Callers, phase[u] = "take",
           NEW n \in Names, NEW lib \in BOOLEAN, m_plugin_map[n] = Nil, Insert(u, n, lib),
           loaded' = IF lib THEN [loaded EXCEPT ![n] = @ + 1] ELSE loaded
    PROVE  PluginsInv'
  <1> DEFINE x == call[u].x
  <1>1. PICK a \in DataAddresses :
            /\ heap[a] = Nil
            /\ heap' = [heap EXCEPT ![a] = [m_plugin_name |-> n, m_lib_handle |-> lib, m_references |-> 1]]
            /\ m_plugin_map' = [m_plugin_map EXCEPT ![n] = a]
            /\ m_plugin_data' = [m_plugin_data EXCEPT ![x] = a]
            /\ Return(u)
    BY DEF Insert
  <1>2. x \in Handles /\ m_plugin_data[x] = Nil
    BY Working DEF PluginsInv, Apart
  <1>3. /\ phase' \in [Callers -> {"out", "release", "take"}]
        /\ call' \in [Callers -> Calls \cup {Nil}]
        /\ \A s \in Callers : phase'[s] # "out" => call'[s] # Nil
        /\ UNCHANGED <<m_plugin_dirs, m_entry_points>>
        /\ Apart'
    BY <1>1, ReturnStep
  <1> HIDE DEF x
  <1> DEFINE r == [m_plugin_name |-> n, m_lib_handle |-> lib, m_references |-> 1]
  <1>4. /\ r \in PionPluginData /\ r.m_plugin_name = n /\ r.m_lib_handle = lib /\ r.m_references = 1
        /\ heap' = [heap EXCEPT ![a] = r]
    BY <1>1 DEF PionPluginData
  <1> HIDE DEF r
  <1>5. /\ r # Nil /\ a # Nil
        /\ heap'[a] = r
        /\ \A b \in DataAddresses : b # a => heap'[b] = heap[b]
        /\ heap' \in [DataAddresses -> PionPluginData \cup {Nil}]
    BY <1>4 DEF PluginsAssumption, PluginsInv, PluginsTypeOK
  <1>6. Sharers(a) = {}
    BY <1>1, <1>5 DEF PluginsInv, PluginsTypeOK, Sharers
  <1>7. /\ Sharers(a)' # {}
        /\ Cardinality(Sharers(a)') = 1
        /\ \A b \in DataAddresses : b # a => Sharers(b)' = Sharers(b)
    <2>1. Cardinality(Sharers(a)) = 0
      BY <1>6, FS_EmptySet
    <2>2. /\ Sharers(a)' # {}
          /\ Cardinality(Sharers(a)') = Cardinality(Sharers(a)) + 1
          /\ \A b \in DataAddresses : b # a => Sharers(b)' = Sharers(b)
      BY <1>1, <1>2, OneSharerMore
    <2> QED BY <2>1, <2>2
  <1>8. /\ m_plugin_map'[n] = a
        /\ \A k \in Names : k # n => m_plugin_map'[k] = m_plugin_map[k]
    BY <1>1 DEF PluginsInv, PluginsTypeOK
  <1>9. /\ loaded[n] = 0
        /\ loaded' \in [Names -> Nat]
        /\ loaded'[n] = IF lib THEN 1 ELSE 0
        /\ \A k \in Names : k # n => loaded'[k] = loaded[k]
    BY DEF PluginsInv, PluginsTypeOK, CountsObjects
  <1>10. PluginsTypeOK'
    <2>1. m_plugin_map' \in [Names -> {b \in DataAddresses : heap'[b] # Nil} \cup {Nil}]
      BY <1>1, <1>5 DEF PluginsInv, PluginsTypeOK
    <2>2. m_plugin_data' \in [Handles -> {b \in DataAddresses : heap'[b] # Nil} \cup {Nil}]
      BY <1>1, <1>2, <1>5 DEF PluginsInv, PluginsTypeOK
    <2> QED BY <1>3, <1>5, <1>9, <2>1, <2>2 DEF PluginsInv, PluginsTypeOK
  <1>11. CountsObjects'
    <2>1. ASSUME NEW b \in DataAddresses, heap'[b] # Nil
          PROVE  /\ heap'[b].m_references = Cardinality(Sharers(b)')
                 /\ Sharers(b)' # {}
                 /\ m_plugin_map'[heap'[b].m_plugin_name] = b
      <3>1. CASE b = a
        BY <1>4, <1>5, <1>7, <1>8, <3>1
      <3>2. CASE b # a
        <4>1. heap'[b] = heap[b] /\ heap[b] # Nil /\ Sharers(b)' = Sharers(b)
          BY <1>5, <1>7, <2>1, <3>2
        <4>2. /\ heap[b].m_plugin_name \in Names /\ m_plugin_map[heap[b].m_plugin_name] = b
              /\ b # Nil
          BY <4>1 DEF PluginsAssumption, PluginsInv, PluginsTypeOK, CountsObjects, PionPluginData
        <4>3. heap[b].m_plugin_name # n
          BY <4>2
        <4> QED BY <1>8, <4>1, <4>2, <4>3 DEF PluginsInv, CountsObjects
      <3> QED BY <3>1, <3>2
    <2>2. ASSUME NEW k \in Names
          PROVE  /\ m_plugin_map'[k] # Nil => heap'[m_plugin_map'[k]].m_plugin_name = k
                 /\ loaded'[k] = IF m_plugin_map'[k] # Nil /\ heap'[m_plugin_map'[k]].m_lib_handle
                                 THEN 1 ELSE 0
      <3>1. CASE k = n
        BY <1>4, <1>5, <1>8, <1>9, <3>1
      <3>2. CASE k # n
        <4>1. m_plugin_map'[k] = m_plugin_map[k] /\ loaded'[k] = loaded[k]
          BY <1>8, <1>9, <3>2
        <4>2. m_plugin_map[k] # Nil => heap'[m_plugin_map[k]] = heap[m_plugin_map[k]]
          BY <1>1, <1>5, Mapped
        <4> QED BY <4>1, <4>2 DEF PluginsInv, CountsObjects
      <3> QED BY <3>1, <3>2
    <2> QED BY <2>1, <2>2 DEF CountsObjects
  <1> QED BY <1>3, <1>10, <1>11 DEF PluginsInv

LEMMA TakeSteps ==
    ASSUME PluginsAssumption, PluginsInv, NEW u \in Callers, OpenFile(u) \/ TakeStaticLinked(u) \/ TakeData(u)
    PROVE  PluginsInv'
  <1>1. phase[u] = "take"
    BY DEF OpenFile, TakeStaticLinked, TakeData
  <1>2. \A a \in DataAddresses : heap[a] # Nil /\ Share(u, a) => PluginsInv'
    BY <1>1, ShareStep
  <1>3. CASE OpenFile(u)
    <2>1. call[u].n \in Names
      BY <1>1, <1>3, Working DEF OpenFile
    <2>2. CASE m_plugin_map[call[u].n] # Nil /\ Share(u, m_plugin_map[call[u].n])
      BY <1>2, <2>1, <2>2, Mapped
    <2>3. CASE m_plugin_map[call[u].n] = Nil /\ openPlugin(u, call[u].n)
      <3>1. CASE UNCHANGED loaded /\ Throw(u)
        BY <1>1, <3>1, ThrowStep
      <3>2. CASE loaded' = [loaded EXCEPT ![call[u].n] = @ + 1] /\ Insert(u, call[u].n, TRUE)
        <4>1. ASSUME NEW n \in Names, n = call[u].n PROVE PluginsInv'
          BY <1>1, <2>3, <3>2, <4>1, InsertStep
        <4> QED BY <2>1, <4>1
      <3> QED BY <2>3, <3>1, <3>2 DEF openPlugin
    <2> QED BY <1>3, <2>2, <2>3 DEF OpenFile
  <1>4. CASE TakeStaticLinked(u)
    <2>1. call[u].n \in Names
      BY <1>1, <1>4, Working DEF TakeStaticLinked
    <2>2. CASE m_plugin_map[call[u].n] # Nil /\ Share(u, m_plugin_map[call[u].n])
      BY <1>2, <2>1, <2>2, Mapped
    <2>3. CASE m_plugin_map[call[u].n] = Nil /\ UNCHANGED loaded /\ Insert(u, call[u].n, FALSE)
      <3>1. ASSUME NEW n \in Names, n = call[u].n PROVE PluginsInv'
        BY <1>1, <2>3, <3>1, InsertStep
      <3> QED BY <2>1, <3>1
    <2> QED BY <1>4, <2>2, <2>3 DEF TakeStaticLinked
  <1>5. CASE TakeData(u)
    <2>1. call[u].p \in Handles
      BY <1>1, <1>5, Working DEF TakeData
    <2>2. CASE m_plugin_data[call[u].p] # Nil /\ Share(u, m_plugin_data[call[u].p])
      BY <1>2, <2>1, <2>2, Pointed
    <2>3. CASE UNCHANGED loaded /\ Throw(u)
      BY <1>1, <2>3, ThrowStep
    <2> QED BY <1>5, <2>2, <2>3 DEF TakeData
  <1> QED BY <1>3, <1>4, <1>5

LEMMA PluginsNextStep == ASSUME PluginsAssumption, PluginsInv, [PluginsNext]_pluginVars PROVE PluginsInv'
  <1>1. ASSUME NEW u \in Callers, NEW x \in Handles,
               \/ \E n \in Names : Open(u, x, n) \/ OpenStaticLinked(u, x, n)
               \/ \E p \in Handles : GrabData(u, x, p)
               \/ Close(u, x)
        PROVE  PluginsInv'
    <2>1. \E c \in Calls : Enter(u, c)
      BY <1>1, CallsMade DEF Open, OpenStaticLinked, GrabData, Close
    <2> QED BY <2>1, EnterStep
  <1>2. CASE UNCHANGED pluginVars
    BY <1>2 DEF pluginVars, PluginsInv, PluginsTypeOK, CountsObjects, Apart, Sharers
  <1> QED BY <1>1, <1>2, ReleaseDataStep, TakeSteps, DirectoryStep DEF PluginsNext

-----------------------------------------------------------------------------
(* Objects share plug-ins as Libraries says.                               *)

\* The plug-in an object refers to, as Libraries sees it.
Holds == [x \in Handles |-> IF m_plugin_data[x] = Nil THEN Nil
                            ELSE heap[m_plugin_data[x]].m_plugin_name]

\* The plug-ins whose library is loaded.
InMemory == {n \in Names : loaded[n] > 0}

\* A plug-in is held exactly while the map has data for it, and a library that is loaded
\* is held.
HeldIsMapped ==
    /\ \A x \in Handles : Holds[x] # Nil => Holds[x] \in Names /\ m_plugin_map[Holds[x]] # Nil
    /\ \A n \in Names : m_plugin_map[n] # Nil => \E x \in Handles : Holds[x] = n
    /\ \A n \in InMemory : m_plugin_map[n] # Nil

LEMMA HeldFacts == ASSUME PluginsAssumption, PluginsInv PROVE HeldIsMapped
  <1>1. ASSUME NEW x \in Handles, Holds[x] # Nil
        PROVE  Holds[x] \in Names /\ m_plugin_map[Holds[x]] # Nil
    <2>1. m_plugin_data[x] # Nil /\ Holds[x] = heap[m_plugin_data[x]].m_plugin_name
      BY <1>1 DEF Holds
    <2> QED BY <2>1, Pointed
  <1>2. ASSUME NEW n \in Names, m_plugin_map[n] # Nil
        PROVE  \E x \in Handles : Holds[x] = n
    <2>1. /\ m_plugin_map[n] \in DataAddresses /\ heap[m_plugin_map[n]] # Nil
          /\ heap[m_plugin_map[n]].m_plugin_name = n
      BY <1>2, Mapped
    <2>2. PICK x \in Handles : m_plugin_data[x] = m_plugin_map[n]
      BY <2>1 DEF PluginsInv, CountsObjects, Sharers
    <2> QED BY <1>2, <2>1, <2>2 DEF Holds
  <1>3. ASSUME NEW n \in InMemory PROVE m_plugin_map[n] # Nil
    BY DEF InMemory, PluginsInv, CountsObjects
  <1> QED BY <1>1, <1>2, <1>3 DEF HeldIsMapped

LEMMA InstanceIs ==
    /\ Libs!Init <=> Holds = [x \in Handles |-> Nil] /\ InMemory = {}
    /\ (UNCHANGED <<Holds, InMemory>>) => UNCHANGED Libs!vars
  BY DEF Libs!Init, Libs!vars, Holds, InMemory

\* The steps of Libraries on what the objects hold and the loaded libraries.
LEMMA DropIs ==
    ASSUME NEW x \in Handles, Holds' = [Holds EXCEPT ![x] = Nil],
           InMemory' = InMemory \cap ({Holds'[y] : y \in Handles} \ {Nil})
    PROVE  Libs!Next
  BY DEF Libs!Next, Libs!Drop, Libs!Held, Holds, InMemory

LEMMA TakeIs ==
    ASSUME NEW x \in Handles, NEW n \in Names, Holds[x] = Nil, Holds' = [Holds EXCEPT ![x] = n],
           \/ InMemory' = InMemory
           \/ n \notin {Holds[y] : y \in Handles} \ {Nil} /\ InMemory' = InMemory \cup {n}
    PROVE  Libs!Next
  <1>1. Libs!Take(x, n)
    BY DEF Libs!Take, Libs!Held, Holds, InMemory
  <1> QED BY <1>1 DEF Libs!Next

LEMMA CopyIs ==
    ASSUME NEW x \in Handles, NEW y \in Handles, Holds[x] = Nil, Holds' = [Holds EXCEPT ![x] = Holds[y]],
           InMemory' = InMemory
    PROVE  Libs!Next
  <1>1. Libs!Copy(x, y)
    BY DEF Libs!Copy, Holds, InMemory
  <1> QED BY <1>1 DEF Libs!Next

LEMMA ReleaseDataRefines ==
    ASSUME PluginsAssumption, PluginsInv, PluginsInv', HeldIsMapped', NEW u \in Callers, ReleaseData(u)
    PROVE  [Libs!Next]_Libs!vars
  <1> DEFINE x == call[u].x
  <1>1. x \in Handles
    BY Working DEF ReleaseData
  <1>2. m_plugin_data' = [m_plugin_data EXCEPT ![x] = Nil]
    BY DEF ReleaseData
  <1>3. \A y \in Handles : y # x /\ m_plugin_data[y] # Nil =>
            m_plugin_data'[y] = m_plugin_data[y] /\ m_plugin_data[y] \in DataAddresses
    BY <1>2 DEF PluginsInv, PluginsTypeOK
  <1>4. m_plugin_data'[x] = Nil
    BY <1>1, <1>2 DEF PluginsInv, PluginsTypeOK
  <1> HIDE DEF x
  <1>5. CASE m_plugin_data[x] = Nil /\ UNCHANGED <<heap, m_plugin_map, loaded>>
    <2>1. m_plugin_data' = m_plugin_data
      BY <1>1, <1>2, <1>5 DEF PluginsInv, PluginsTypeOK
    <2>2. UNCHANGED <<Holds, InMemory>>
      BY <1>5, <2>1 DEF Holds, InMemory
    <2> QED BY <2>2, InstanceIs
  <1>6. ASSUME NEW a \in DataAddresses, a = m_plugin_data[x], ~isLastReference(a),
               heap' = [heap EXCEPT ![a].m_references = @ - 1], UNCHANGED <<m_plugin_map, loaded>>
        PROVE  Libs!Next
    <2>1. a # Nil /\ heap[a] \in PionPluginData
      BY <1>1, <1>6, Pointed DEF PluginsAssumption
    <2>2. \A b \in DataAddresses : heap[b] # Nil => heap'[b].m_plugin_name = heap[b].m_plugin_name
      BY <1>6, <2>1 DEF PluginsInv, PluginsTypeOK, PionPluginData
    <2>3. Holds' = [Holds EXCEPT ![x] = Nil]
      <3>1. \A y \in Handles : Holds'[y] = IF y = x THEN Nil ELSE Holds[y]
        BY <1>1, <1>2, <1>3, <1>4, <2>2, Pointed DEF Holds, PluginsInv, PluginsTypeOK
      <3> QED BY <1>1, <3>1 DEF Holds
    <2>4. InMemory' = InMemory
      BY <1>6 DEF InMemory
    <2>5. InMemory' = InMemory \cap ({Holds'[y] : y \in Handles} \ {Nil})
      BY <2>4 DEF HeldIsMapped, InMemory, PluginsAssumption
    <2> QED BY <1>1, <2>3, <2>5, DropIs
  <1>7. ASSUME NEW a \in DataAddresses, a = m_plugin_data[x], isLastReference(a),
               loaded' = closeDynamicLibrary(a),
               m_plugin_map' = [m_plugin_map EXCEPT ![heap[a].m_plugin_name] = Nil],
               heap' = [heap EXCEPT ![a] = Nil]
        PROVE  Libs!Next
    <2> DEFINE name == heap[a].m_plugin_name
    <2>1. a # Nil /\ heap[a] \in PionPluginData /\ name \in Names
      BY <1>1, <1>7, Pointed DEF PluginsAssumption
    <2>2. \A y \in Handles : m_plugin_data'[y] # a
      BY <1>1, <1>2, <1>7, OneSharerLess DEF isLastReference, Sharers
    <2>3. Holds' = [Holds EXCEPT ![x] = Nil]
      <3>1. \A y \in Handles : Holds'[y] = IF y = x THEN Nil ELSE Holds[y]
        BY <1>1, <1>2, <1>3, <1>4, <1>7, <2>2, Pointed DEF Holds, PluginsInv, PluginsTypeOK
      <3> QED BY <1>1, <3>1 DEF Holds
    <2>4. /\ \A n \in Names : n # name => loaded'[n] = loaded[n]
          /\ m_plugin_map'[name] = Nil
      BY <1>7, <2>1 DEF PluginsInv, PluginsTypeOK, closeDynamicLibrary
    <2> HIDE DEF name
    <2>5. name \notin {Holds'[y] : y \in Handles} \ {Nil}
      BY <2>4 DEF HeldIsMapped
    <2>6. name \notin InMemory'
      BY <2>4 DEF HeldIsMapped
    <2>7. \A n \in InMemory' : n \in {Holds'[y] : y \in Handles} \ {Nil}
      BY DEF HeldIsMapped, InMemory, PluginsAssumption
    <2>8. \A n \in Names : n # name => (n \in InMemory' <=> n \in InMemory)
      BY <2>4 DEF InMemory
    <2>9. InMemory' = InMemory \cap ({Holds'[y] : y \in Handles} \ {Nil})
      <3>1. InMemory \subseteq Names /\ InMemory' \subseteq Names
        BY DEF InMemory
      <3> QED BY <2>5, <2>6, <2>7, <2>8, <3>1
    <2> QED BY <1>1, <2>3, <2>9, DropIs
  <1>8. m_plugin_data[x] = Nil \/ m_plugin_data[x] \in DataAddresses
    BY <1>1 DEF PluginsInv, PluginsTypeOK
  <1> QED BY <1>5, <1>6, <1>7, <1>8 DEF ReleaseData, x

\* An object that joins those of a plug-in.
LEMMA ShareHolds ==
    ASSUME PluginsAssumption, PluginsInv, NEW u \in Callers, phase[u] = "take",
           NEW a \in DataAddresses, heap[a] # Nil, Share(u, a)
    PROVE  /\ call[u].x \in Handles /\ Holds[call[u].x] = Nil
           /\ Holds' = [Holds EXCEPT ![call[u].x] = heap[a].m_plugin_name]
           /\ InMemory' = InMemory
  <1> DEFINE x == call[u].x
  <1>1. x \in Handles /\ m_plugin_data[x] = Nil
    BY Working DEF PluginsInv, Apart
  <1>2. m_plugin_data' = [m_plugin_data EXCEPT ![x] = a] /\ loaded' = loaded
    BY DEF Share
  <1>3. \A b \in DataAddresses : heap[b] # Nil => heap'[b].m_plugin_name = heap[b].m_plugin_name
    BY DEF PluginsInv, PluginsTypeOK, PionPluginData, Share
  <1>4. a # Nil
    BY DEF PluginsAssumption
  <1> HIDE DEF x
  <1>5. \A y \in Handles : Holds'[y] = IF y = x THEN heap[a].m_plugin_name ELSE Holds[y]
    BY <1>1, <1>2, <1>3, <1>4, Pointed DEF Holds, PluginsInv, PluginsTypeOK
  <1>6. Holds' = [Holds EXCEPT ![x] = heap[a].m_plugin_name]
    BY <1>1, <1>5 DEF Holds
  <1> QED BY <1>1, <1>2, <1>6 DEF Holds, InMemory, x

\* An object that is the first of a plug-in.
LEMMA InsertRefines ==
    ASSUME PluginsAssumption, PluginsInv, HeldIsMapped, NEW u \in Callers, phase[u] = "take",
           NEW n \in Names, NEW lib \in BOOLEAN, m_plugin_map[n] = Nil, Insert(u, n, lib),
           loaded' = IF lib THEN [loaded EXCEPT ![n] = @ + 1] ELSE loaded
    PROVE  Libs!Next
  <1> DEFINE x == call[u].x
  <1>1. PICK a \in DataAddresses :
            /\ heap[a] = Nil
            /\ heap' = [heap EXCEPT ![a] = [m_plugin_name |-> n, m_lib_handle |-> lib, m_references |-> 1]]
            /\ m_plugin_data' = [m_plugin_data EXCEPT ![x] = a]
    BY DEF Insert
  <1>2. x \in Handles /\ m_plugin_data[x] = Nil
    BY Working DEF PluginsInv, Apart
  <1>3. a # Nil /\ heap'[a].m_plugin_name = n /\ \A b \in DataAddresses : heap[b] # Nil => heap'[b] = heap[b]
    BY <1>1 DEF PluginsAssumption, PluginsInv, PluginsTypeOK
  <1> HIDE DEF x
  <1>4. \A y \in Handles : Holds'[y] = IF y = x THEN n ELSE Holds[y]
    BY <1>1, <1>2, <1>3, Pointed DEF Holds, PluginsInv, PluginsTypeOK
  <1>5. Holds' = [Holds EXCEPT ![x] = n] /\ Holds[x] = Nil
    BY <1>2, <1>4 DEF Holds
  <1>6. n \notin {Holds[y] : y \in Handles} \ {Nil}
    BY DEF HeldIsMapped
  <1>7. InMemory' = InMemory \/ InMemory' = InMemory \cup {n}
    BY DEF PluginsInv, PluginsTypeOK, InMemory
  <1> QED BY <1>2, <1>5, <1>6, <1>7, TakeIs

LEMMA TakeRefines ==
    ASSUME PluginsAssumption, PluginsInv, HeldIsMapped, NEW u \in Callers,
           OpenFile(u) \/ TakeStaticLinked(u) \/ TakeData(u)
    PROVE  [Libs!Next]_Libs!vars
  <1>1. phase[u] = "take"
    BY DEF OpenFile, TakeStaticLinked, TakeData
  <1>2. ASSUME NEW n \in Names, m_plugin_map[n] # Nil, Share(u, m_plugin_map[n])
        PROVE  Libs!Next
    <2>1. /\ m_plugin_map[n] \in DataAddresses /\ heap[m_plugin_map[n]] # Nil
          /\ heap[m_plugin_map[n]].m_plugin_name = n
      BY <1>2, Mapped
    <2>2. PICK a \in DataAddresses : a = m_plugin_map[n]
      BY <2>1
    <2>3. /\ call[u].x \in Handles /\ Holds[call[u].x] = Nil
          /\ Holds' = [Holds EXCEPT ![call[u].x] = n]
          /\ InMemory' = InMemory
      BY <1>1, <1>2, <2>1, <2>2, ShareHolds
    <2>4. PICK x \in Handles : x = call[u].x
      BY <2>3
    <2> QED BY <2>3, <2>4, TakeIs
  <1>3. Throw(u) /\ UNCHANGED loaded => UNCHANGED Libs!vars
    BY InstanceIs DEF Throw, Holds, InMemory
  <1>4. CASE OpenFile(u)
    <2>1. call[u].n \in Names
      BY <1>1, <1>4, Working DEF OpenFile
    <2>2. PICK n \in Names : n = call[u].n
      BY <2>1
    <2>3. CASE m_plugin_map[n] = Nil /\ openPlugin(u, n)
      BY <1>1, <1>3, <2>3, InsertRefines DEF openPlugin
    <2> QED BY <1>2, <1>4, <2>2, <2>3 DEF OpenFile
  <1>5. CASE TakeStaticLinked(u)
    <2>1. call[u].n \in Names
      BY <1>1, <1>5, Working DEF TakeStaticLinked
    <2>2. PICK n \in Names : n = call[u].n
      BY <2>1
    <2>3. CASE m_plugin_map[n] = Nil /\ UNCHANGED loaded /\ Insert(u, n, FALSE)
      BY <1>1, <2>3, InsertRefines
    <2> QED BY <1>2, <1>5, <2>2, <2>3 DEF TakeStaticLinked
  <1>6. CASE TakeData(u)
    <2>1. PICK p \in Handles : p = call[u].p
      BY <1>1, <1>6, Working DEF TakeData
    <2>2. CASE m_plugin_data[p] # Nil /\ Share(u, m_plugin_data[p])
      <3>1. /\ m_plugin_data[p] \in DataAddresses /\ heap[m_plugin_data[p]] # Nil
            /\ Holds[p] = heap[m_plugin_data[p]].m_plugin_name
        BY <2>2, Pointed DEF Holds
      <3>2. PICK a \in DataAddresses : a = m_plugin_data[p]
        BY <3>1
      <3>3. /\ call[u].x \in Handles /\ Holds[call[u].x] = Nil
            /\ Holds' = [Holds EXCEPT ![call[u].x] = Holds[p]]
            /\ InMemory' = InMemory
        BY <1>1, <2>2, <3>1, <3>2, ShareHolds
      <3>4. PICK x \in Handles : x = call[u].x
        BY <3>3
      <3> QED BY <3>3, <3>4, CopyIs
    <2> QED BY <1>3, <1>6, <2>1, <2>2 DEF TakeData
  <1> QED BY <1>4, <1>5, <1>6

LEMMA NextRefines ==
    ASSUME PluginsAssumption, PluginsInv, PluginsInv', HeldIsMapped, HeldIsMapped', [PluginsNext]_pluginVars
    PROVE  [Libs!Next]_Libs!vars
  <1>1. UNCHANGED <<heap, m_plugin_data, loaded>> => UNCHANGED Libs!vars
    BY InstanceIs DEF Holds, InMemory
  <1>2. CASE UNCHANGED pluginVars
    BY <1>1, <1>2 DEF pluginVars
  <1>3. CASE \E u \in Callers : ReleaseData(u)
    BY <1>3, ReleaseDataRefines
  <1>4. CASE \E u \in Callers : OpenFile(u) \/ TakeStaticLinked(u) \/ TakeData(u)
    BY <1>4, TakeRefines
  <1>5. CASE \/ \E u \in Callers, x \in Handles :
                 \/ \E n \in Names : Open(u, x, n) \/ OpenStaticLinked(u, x, n)
                 \/ \E p \in Handles : GrabData(u, x, p)
                 \/ Close(u, x)
             \/ \E d \in Directories : AddPluginDirectory(d)
             \/ ResetPluginDirectories
             \/ \E n \in StaticallyLinked : AddStaticEntryPoint(n)
    BY <1>1, <1>5 DEF Open, OpenStaticLinked, GrabData, Close, Enter, AddPluginDirectory,
                      ResetPluginDirectories, AddStaticEntryPoint
  <1> QED BY <1>2, <1>3, <1>4, <1>5 DEF PluginsNext

-----------------------------------------------------------------------------
\* However the calls of any number of threads mix, no pointer of an object or of the
\* static map dangles, m_references counts the objects that share the data, and a library
\* is open exactly once while the data exists (PionPlugin::releaseData, openFile,
\* openStaticLinked, grabData).
THEOREM ObjectsAreCounted ==
    ASSUME PluginsAssumption PROVE PluginsSpec => [](PluginsTypeOK /\ CountsObjects)
  <1>1. PluginsInit => PluginsInv
    BY PluginsInitially
  <1>2. PluginsInv /\ [PluginsNext]_pluginVars => PluginsInv'
    BY PluginsNextStep
  <1>3. PluginsInv => PluginsTypeOK /\ CountsObjects
    BY DEF PluginsInv
  <1> QED BY <1>1, <1>2, <1>3, PTL DEF PluginsSpec

\* Objects share plug-ins as Libraries says: a library is loaded with its first object
\* and stays until the last lets go.
THEOREM LibrariesRefinement == ASSUME PluginsAssumption PROVE PluginsSpec => ImplementsLibraries
  <1>1. PluginsInit => PluginsInv
    BY PluginsInitially
  <1>2. PluginsInv /\ [PluginsNext]_pluginVars => PluginsInv'
    BY PluginsNextStep
  <1>3. PluginsInv => HeldIsMapped
    BY HeldFacts
  <1>4. PluginsInit => Libs!Init
    BY InstanceIs DEF PluginsInit, Holds, InMemory
  <1>5. PluginsInv /\ PluginsInv' /\ HeldIsMapped /\ HeldIsMapped' /\ [PluginsNext]_pluginVars => [Libs!Next]_Libs!vars
    BY NextRefines
  <1> QED BY <1>1, <1>2, <1>3, <1>4, <1>5, PTL DEF PluginsSpec, ImplementsLibraries, Libs!Spec

-----------------------------------------------------------------------------
(* The manager of plug-in objects                                          *)

\* Where a thread may stand.
Places == {"out", "open", "create", "insert", "use", "cloned"}

\* Objects are numbered without gaps.
Numbered == \E n \in 0..MaxObjects : maker \in [1..n -> Types \cup {Program}]

\* The types of the variables.
ManagerTypeOK ==
    /\ careful \in BOOLEAN
    /\ managed \in [Identifiers -> DOMAIN maker \cup {Absent}]
    /\ Numbered
    /\ alive \subseteq DOMAIN maker
    /\ holds \in [Clients \cup Identifiers \cup Pointers -> Types \cup {Absent}]
    /\ where \in [Clients -> Places]
    /\ id \in [Clients -> Identifiers \cup {Absent}]
    /\ obj \in [Clients -> DOMAIN maker \cup {Absent}]

\* What a thread has where it stands.
ThreadsStand ==
    \A u \in Clients :
        /\ where[u] = "out" => id[u] = Absent /\ obj[u] = Absent
        /\ where[u] # "out" => id[u] \in Identifiers
        /\ where[u] \in {"open", "create"} => obj[u] = Absent
        /\ where[u] \in {"create", "insert"} => holds[u] \in Types
        /\ where[u] \notin {"create", "insert"} => holds[u] = Absent

InHands(u) == where[u] \in {"insert", "cloned"}

\* An object that is not managed yet belongs to one thread; load() has the plug-in that
\* made it.
HandsApart ==
    /\ \A u \in Clients : InHands(u) => obj[u] \in alive /\ \A i \in Identifiers : managed[i] # obj[u]
    /\ \A u \in Clients : where[u] = "insert" => maker[obj[u]] = holds[u]
    /\ \A s, u \in Clients : InHands(s) /\ InHands(u) /\ s # u => obj[s] # obj[u]

\* No entry, no pointer.
EmptyEntries == \A i \in Identifiers : managed[i] = Absent => holds[i] = Absent

\* Callers that take turns: each works on an identifier of its own, which stays
\* free until load() inserts and keeps its object until the caller has used it.
TurnsTaken ==
    careful =>
        /\ \A s, u \in Clients : s # u /\ where[s] # "out" /\ where[u] # "out" => id[s] # id[u]
        /\ \A u \in Clients : where[u] \in {"open", "create", "insert"} => managed[id[u]] = Absent
        /\ \A u \in Clients : where[u] = "use" => managed[id[u]] = obj[u] /\ obj[u] # Absent
        /\ NothingLost

\* Then entries, and clones of their objects, keep to the plug-in that made them.
KeepsPlugin ==
    careful =>
        /\ MadeByItsPlugin
        /\ \A u \in Clients : where[u] = "cloned" => holds[id[u]] # Absent /\ maker[obj[u]] = holds[id[u]]

\* The inductive invariant of the manager.
ManagerInv ==
    /\ ManagerTypeOK /\ ThreadsStand /\ HandsApart /\ EmptyEntries /\ EntriesLive
    /\ TurnsTaken /\ KeepsPlugin

LEMMA ManagerInitially ==
    ASSUME ManagerAssumption, ManagerInit
    PROVE  ManagerInv
  <1>1. maker \in [1..0 -> Types \cup {Program}] /\ 0 \in 0..MaxObjects
    BY DEF ManagerAssumption, ManagerInit
  <1>2. holds = [x \in Clients \cup Identifiers \cup Pointers |-> Absent]
    BY DEF ManagerInit, Lib!Init
  <1>3. ManagerTypeOK
    BY <1>1, <1>2 DEF ManagerInit, ManagerTypeOK, Numbered, Places
  <1> QED  BY <1>2, <1>3 DEF ManagerInit, ManagerInv, ThreadsStand, HandsApart, InHands,
                             EmptyEntries, EntriesLive, TurnsTaken, NothingLost, KeepsPlugin,
                             MadeByItsPlugin

\* What the construction of an object does.
LEMMA Made ==
    ASSUME ManagerAssumption, ManagerTypeOK, NEW m \in Types \cup {Program}, New(m)
    PROVE  /\ NextObject \notin DOMAIN maker /\ NextObject # Absent
           /\ DOMAIN maker' = DOMAIN maker \cup {NextObject}
           /\ maker'[NextObject] = m
           /\ \A o \in DOMAIN maker : maker'[o] = maker[o]
           /\ Numbered'
           /\ alive' = alive \cup {NextObject}
  <1>1. PICK n \in 0..MaxObjects : maker \in [1..n -> Types \cup {Program}]
    BY DEF ManagerTypeOK, Numbered
  <1>2. DOMAIN maker = 1..n /\ n \in Nat
    BY <1>1 DEF ManagerAssumption
  <1>3. Cardinality(1..n) = n
    BY <1>2, FS_Interval
  <1>4. NextObject = n + 1
    BY <1>2, <1>3 DEF NextObject
  <1>5. n + 1 \in 1..MaxObjects
    BY <1>4 DEF New, ObjectNumbers
  <1>6. n + 1 \in 0..MaxObjects /\ 1..n \cup {n + 1} = 1..(n + 1)
    BY <1>2, <1>5 DEF ManagerAssumption
  <1>7. maker' = [p \in 1..(n + 1) |-> IF p = n + 1 THEN m ELSE maker[p]]
    BY <1>2, <1>4, <1>6 DEF New
  <1>8. maker' \in [1..(n + 1) -> Types \cup {Program}]
    BY <1>1, <1>2, <1>7
  <1> QED  BY <1>2, <1>4, <1>5, <1>6, <1>7, <1>8 DEF New, Numbered, ManagerAssumption

\* Absent stands for nothing else.
NullDistinct ==
    /\ Absent \notin DOMAIN maker /\ Absent \notin Identifiers /\ Absent \notin Types /\ Absent # Program
    /\ Program \notin Types

LEMMA NullApart ==
    ASSUME ManagerAssumption, ManagerTypeOK
    PROVE  NullDistinct
  BY DEF ManagerAssumption, ManagerTypeOK, Numbered, Program, NullDistinct

\* Where a thread goes, the others stay.
LEMMA Goes ==
    ASSUME ManagerTypeOK, NEW u \in Clients, NEW p \in Places, NEW i \in Identifiers \cup {Absent}, NEW o,
           At(u, p, i, o)
    PROVE  /\ where' \in [Clients -> Places] /\ id' \in [Clients -> Identifiers \cup {Absent}]
           /\ DOMAIN obj' = Clients /\ obj' = [s \in Clients |-> IF s = u THEN o ELSE obj[s]]
           /\ where'[u] = p /\ id'[u] = i /\ obj'[u] = o
           /\ \A s \in Clients \ {u} : where'[s] = where[s] /\ id'[s] = id[s] /\ obj'[s] = obj[s]
  BY DEF ManagerTypeOK, At

-----------------------------------------------------------------------------
(* The steps of the manager, each with what it changes (<1>3, <1>4, <1>11)  *)
(* and one step for each part of the invariant.                            *)

LEMMA LoadStep ==
    ASSUME ManagerAssumption, ManagerInv, NEW u \in Clients, NEW i \in Identifiers, Load(u, i),
           UNCHANGED careful
    PROVE  ManagerInv'
  <1> USE DEF Load, Alone
  <1>1. ManagerTypeOK /\ ThreadsStand /\ HandsApart /\ EmptyEntries /\ EntriesLive /\ TurnsTaken /\ KeepsPlugin
    BY DEF ManagerInv
  <1>2. NullDistinct
    BY <1>1, NullApart
  <1>3. /\ where' \in [Clients -> Places] /\ id' \in [Clients -> Identifiers \cup {Absent}]
        /\ obj' = [s \in Clients |-> IF s = u THEN Absent ELSE obj[s]]
        /\ where'[u] = "open" /\ id'[u] = i /\ obj'[u] = Absent
        /\ \A s \in Clients \ {u} : where'[s] = where[s] /\ id'[s] = id[s] /\ obj'[s] = obj[s]
    <2>1. At(u, "open", i, Absent)
      OBVIOUS
    <2> QED  BY <1>1, <2>1, Goes DEF Places, ThreadsStand
  <1>4. holds' = holds
    OBVIOUS
  <1>5. ManagerTypeOK'
    BY <1>1, <1>2, <1>3, <1>4 DEF NullDistinct, ManagerTypeOK, Numbered
  <1>6. ThreadsStand'
    BY <1>1, <1>2, <1>3, <1>4 DEF NullDistinct, ManagerTypeOK, ThreadsStand, Places
  <1>7. HandsApart'
    BY <1>1, <1>2, <1>3, <1>4 DEF NullDistinct, ManagerTypeOK, ThreadsStand, HandsApart, InHands
  <1>8. EmptyEntries'
    BY <1>1, <1>2, <1>3, <1>4 DEF NullDistinct, ManagerTypeOK, EmptyEntries
  <1>9. EntriesLive'
    <2> SUFFICES ASSUME NEW e \in Identifiers, managed'[e] # Absent
                 PROVE  /\ managed'[e] \in alive'
                        /\ \A j \in Identifiers \ {e} : managed'[j] # managed'[e]
      BY DEF EntriesLive
    <2> QED  BY <1>1, <1>2, <1>3, <1>4 DEF NullDistinct, ManagerTypeOK, HandsApart, InHands,
                                           EmptyEntries, EntriesLive
  <1>10. TurnsTaken'
    BY <1>1, <1>2, <1>3, <1>4 DEF NullDistinct, ManagerTypeOK, ThreadsStand, HandsApart, InHands,
                                  EntriesLive, TurnsTaken, NothingLost
  <1>12. KeepsPlugin'
    BY <1>1, <1>2, <1>3, <1>4 DEF NullDistinct, ManagerTypeOK, ThreadsStand, HandsApart, InHands,
                                  EmptyEntries, EntriesLive, TurnsTaken, KeepsPlugin, MadeByItsPlugin
  <1> QED  BY <1>5, <1>6, <1>7, <1>8, <1>9, <1>10, <1>12 DEF ManagerInv

LEMMA OpensStep ==
    ASSUME ManagerAssumption, ManagerInv, NEW u \in Clients, NEW n \in Types, where[u] = "open",
           Lib!Take(u, n), At(u, "create", id[u], Absent),
           UNCHANGED <<managed, maker, alive>>, UNCHANGED careful
    PROVE  ManagerInv'
  <1> USE DEF Lib!Take
  <1>1. ManagerTypeOK /\ ThreadsStand /\ HandsApart /\ EmptyEntries /\ EntriesLive /\ TurnsTaken /\ KeepsPlugin
    BY DEF ManagerInv
  <1>2. NullDistinct
    BY <1>1, NullApart
  <1>3. /\ where' \in [Clients -> Places] /\ id' \in [Clients -> Identifiers \cup {Absent}]
        /\ obj' = [s \in Clients |-> IF s = u THEN Absent ELSE obj[s]]
        /\ where'[u] = "create" /\ id'[u] = id[u] /\ obj'[u] = Absent
        /\ \A s \in Clients \ {u} : where'[s] = where[s] /\ id'[s] = id[s] /\ obj'[s] = obj[s]
    <2>1. At(u, "create", id[u], Absent)
      OBVIOUS
    <2> QED  BY <1>1, <2>1, Goes DEF Places, ThreadsStand
  <1>4. /\ holds' \in [Clients \cup Identifiers \cup Pointers -> Types \cup {Absent}]
        /\ holds'[u] = n
        /\ \A x \in Clients \ {u} : holds'[x] = holds[x]
        /\ \A x \in Identifiers : holds'[x] = holds[x]
    BY <1>1 DEF ManagerTypeOK, ManagerAssumption, ThreadsStand
  <1> HIDE DEF Lib!Take
  <1>5. ManagerTypeOK'
    BY <1>1, <1>2, <1>3, <1>4 DEF NullDistinct, ManagerTypeOK, Numbered
  <1>6. ThreadsStand'
    BY <1>1, <1>2, <1>3, <1>4 DEF NullDistinct, ManagerTypeOK, ThreadsStand, Places
  <1>7. HandsApart'
    BY <1>1, <1>2, <1>3, <1>4 DEF NullDistinct, ManagerTypeOK, ThreadsStand, HandsApart, InHands
  <1>8. EmptyEntries'
    BY <1>1, <1>2, <1>3, <1>4 DEF NullDistinct, ManagerTypeOK, EmptyEntries
  <1>9. EntriesLive'
    <2> SUFFICES ASSUME NEW e \in Identifiers, managed'[e] # Absent
                 PROVE  /\ managed'[e] \in alive'
                        /\ \A j \in Identifiers \ {e} : managed'[j] # managed'[e]
      BY DEF EntriesLive
    <2> QED  BY <1>1, <1>2, <1>3, <1>4 DEF NullDistinct, ManagerTypeOK, HandsApart, InHands,
                                           EmptyEntries, EntriesLive
  <1>10. TurnsTaken'
    BY <1>1, <1>2, <1>3, <1>4 DEF NullDistinct, ManagerTypeOK, ThreadsStand, HandsApart, InHands,
                                  EntriesLive, TurnsTaken, NothingLost
  <1>12. KeepsPlugin'
    BY <1>1, <1>2, <1>3, <1>4 DEF NullDistinct, ManagerTypeOK, ThreadsStand, HandsApart, InHands,
                                  EmptyEntries, EntriesLive, TurnsTaken, KeepsPlugin, MadeByItsPlugin
  <1> QED  BY <1>5, <1>6, <1>7, <1>8, <1>9, <1>10, <1>12 DEF ManagerInv

LEMMA OpenFailsStep ==
    ASSUME ManagerAssumption, ManagerInv, NEW u \in Clients, where[u] = "open", Returns(u),
           UNCHANGED <<managed, maker, alive, holds>>, UNCHANGED careful
    PROVE  ManagerInv'
  <1> USE DEF Returns
  <1>1. ManagerTypeOK /\ ThreadsStand /\ HandsApart /\ EmptyEntries /\ EntriesLive /\ TurnsTaken /\ KeepsPlugin
    BY DEF ManagerInv
  <1>2. NullDistinct
    BY <1>1, NullApart
  <1>3. /\ where' \in [Clients -> Places] /\ id' \in [Clients -> Identifiers \cup {Absent}]
        /\ obj' = [s \in Clients |-> IF s = u THEN Absent ELSE obj[s]]
        /\ where'[u] = "out" /\ id'[u] = Absent /\ obj'[u] = Absent
        /\ \A s \in Clients \ {u} : where'[s] = where[s] /\ id'[s] = id[s] /\ obj'[s] = obj[s]
    <2>1. At(u, "out", Absent, Absent)
      OBVIOUS
    <2> QED  BY <1>1, <2>1, Goes DEF Places, ThreadsStand
  <1>4. holds' = holds
    OBVIOUS
  <1>5. ManagerTypeOK'
    BY <1>1, <1>2, <1>3, <1>4 DEF NullDistinct, ManagerTypeOK, Numbered
  <1>6. ThreadsStand'
    BY <1>1, <1>2, <1>3, <1>4 DEF NullDistinct, ManagerTypeOK, ThreadsStand, Places
  <1>7. HandsApart'
    BY <1>1, <1>2, <1>3, <1>4 DEF NullDistinct, ManagerTypeOK, ThreadsStand, HandsApart, InHands
  <1>8. EmptyEntries'
    BY <1>1, <1>2, <1>3, <1>4 DEF NullDistinct, ManagerTypeOK, EmptyEntries
  <1>9. EntriesLive'
    <2> SUFFICES ASSUME NEW e \in Identifiers, managed'[e] # Absent
                 PROVE  /\ managed'[e] \in alive'
                        /\ \A j \in Identifiers \ {e} : managed'[j] # managed'[e]
      BY DEF EntriesLive
    <2> QED  BY <1>1, <1>2, <1>3, <1>4 DEF NullDistinct, ManagerTypeOK, HandsApart, InHands,
                                           EmptyEntries, EntriesLive
  <1>10. TurnsTaken'
    BY <1>1, <1>2, <1>3, <1>4 DEF NullDistinct, ManagerTypeOK, ThreadsStand, HandsApart, InHands,
                                  EntriesLive, TurnsTaken, NothingLost
  <1>12. KeepsPlugin'
    BY <1>1, <1>2, <1>3, <1>4 DEF NullDistinct, ManagerTypeOK, ThreadsStand, HandsApart, InHands,
                                  EmptyEntries, EntriesLive, TurnsTaken, KeepsPlugin, MadeByItsPlugin
  <1> QED  BY <1>5, <1>6, <1>7, <1>8, <1>9, <1>10, <1>12 DEF ManagerInv

LEMMA CreateFailsStep ==
    ASSUME ManagerAssumption, ManagerInv, NEW u \in Clients, CreateFails(u), UNCHANGED careful
    PROVE  ManagerInv'
  <1> USE DEF CreateFails, Returns, Lib!Drop
  <1>1. ManagerTypeOK /\ ThreadsStand /\ HandsApart /\ EmptyEntries /\ EntriesLive /\ TurnsTaken /\ KeepsPlugin
    BY DEF ManagerInv
  <1>2. NullDistinct
    BY <1>1, NullApart
  <1>3. /\ where' \in [Clients -> Places] /\ id' \in [Clients -> Identifiers \cup {Absent}]
        /\ obj' = [s \in Clients |-> IF s = u THEN Absent ELSE obj[s]]
        /\ where'[u] = "out" /\ id'[u] = Absent /\ obj'[u] = Absent
        /\ \A s \in Clients \ {u} : where'[s] = where[s] /\ id'[s] = id[s] /\ obj'[s] = obj[s]
    <2>1. At(u, "out", Absent, Absent)
      OBVIOUS
    <2> QED  BY <1>1, <2>1, Goes DEF Places, ThreadsStand
  <1>4. /\ holds' \in [Clients \cup Identifiers \cup Pointers -> Types \cup {Absent}]
        /\ holds'[u] = Absent
        /\ \A x \in Clients \ {u} : holds'[x] = holds[x]
        /\ \A x \in Identifiers : holds'[x] = holds[x]
    BY <1>1 DEF ManagerTypeOK, ManagerAssumption, ThreadsStand
  <1> HIDE DEF Lib!Drop
  <1>5. ManagerTypeOK'
    BY <1>1, <1>2, <1>3, <1>4 DEF NullDistinct, ManagerTypeOK, Numbered
  <1>6. ThreadsStand'
    BY <1>1, <1>2, <1>3, <1>4 DEF NullDistinct, ManagerTypeOK, ThreadsStand, Places
  <1>7. HandsApart'
    BY <1>1, <1>2, <1>3, <1>4 DEF NullDistinct, ManagerTypeOK, ThreadsStand, HandsApart, InHands
  <1>8. EmptyEntries'
    BY <1>1, <1>2, <1>3, <1>4 DEF NullDistinct, ManagerTypeOK, EmptyEntries
  <1>9. EntriesLive'
    <2> SUFFICES ASSUME NEW e \in Identifiers, managed'[e] # Absent
                 PROVE  /\ managed'[e] \in alive'
                        /\ \A j \in Identifiers \ {e} : managed'[j] # managed'[e]
      BY DEF EntriesLive
    <2> QED  BY <1>1, <1>2, <1>3, <1>4 DEF NullDistinct, ManagerTypeOK, HandsApart, InHands,
                                           EmptyEntries, EntriesLive
  <1>10. TurnsTaken'
    BY <1>1, <1>2, <1>3, <1>4 DEF NullDistinct, ManagerTypeOK, ThreadsStand, HandsApart, InHands,
                                  EntriesLive, TurnsTaken, NothingLost
  <1>12. KeepsPlugin'
    BY <1>1, <1>2, <1>3, <1>4 DEF NullDistinct, ManagerTypeOK, ThreadsStand, HandsApart, InHands,
                                  EmptyEntries, EntriesLive, TurnsTaken, KeepsPlugin, MadeByItsPlugin
  <1> QED  BY <1>5, <1>6, <1>7, <1>8, <1>9, <1>10, <1>12 DEF ManagerInv

LEMMA DiscardStep ==
    ASSUME ManagerAssumption, ManagerInv, NEW u \in Clients, Discard(u), UNCHANGED careful
    PROVE  ManagerInv'
  <1> USE DEF Discard, Returns
  <1>1. ManagerTypeOK /\ ThreadsStand /\ HandsApart /\ EmptyEntries /\ EntriesLive /\ TurnsTaken /\ KeepsPlugin
    BY DEF ManagerInv
  <1>2. NullDistinct
    BY <1>1, NullApart
  <1>3. /\ where' \in [Clients -> Places] /\ id' \in [Clients -> Identifiers \cup {Absent}]
        /\ obj' = [s \in Clients |-> IF s = u THEN Absent ELSE obj[s]]
        /\ where'[u] = "out" /\ id'[u] = Absent /\ obj'[u] = Absent
        /\ \A s \in Clients \ {u} : where'[s] = where[s] /\ id'[s] = id[s] /\ obj'[s] = obj[s]
    <2>1. At(u, "out", Absent, Absent)
      OBVIOUS
    <2> QED  BY <1>1, <2>1, Goes DEF Places, ThreadsStand
  <1>4. holds' = holds
    OBVIOUS
  <1>5. ManagerTypeOK'
    BY <1>1, <1>2, <1>3, <1>4 DEF NullDistinct, ManagerTypeOK, Numbered
  <1>6. ThreadsStand'
    BY <1>1, <1>2, <1>3, <1>4 DEF NullDistinct, ManagerTypeOK, ThreadsStand, Places
  <1>7. HandsApart'
    BY <1>1, <1>2, <1>3, <1>4 DEF NullDistinct, ManagerTypeOK, ThreadsStand, HandsApart, InHands
  <1>8. EmptyEntries'
    BY <1>1, <1>2, <1>3, <1>4 DEF NullDistinct, ManagerTypeOK, EmptyEntries
  <1>9. EntriesLive'
    <2> SUFFICES ASSUME NEW e \in Identifiers, managed'[e] # Absent
                 PROVE  /\ managed'[e] \in alive'
                        /\ \A j \in Identifiers \ {e} : managed'[j] # managed'[e]
      BY DEF EntriesLive
    <2> QED  BY <1>1, <1>2, <1>3, <1>4 DEF NullDistinct, ManagerTypeOK, HandsApart, InHands,
                                           EmptyEntries, EntriesLive
  <1>10. TurnsTaken'
    BY <1>1, <1>2, <1>3, <1>4 DEF NullDistinct, ManagerTypeOK, ThreadsStand, HandsApart, InHands,
                                  EntriesLive, TurnsTaken, NothingLost
  <1>12. KeepsPlugin'
    BY <1>1, <1>2, <1>3, <1>4 DEF NullDistinct, ManagerTypeOK, ThreadsStand, HandsApart, InHands,
                                  EmptyEntries, EntriesLive, TurnsTaken, KeepsPlugin, MadeByItsPlugin
  <1> QED  BY <1>5, <1>6, <1>7, <1>8, <1>9, <1>10, <1>12 DEF ManagerInv

LEMMA GetStep ==
    ASSUME ManagerAssumption, ManagerInv, NEW u \in Clients, NEW i \in Identifiers, Get(u, i),
           UNCHANGED careful
    PROVE  ManagerInv'
  <1> USE DEF Get, Alone
  <1>1. ManagerTypeOK /\ ThreadsStand /\ HandsApart /\ EmptyEntries /\ EntriesLive /\ TurnsTaken /\ KeepsPlugin
    BY DEF ManagerInv
  <1>2. NullDistinct
    BY <1>1, NullApart
  <1>3. /\ where' \in [Clients -> Places] /\ id' \in [Clients -> Identifiers \cup {Absent}]
        /\ obj' = [s \in Clients |-> IF s = u THEN managed[i] ELSE obj[s]]
        /\ where'[u] = "use" /\ id'[u] = i /\ obj'[u] = managed[i]
        /\ \A s \in Clients \ {u} : where'[s] = where[s] /\ id'[s] = id[s] /\ obj'[s] = obj[s]
    <2>1. At(u, "use", i, managed[i])
      OBVIOUS
    <2> QED  BY <1>1, <2>1, Goes DEF Places, ThreadsStand
  <1>4. holds' = holds
    OBVIOUS
  <1>5. ManagerTypeOK'
    BY <1>1, <1>2, <1>3, <1>4 DEF NullDistinct, ManagerTypeOK, Numbered
  <1>6. ThreadsStand'
    BY <1>1, <1>2, <1>3, <1>4 DEF NullDistinct, ManagerTypeOK, ThreadsStand, Places
  <1>7. HandsApart'
    BY <1>1, <1>2, <1>3, <1>4 DEF NullDistinct, ManagerTypeOK, ThreadsStand, HandsApart, InHands
  <1>8. EmptyEntries'
    BY <1>1, <1>2, <1>3, <1>4 DEF NullDistinct, ManagerTypeOK, EmptyEntries
  <1>9. EntriesLive'
    <2> SUFFICES ASSUME NEW e \in Identifiers, managed'[e] # Absent
                 PROVE  /\ managed'[e] \in alive'
                        /\ \A j \in Identifiers \ {e} : managed'[j] # managed'[e]
      BY DEF EntriesLive
    <2> QED  BY <1>1, <1>2, <1>3, <1>4 DEF NullDistinct, ManagerTypeOK, HandsApart, InHands,
                                           EmptyEntries, EntriesLive
  <1>10. TurnsTaken'
    BY <1>1, <1>2, <1>3, <1>4 DEF NullDistinct, ManagerTypeOK, ThreadsStand, HandsApart, InHands,
                                  EntriesLive, TurnsTaken, NothingLost
  <1>12. KeepsPlugin'
    BY <1>1, <1>2, <1>3, <1>4 DEF NullDistinct, ManagerTypeOK, ThreadsStand, HandsApart, InHands,
                                  EmptyEntries, EntriesLive, TurnsTaken, KeepsPlugin, MadeByItsPlugin
  <1> QED  BY <1>5, <1>6, <1>7, <1>8, <1>9, <1>10, <1>12 DEF ManagerInv

LEMMA UseStep ==
    ASSUME ManagerAssumption, ManagerInv, NEW u \in Clients, Use(u), UNCHANGED careful
    PROVE  ManagerInv'
  <1> USE DEF Use, Returns
  <1>1. ManagerTypeOK /\ ThreadsStand /\ HandsApart /\ EmptyEntries /\ EntriesLive /\ TurnsTaken /\ KeepsPlugin
    BY DEF ManagerInv
  <1>2. NullDistinct
    BY <1>1, NullApart
  <1>3. /\ where' \in [Clients -> Places] /\ id' \in [Clients -> Identifiers \cup {Absent}]
        /\ obj' = [s \in Clients |-> IF s = u THEN Absent ELSE obj[s]]
        /\ where'[u] = "out" /\ id'[u] = Absent /\ obj'[u] = Absent
        /\ \A s \in Clients \ {u} : where'[s] = where[s] /\ id'[s] = id[s] /\ obj'[s] = obj[s]
    <2>1. At(u, "out", Absent, Absent)
      OBVIOUS
    <2> QED  BY <1>1, <2>1, Goes DEF Places, ThreadsStand
  <1>4. holds' = holds
    OBVIOUS
  <1>5. ManagerTypeOK'
    BY <1>1, <1>2, <1>3, <1>4 DEF NullDistinct, ManagerTypeOK, Numbered
  <1>6. ThreadsStand'
    BY <1>1, <1>2, <1>3, <1>4 DEF NullDistinct, ManagerTypeOK, ThreadsStand, Places
  <1>7. HandsApart'
    BY <1>1, <1>2, <1>3, <1>4 DEF NullDistinct, ManagerTypeOK, ThreadsStand, HandsApart, InHands
  <1>8. EmptyEntries'
    BY <1>1, <1>2, <1>3, <1>4 DEF NullDistinct, ManagerTypeOK, EmptyEntries
  <1>9. EntriesLive'
    <2> SUFFICES ASSUME NEW e \in Identifiers, managed'[e] # Absent
                 PROVE  /\ managed'[e] \in alive'
                        /\ \A j \in Identifiers \ {e} : managed'[j] # managed'[e]
      BY DEF EntriesLive
    <2> QED  BY <1>1, <1>2, <1>3, <1>4 DEF NullDistinct, ManagerTypeOK, HandsApart, InHands,
                                           EmptyEntries, EntriesLive
  <1>10. TurnsTaken'
    BY <1>1, <1>2, <1>3, <1>4 DEF NullDistinct, ManagerTypeOK, ThreadsStand, HandsApart, InHands,
                                  EntriesLive, TurnsTaken, NothingLost
  <1>12. KeepsPlugin'
    BY <1>1, <1>2, <1>3, <1>4 DEF NullDistinct, ManagerTypeOK, ThreadsStand, HandsApart, InHands,
                                  EmptyEntries, EntriesLive, TurnsTaken, KeepsPlugin, MadeByItsPlugin
  <1> QED  BY <1>5, <1>6, <1>7, <1>8, <1>9, <1>10, <1>12 DEF ManagerInv

LEMMA InsertsStep ==
    ASSUME ManagerAssumption, ManagerInv, NEW u \in Clients, InsertLoaded(u),
           managed[id[u]] = Absent, UNCHANGED careful
    PROVE  ManagerInv'
  <1> USE DEF InsertLoaded
  <1>1. ManagerTypeOK /\ ThreadsStand /\ HandsApart /\ EmptyEntries /\ EntriesLive /\ TurnsTaken /\ KeepsPlugin
    BY DEF ManagerInv
  <1>2. NullDistinct
    BY <1>1, NullApart
  <1>3. /\ where' \in [Clients -> Places] /\ id' \in [Clients -> Identifiers \cup {Absent}]
        /\ obj' = [s \in Clients |-> IF s = u THEN obj[u] ELSE obj[s]]
        /\ where'[u] = "use" /\ id'[u] = id[u] /\ obj'[u] = obj[u]
        /\ \A s \in Clients \ {u} : where'[s] = where[s] /\ id'[s] = id[s] /\ obj'[s] = obj[s]
    <2>1. At(u, "use", id[u], obj[u])
      OBVIOUS
    <2> QED  BY <1>1, <2>1, Goes DEF Places, ThreadsStand
  <1>4. /\ id[u] \in Identifiers /\ obj[u] \in alive
        /\ holds' \in [Clients \cup Identifiers \cup Pointers -> Types \cup {Absent}]
        /\ holds'[u] = Absent /\ holds'[id[u]] = holds[u]
        /\ \A x \in Clients \ {u} : holds'[x] = holds[x]
        /\ \A x \in Identifiers \ {id[u]} : holds'[x] = holds[x]
        /\ managed' = [managed EXCEPT ![id[u]] = obj[u]]
    BY <1>1 DEF ManagerTypeOK, ManagerAssumption, ThreadsStand, HandsApart, InHands
  <1>5. ManagerTypeOK'
    BY <1>1, <1>2, <1>3, <1>4 DEF NullDistinct, ManagerTypeOK, Numbered
  <1>6. ThreadsStand'
    BY <1>1, <1>2, <1>3, <1>4 DEF NullDistinct, ManagerTypeOK, ThreadsStand, Places
  <1>7. HandsApart'
    BY <1>1, <1>2, <1>3, <1>4 DEF NullDistinct, ManagerTypeOK, ThreadsStand, HandsApart, InHands
  <1>8. EmptyEntries'
    BY <1>1, <1>2, <1>3, <1>4 DEF NullDistinct, ManagerTypeOK, EmptyEntries
  <1>9. EntriesLive'
    <2> SUFFICES ASSUME NEW e \in Identifiers, managed'[e] # Absent
                 PROVE  /\ managed'[e] \in alive'
                        /\ \A j \in Identifiers \ {e} : managed'[j] # managed'[e]
      BY DEF EntriesLive
    <2>1. obj[u] \in DOMAIN maker /\ obj[u] \in alive /\ \A j \in Identifiers : managed[j] # obj[u]
      BY <1>1 DEF ManagerTypeOK, ThreadsStand, HandsApart, InHands
    <2>2. managed'[id[u]] = obj[u] /\ \A j \in Identifiers \ {id[u]} : managed'[j] = managed[j]
      BY <1>1, <1>4 DEF ManagerTypeOK
    <2>3. CASE e = id[u]
      BY <1>2, <1>4, <2>1, <2>2, <2>3 DEF NullDistinct
    <2>4. CASE e # id[u]
      <3>1. managed'[e] = managed[e] /\ managed[e] # Absent /\ managed[e] \in alive
            /\ \A j \in Identifiers \ {e} : managed[j] # managed[e]
        BY <1>1, <2>2, <2>4 DEF EntriesLive
      <3>2. \A j \in Identifiers \ {e} : managed'[j] # managed'[e]
        BY <2>1, <2>2, <2>4, <3>1
      <3> QED  BY <1>4, <2>4, <3>1, <3>2
    <2> QED  BY <2>3, <2>4
  <1>10. TurnsTaken'
    BY <1>1, <1>2, <1>3, <1>4 DEF NullDistinct, ManagerTypeOK, ThreadsStand, HandsApart, InHands,
                                  EntriesLive, TurnsTaken, NothingLost
  <1>12. KeepsPlugin'
    BY <1>1, <1>2, <1>3, <1>4 DEF NullDistinct, ManagerTypeOK, ThreadsStand, HandsApart, InHands,
                                  EmptyEntries, EntriesLive, TurnsTaken, KeepsPlugin, MadeByItsPlugin
  <1> QED  BY <1>5, <1>6, <1>7, <1>8, <1>9, <1>10, <1>12 DEF ManagerInv

LEMMA KeepsStep ==
    ASSUME ManagerAssumption, ManagerInv, NEW u \in Clients, InsertLoaded(u),
           managed[id[u]] # Absent, UNCHANGED careful
    PROVE  ManagerInv'
  <1> USE DEF InsertLoaded
  <1>1. ManagerTypeOK /\ ThreadsStand /\ HandsApart /\ EmptyEntries /\ EntriesLive /\ TurnsTaken /\ KeepsPlugin
    BY DEF ManagerInv
  <1>2. NullDistinct
    BY <1>1, NullApart
  <1>3. /\ where' \in [Clients -> Places] /\ id' \in [Clients -> Identifiers \cup {Absent}]
        /\ obj' = [s \in Clients |-> IF s = u THEN obj[u] ELSE obj[s]]
        /\ where'[u] = "use" /\ id'[u] = id[u] /\ obj'[u] = obj[u]
        /\ \A s \in Clients \ {u} : where'[s] = where[s] /\ id'[s] = id[s] /\ obj'[s] = obj[s]
    <2>1. At(u, "use", id[u], obj[u])
      OBVIOUS
    <2> QED  BY <1>1, <2>1, Goes DEF Places, ThreadsStand
  <1>4. /\ id[u] \in Identifiers /\ managed' = managed
        /\ holds' \in [Clients \cup Identifiers \cup Pointers -> Types \cup {Absent}]
        /\ holds'[u] = Absent
        /\ \A x \in Clients \ {u} : holds'[x] = holds[x]
        /\ \A x \in Identifiers : holds'[x] = holds[x]
    BY <1>1 DEF ManagerTypeOK, ManagerAssumption, ThreadsStand
  <1>5. ManagerTypeOK'
    BY <1>1, <1>2, <1>3, <1>4 DEF NullDistinct, ManagerTypeOK, Numbered
  <1>6. ThreadsStand'
    BY <1>1, <1>2, <1>3, <1>4 DEF NullDistinct, ManagerTypeOK, ThreadsStand, Places
  <1>7. HandsApart'
    BY <1>1, <1>2, <1>3, <1>4 DEF NullDistinct, ManagerTypeOK, ThreadsStand, HandsApart, InHands
  <1>8. EmptyEntries'
    BY <1>1, <1>2, <1>3, <1>4 DEF NullDistinct, ManagerTypeOK, EmptyEntries
  <1>9. EntriesLive'
    <2> SUFFICES ASSUME NEW e \in Identifiers, managed'[e] # Absent
                 PROVE  /\ managed'[e] \in alive'
                        /\ \A j \in Identifiers \ {e} : managed'[j] # managed'[e]
      BY DEF EntriesLive
    <2> QED  BY <1>1, <1>2, <1>3, <1>4 DEF NullDistinct, ManagerTypeOK, HandsApart, InHands,
                                           EmptyEntries, EntriesLive
  <1>10. TurnsTaken'
    BY <1>1, <1>2, <1>3, <1>4 DEF NullDistinct, ManagerTypeOK, ThreadsStand, HandsApart, InHands,
                                  EntriesLive, TurnsTaken, NothingLost
  <1>12. KeepsPlugin'
    BY <1>1, <1>2, <1>3, <1>4 DEF NullDistinct, ManagerTypeOK, ThreadsStand, HandsApart, InHands,
                                  EmptyEntries, EntriesLive, TurnsTaken, KeepsPlugin, MadeByItsPlugin
  <1> QED  BY <1>5, <1>6, <1>7, <1>8, <1>9, <1>10, <1>12 DEF ManagerInv

LEMMA RemoveStep ==
    ASSUME ManagerAssumption, ManagerInv, NEW u \in Clients, NEW i \in Identifiers, Remove(u, i),
           UNCHANGED careful
    PROVE  ManagerInv'
  <1> USE DEF Remove, Alone, Lib!Drop
  <1>1. ManagerTypeOK /\ ThreadsStand /\ HandsApart /\ EmptyEntries /\ EntriesLive /\ TurnsTaken /\ KeepsPlugin
    BY DEF ManagerInv
  <1>2. NullDistinct
    BY <1>1, NullApart
  <1>3. managed' = [managed EXCEPT ![i] = Absent]
    OBVIOUS
  <1>4. /\ holds' \in [Clients \cup Identifiers \cup Pointers -> Types \cup {Absent}]
        /\ holds'[i] = Absent
        /\ \A x \in Clients : holds'[x] = holds[x]
        /\ \A x \in Identifiers \ {i} : holds'[x] = holds[x]
    BY <1>1 DEF ManagerTypeOK, ManagerAssumption, ThreadsStand
  <1> HIDE DEF Lib!Drop
  <1>5. ManagerTypeOK'
    BY <1>1, <1>2, <1>3, <1>4 DEF NullDistinct, ManagerTypeOK, Numbered
  <1>6. ThreadsStand'
    BY <1>1, <1>2, <1>3, <1>4 DEF NullDistinct, ManagerTypeOK, ThreadsStand, Places
  <1>7. HandsApart'
    BY <1>1, <1>2, <1>3, <1>4 DEF NullDistinct, ManagerTypeOK, ThreadsStand, HandsApart, InHands
  <1>8. EmptyEntries'
    BY <1>1, <1>2, <1>3, <1>4 DEF NullDistinct, ManagerTypeOK, EmptyEntries
  <1>9. EntriesLive'
    <2> SUFFICES ASSUME NEW e \in Identifiers, managed'[e] # Absent
                 PROVE  /\ managed'[e] \in alive'
                        /\ \A j \in Identifiers \ {e} : managed'[j] # managed'[e]
      BY DEF EntriesLive
    <2> QED  BY <1>1, <1>2, <1>3, <1>4 DEF NullDistinct, ManagerTypeOK, HandsApart, InHands,
                                           EmptyEntries, EntriesLive
  <1>10. TurnsTaken'
    BY <1>1, <1>2, <1>3, <1>4 DEF NullDistinct, ManagerTypeOK, ThreadsStand, HandsApart, InHands,
                                  EntriesLive, TurnsTaken, NothingLost
  <1>12. KeepsPlugin'
    BY <1>1, <1>2, <1>3, <1>4 DEF NullDistinct, ManagerTypeOK, ThreadsStand, HandsApart, InHands,
                                  EmptyEntries, EntriesLive, TurnsTaken, KeepsPlugin, MadeByItsPlugin
  <1> QED  BY <1>5, <1>6, <1>7, <1>8, <1>9, <1>10, <1>12 DEF ManagerInv

LEMMA ClearObjectsStep ==
    ASSUME ManagerAssumption, ManagerInv, NEW u \in Clients, ClearPlugins(u), UNCHANGED careful
    PROVE  ManagerInv'
  <1> USE DEF ClearPlugins, Alone
  <1>1. ManagerTypeOK /\ ThreadsStand /\ HandsApart /\ EmptyEntries /\ EntriesLive /\ TurnsTaken /\ KeepsPlugin
    BY DEF ManagerInv
  <1>2. NullDistinct
    BY <1>1, NullApart
  <1>3. \A i \in Identifiers : managed'[i] = Absent
    OBVIOUS
  <1>4. /\ holds' \in [Clients \cup Identifiers \cup Pointers -> Types \cup {Absent}]
        /\ (\A x \in Clients : holds'[x] = holds[x])
        /\ \A x \in Identifiers : holds'[x] = Absent
    BY <1>1 DEF ManagerTypeOK, ManagerAssumption, ThreadsStand
  <1>5. ManagerTypeOK'
    BY <1>1, <1>2, <1>3, <1>4 DEF NullDistinct, ManagerTypeOK, Numbered
  <1>6. ThreadsStand'
    BY <1>1, <1>2, <1>3, <1>4 DEF NullDistinct, ManagerTypeOK, ThreadsStand, Places
  <1>7. HandsApart'
    BY <1>1, <1>2, <1>3, <1>4 DEF NullDistinct, ManagerTypeOK, ThreadsStand, HandsApart, InHands
  <1>8. EmptyEntries'
    BY <1>1, <1>2, <1>3, <1>4 DEF NullDistinct, ManagerTypeOK, EmptyEntries
  <1>9. EntriesLive'
    <2> SUFFICES ASSUME NEW e \in Identifiers, managed'[e] # Absent
                 PROVE  /\ managed'[e] \in alive'
                        /\ \A j \in Identifiers \ {e} : managed'[j] # managed'[e]
      BY DEF EntriesLive
    <2> QED  BY <1>1, <1>2, <1>3, <1>4 DEF NullDistinct, ManagerTypeOK, HandsApart, InHands,
                                           EmptyEntries, EntriesLive
  <1>10. TurnsTaken'
    BY <1>1, <1>2, <1>3, <1>4 DEF NullDistinct, ManagerTypeOK, ThreadsStand, HandsApart, InHands,
                                  EntriesLive, TurnsTaken, NothingLost
  <1>12. KeepsPlugin'
    BY <1>1, <1>2, <1>3, <1>4 DEF NullDistinct, ManagerTypeOK, ThreadsStand, HandsApart, InHands,
                                  EmptyEntries, EntriesLive, TurnsTaken, KeepsPlugin, MadeByItsPlugin
  <1> QED  BY <1>5, <1>6, <1>7, <1>8, <1>9, <1>10, <1>12 DEF ManagerInv

LEMMA LibPtrStep ==
    ASSUME ManagerAssumption, ManagerInv, NEW q \in Pointers,
           (\E i \in Identifiers : GetLibPtr(q, i)) \/ DropLibPtr(q), UNCHANGED careful
    PROVE  ManagerInv'
  <1> USE DEF GetLibPtr, DropLibPtr, Lib!Drop, Lib!Copy
  <1>1. ManagerTypeOK /\ ThreadsStand /\ HandsApart /\ EmptyEntries /\ EntriesLive /\ TurnsTaken /\ KeepsPlugin
    BY DEF ManagerInv
  <1>2. NullDistinct
    BY <1>1, NullApart
  <1>3. UNCHANGED <<managed, maker, alive, where, id, obj>>
    OBVIOUS
  <1>4. /\ holds' \in [Clients \cup Identifiers \cup Pointers -> Types \cup {Absent}]
        /\ (\A x \in Clients : holds'[x] = holds[x])
        /\ \A x \in Identifiers : holds'[x] = holds[x]
    BY <1>1 DEF ManagerTypeOK, ManagerAssumption, ThreadsStand
  <1> HIDE DEF Lib!Drop, Lib!Copy
  <1>5. ManagerTypeOK'
    BY <1>1, <1>2, <1>3, <1>4 DEF NullDistinct, ManagerTypeOK, Numbered
  <1>6. ThreadsStand'
    BY <1>1, <1>2, <1>3, <1>4 DEF NullDistinct, ManagerTypeOK, ThreadsStand, Places
  <1>7. HandsApart'
    BY <1>1, <1>2, <1>3, <1>4 DEF NullDistinct, ManagerTypeOK, ThreadsStand, HandsApart, InHands
  <1>8. EmptyEntries'
    BY <1>1, <1>2, <1>3, <1>4 DEF NullDistinct, ManagerTypeOK, EmptyEntries
  <1>9. EntriesLive'
    <2> SUFFICES ASSUME NEW e \in Identifiers, managed'[e] # Absent
                 PROVE  /\ managed'[e] \in alive'
                        /\ \A j \in Identifiers \ {e} : managed'[j] # managed'[e]
      BY DEF EntriesLive
    <2> QED  BY <1>1, <1>2, <1>3, <1>4 DEF NullDistinct, ManagerTypeOK, HandsApart, InHands,
                                           EmptyEntries, EntriesLive
  <1>10. TurnsTaken'
    BY <1>1, <1>2, <1>3, <1>4 DEF NullDistinct, ManagerTypeOK, ThreadsStand, HandsApart, InHands,
                                  EntriesLive, TurnsTaken, NothingLost
  <1>12. KeepsPlugin'
    BY <1>1, <1>2, <1>3, <1>4 DEF NullDistinct, ManagerTypeOK, ThreadsStand, HandsApart, InHands,
                                  EmptyEntries, EntriesLive, TurnsTaken, KeepsPlugin, MadeByItsPlugin
  <1> QED  BY <1>5, <1>6, <1>7, <1>8, <1>9, <1>10, <1>12 DEF ManagerInv

LEMMA ReplaceStep ==
    ASSUME ManagerAssumption, ManagerInv, NEW u \in Clients, Replace(u), UNCHANGED careful
    PROVE  ManagerInv'
  <1> USE DEF Replace, Returns
  <1>1. ManagerTypeOK /\ ThreadsStand /\ HandsApart /\ EmptyEntries /\ EntriesLive /\ TurnsTaken /\ KeepsPlugin
    BY DEF ManagerInv
  <1>2. NullDistinct
    BY <1>1, NullApart
  <1>3. /\ where' \in [Clients -> Places] /\ id' \in [Clients -> Identifiers \cup {Absent}]
        /\ obj' = [s \in Clients |-> IF s = u THEN Absent ELSE obj[s]]
        /\ where'[u] = "out" /\ id'[u] = Absent /\ obj'[u] = Absent
        /\ \A s \in Clients \ {u} : where'[s] = where[s] /\ id'[s] = id[s] /\ obj'[s] = obj[s]
    <2>1. At(u, "out", Absent, Absent)
      OBVIOUS
    <2> HIDE DEF Replace, Returns
    <2> QED  BY <1>1, <2>1, Goes DEF Places
  <1>4. /\ id[u] \in Identifiers /\ obj[u] \in alive /\ holds' = holds
        /\ managed' = [managed EXCEPT ![id[u]] = obj[u]]
    BY <1>1 DEF ThreadsStand, HandsApart, InHands
  <1>5. ManagerTypeOK'
    BY <1>1, <1>2, <1>3, <1>4 DEF NullDistinct, ManagerTypeOK, Numbered
  <1>6. ThreadsStand'
    BY <1>1, <1>2, <1>3, <1>4 DEF NullDistinct, ManagerTypeOK, ThreadsStand, Places
  <1>7. HandsApart'
    BY <1>1, <1>2, <1>3, <1>4 DEF NullDistinct, ManagerTypeOK, ThreadsStand, HandsApart, InHands
  <1>8. EmptyEntries'
    BY <1>1, <1>2, <1>3, <1>4 DEF NullDistinct, ManagerTypeOK, EmptyEntries
  <1>9. EntriesLive'
    <2> SUFFICES ASSUME NEW e \in Identifiers, managed'[e] # Absent
                 PROVE  /\ managed'[e] \in alive'
                        /\ \A j \in Identifiers \ {e} : managed'[j] # managed'[e]
      BY DEF EntriesLive
    <2>1. obj[u] \in DOMAIN maker /\ obj[u] \in alive /\ \A j \in Identifiers : managed[j] # obj[u]
      BY <1>1 DEF ManagerTypeOK, ThreadsStand, HandsApart, InHands
    <2>2. managed'[id[u]] = obj[u] /\ \A j \in Identifiers \ {id[u]} : managed'[j] = managed[j]
      BY <1>1, <1>4 DEF ManagerTypeOK
    <2>3. CASE e = id[u]
      BY <1>2, <1>4, <2>1, <2>2, <2>3 DEF NullDistinct
    <2>4. CASE e # id[u]
      <3>1. managed'[e] = managed[e] /\ managed[e] # Absent /\ managed[e] \in alive
            /\ \A j \in Identifiers \ {e} : managed[j] # managed[e]
        BY <1>1, <2>2, <2>4 DEF EntriesLive
      <3>2. \A j \in Identifiers \ {e} : managed'[j] # managed'[e]
        BY <2>1, <2>2, <2>4, <3>1
      <3> QED  BY <1>4, <2>4, <3>1, <3>2
    <2> QED  BY <2>3, <2>4
  <1>10. TurnsTaken'
    BY <1>1, <1>2, <1>3, <1>4 DEF NullDistinct, ManagerTypeOK, ThreadsStand, HandsApart, InHands,
                                  EntriesLive, TurnsTaken, NothingLost
  <1>12. KeepsPlugin'
    BY <1>1, <1>2, <1>3, <1>4 DEF NullDistinct, ManagerTypeOK, ThreadsStand, HandsApart, InHands,
                                  EmptyEntries, EntriesLive, TurnsTaken, KeepsPlugin, MadeByItsPlugin
  <1> QED  BY <1>5, <1>6, <1>7, <1>8, <1>9, <1>10, <1>12 DEF ManagerInv

LEMMA StutterStep ==
    ASSUME ManagerAssumption, ManagerInv, UNCHANGED managerVars, UNCHANGED careful
    PROVE  ManagerInv'
  <1> USE DEF managerVars
  <1>1. ManagerTypeOK /\ ThreadsStand /\ HandsApart /\ EmptyEntries /\ EntriesLive /\ TurnsTaken /\ KeepsPlugin
    BY DEF ManagerInv
  <1>2. NullDistinct
    BY <1>1, NullApart
  <1>3. ManagerTypeOK' = ManagerTypeOK
    BY DEF ManagerTypeOK, Numbered
  <1>4. holds' = holds
    OBVIOUS
  <1>5. ManagerTypeOK'
    BY <1>1, <1>2, <1>3, <1>4 DEF NullDistinct, ManagerTypeOK, Numbered
  <1>6. ThreadsStand'
    BY <1>1, <1>2, <1>3, <1>4 DEF NullDistinct, ManagerTypeOK, ThreadsStand, Places
  <1>7. HandsApart'
    BY <1>1, <1>2, <1>3, <1>4 DEF NullDistinct, ManagerTypeOK, ThreadsStand, HandsApart, InHands
  <1>8. EmptyEntries'
    BY <1>1, <1>2, <1>3, <1>4 DEF NullDistinct, ManagerTypeOK, EmptyEntries
  <1>9. EntriesLive'
    <2> SUFFICES ASSUME NEW e \in Identifiers, managed'[e] # Absent
                 PROVE  /\ managed'[e] \in alive'
                        /\ \A j \in Identifiers \ {e} : managed'[j] # managed'[e]
      BY DEF EntriesLive
    <2> QED  BY <1>1, <1>2, <1>3, <1>4 DEF NullDistinct, ManagerTypeOK, HandsApart, InHands,
                                           EmptyEntries, EntriesLive
  <1>10. TurnsTaken'
    BY <1>1, <1>2, <1>3, <1>4 DEF NullDistinct, ManagerTypeOK, ThreadsStand, HandsApart, InHands,
                                  EntriesLive, TurnsTaken, NothingLost
  <1>12. KeepsPlugin'
    BY <1>1, <1>2, <1>3, <1>4 DEF NullDistinct, ManagerTypeOK, ThreadsStand, HandsApart, InHands,
                                  EmptyEntries, EntriesLive, TurnsTaken, KeepsPlugin, MadeByItsPlugin
  <1> QED  BY <1>5, <1>6, <1>7, <1>8, <1>9, <1>10, <1>12 DEF ManagerInv

LEMMA CreateStep ==
    ASSUME ManagerAssumption, ManagerInv, NEW u \in Clients, CreateObject(u), UNCHANGED careful
    PROVE  ManagerInv'
  <1> USE DEF CreateObject
  <1>1. ManagerTypeOK /\ ThreadsStand /\ HandsApart /\ EmptyEntries /\ EntriesLive /\ TurnsTaken /\ KeepsPlugin
    BY DEF ManagerInv
  <1>2. NullDistinct
    BY <1>1, NullApart
  <1>3. /\ where' \in [Clients -> Places] /\ id' \in [Clients -> Identifiers \cup {Absent}]
        /\ obj' = [s \in Clients |-> IF s = u THEN NextObject ELSE obj[s]]
        /\ where'[u] = "insert" /\ id'[u] = id[u] /\ obj'[u] = NextObject
        /\ \A s \in Clients \ {u} : where'[s] = where[s] /\ id'[s] = id[s] /\ obj'[s] = obj[s]
    <2>1. At(u, "insert", id[u], NextObject)
      OBVIOUS
    <2> QED  BY <1>1, <2>1, Goes DEF Places, ThreadsStand
  <1>4. holds' = holds
    OBVIOUS
  <1>11. /\ NextObject \notin DOMAIN maker /\ NextObject # Absent
         /\ DOMAIN maker' = DOMAIN maker \cup {NextObject}
         /\ maker'[NextObject] = holds[u]
         /\ \A o \in DOMAIN maker : maker'[o] = maker[o]
         /\ Numbered'
         /\ alive' = alive \cup {NextObject}
    BY <1>1, Made DEF ManagerTypeOK, ThreadsStand
  <1>5. ManagerTypeOK'
    BY <1>1, <1>2, <1>3, <1>4, <1>11 DEF NullDistinct, ManagerTypeOK
  <1>6. ThreadsStand'
    BY <1>1, <1>2, <1>3, <1>4, <1>11 DEF NullDistinct, ManagerTypeOK, ThreadsStand, Places
  <1>7. HandsApart'
    BY <1>1, <1>2, <1>3, <1>4, <1>11 DEF NullDistinct, ManagerTypeOK, ThreadsStand, HandsApart,
                                         InHands
  <1>8. EmptyEntries'
    BY <1>1, <1>2, <1>3, <1>4, <1>11 DEF NullDistinct, ManagerTypeOK, EmptyEntries
  <1>9. EntriesLive'
    <2> SUFFICES ASSUME NEW e \in Identifiers, managed'[e] # Absent
                 PROVE  /\ managed'[e] \in alive'
                        /\ \A j \in Identifiers \ {e} : managed'[j] # managed'[e]
      BY DEF EntriesLive
    <2> QED  BY <1>1, <1>2, <1>3, <1>4, <1>11 DEF NullDistinct, ManagerTypeOK, HandsApart,
                                                  InHands, EmptyEntries, EntriesLive
  <1>10. TurnsTaken'
    BY <1>1, <1>2, <1>3, <1>4, <1>11 DEF NullDistinct, ManagerTypeOK, ThreadsStand, HandsApart,
                                         InHands, EntriesLive, TurnsTaken, NothingLost
  <1>12. KeepsPlugin'
    BY <1>1, <1>2, <1>3, <1>4, <1>11 DEF NullDistinct, ManagerTypeOK, ThreadsStand, HandsApart, InHands,
                                  EmptyEntries, EntriesLive, TurnsTaken, KeepsPlugin, MadeByItsPlugin
  <1> QED  BY <1>5, <1>6, <1>7, <1>8, <1>9, <1>10, <1>12 DEF ManagerInv

LEMMA CloneStep ==
    ASSUME ManagerAssumption, ManagerInv, NEW u \in Clients, NEW i \in Identifiers, Clone(u, i),
           UNCHANGED careful
    PROVE  ManagerInv'
  <1> USE DEF Clone, Alone
  <1>1. ManagerTypeOK /\ ThreadsStand /\ HandsApart /\ EmptyEntries /\ EntriesLive /\ TurnsTaken /\ KeepsPlugin
    BY DEF ManagerInv
  <1>2. NullDistinct
    BY <1>1, NullApart
  <1>3. /\ where' \in [Clients -> Places] /\ id' \in [Clients -> Identifiers \cup {Absent}]
        /\ obj' = [s \in Clients |-> IF s = u THEN NextObject ELSE obj[s]]
        /\ where'[u] = "cloned" /\ id'[u] = i /\ obj'[u] = NextObject
        /\ \A s \in Clients \ {u} : where'[s] = where[s] /\ id'[s] = id[s] /\ obj'[s] = obj[s]
    <2>1. At(u, "cloned", i, NextObject)
      OBVIOUS
    <2> QED  BY <1>1, <2>1, Goes DEF Places, ThreadsStand
  <1>4. holds' = holds
    OBVIOUS
  <1>11. /\ NextObject \notin DOMAIN maker /\ NextObject # Absent
         /\ DOMAIN maker' = DOMAIN maker \cup {NextObject}
         /\ maker'[NextObject] = holds[i]
         /\ \A o \in DOMAIN maker : maker'[o] = maker[o]
         /\ Numbered'
         /\ alive' = alive \cup {NextObject}
    BY <1>1, Made DEF ManagerTypeOK, ThreadsStand
  <1>5. ManagerTypeOK'
    BY <1>1, <1>2, <1>3, <1>4, <1>11 DEF NullDistinct, ManagerTypeOK
  <1>6. ThreadsStand'
    BY <1>1, <1>2, <1>3, <1>4, <1>11 DEF NullDistinct, ManagerTypeOK, ThreadsStand, Places
  <1>7. HandsApart'
    BY <1>1, <1>2, <1>3, <1>4, <1>11 DEF NullDistinct, ManagerTypeOK, ThreadsStand, HandsApart,
                                         InHands
  <1>8. EmptyEntries'
    BY <1>1, <1>2, <1>3, <1>4, <1>11 DEF NullDistinct, ManagerTypeOK, EmptyEntries
  <1>9. EntriesLive'
    <2> SUFFICES ASSUME NEW e \in Identifiers, managed'[e] # Absent
                 PROVE  /\ managed'[e] \in alive'
                        /\ \A j \in Identifiers \ {e} : managed'[j] # managed'[e]
      BY DEF EntriesLive
    <2> QED  BY <1>1, <1>2, <1>3, <1>4, <1>11 DEF NullDistinct, ManagerTypeOK, HandsApart,
                                                  InHands, EmptyEntries, EntriesLive
  <1>10. TurnsTaken'
    BY <1>1, <1>2, <1>3, <1>4, <1>11 DEF NullDistinct, ManagerTypeOK, ThreadsStand, HandsApart,
                                         InHands, EntriesLive, TurnsTaken, NothingLost
  <1>12. KeepsPlugin'
    BY <1>1, <1>2, <1>3, <1>4, <1>11 DEF NullDistinct, ManagerTypeOK, ThreadsStand, HandsApart, InHands,
                                  EmptyEntries, EntriesLive, TurnsTaken, KeepsPlugin, MadeByItsPlugin
  <1> QED  BY <1>5, <1>6, <1>7, <1>8, <1>9, <1>10, <1>12 DEF ManagerInv

LEMMA AddStep ==
    ASSUME ManagerAssumption, ManagerInv, NEW u \in Clients, NEW i \in Identifiers, Add(u, i),
           UNCHANGED careful
    PROVE  ManagerInv'
  <1> USE DEF Add, Alone
  <1>1. ManagerTypeOK /\ ThreadsStand /\ HandsApart /\ EmptyEntries /\ EntriesLive /\ TurnsTaken /\ KeepsPlugin
    BY DEF ManagerInv
  <1>2. NullDistinct
    BY <1>1, NullApart
  <1>3. managed' = [managed EXCEPT ![i] = IF managed[i] = Absent THEN NextObject ELSE managed[i]]
    OBVIOUS
  <1>4. holds' = holds
    OBVIOUS
  <1>11. /\ NextObject \notin DOMAIN maker /\ NextObject # Absent
         /\ DOMAIN maker' = DOMAIN maker \cup {NextObject}
         /\ maker'[NextObject] = Program
         /\ \A o \in DOMAIN maker : maker'[o] = maker[o]
         /\ Numbered'
         /\ alive' = alive \cup {NextObject}
    BY <1>1, Made DEF ManagerTypeOK, ThreadsStand
  <1>5. ManagerTypeOK'
    BY <1>1, <1>2, <1>3, <1>4, <1>11 DEF NullDistinct, ManagerTypeOK
  <1>6. ThreadsStand'
    BY <1>1, <1>2, <1>3, <1>4, <1>11 DEF NullDistinct, ManagerTypeOK, ThreadsStand, Places
  <1>7. HandsApart'
    BY <1>1, <1>2, <1>3, <1>4, <1>11 DEF NullDistinct, ManagerTypeOK, ThreadsStand, HandsApart,
                                         InHands
  <1>8. EmptyEntries'
    BY <1>1, <1>2, <1>3, <1>4, <1>11 DEF NullDistinct, ManagerTypeOK, EmptyEntries
  <1>9. EntriesLive'
    <2> SUFFICES ASSUME NEW e \in Identifiers, managed'[e] # Absent
                 PROVE  /\ managed'[e] \in alive'
                        /\ \A j \in Identifiers \ {e} : managed'[j] # managed'[e]
      BY DEF EntriesLive
    <2> QED  BY <1>1, <1>2, <1>3, <1>4, <1>11 DEF NullDistinct, ManagerTypeOK, HandsApart,
                                                  InHands, EmptyEntries, EntriesLive
  <1>10. TurnsTaken'
    BY <1>1, <1>2, <1>3, <1>4, <1>11 DEF NullDistinct, ManagerTypeOK, ThreadsStand, HandsApart,
                                         InHands, EntriesLive, TurnsTaken, NothingLost
  <1>12. KeepsPlugin'
    BY <1>1, <1>2, <1>3, <1>4, <1>11 DEF NullDistinct, ManagerTypeOK, ThreadsStand, HandsApart, InHands,
                                  EmptyEntries, EntriesLive, TurnsTaken, KeepsPlugin, MadeByItsPlugin
  <1> QED  BY <1>5, <1>6, <1>7, <1>8, <1>9, <1>10, <1>12 DEF ManagerInv

-----------------------------------------------------------------------------
(* The theorems about the manager *)

LEMMA ManagerNextStep ==
    ASSUME ManagerAssumption, ManagerInv, [ManagerNext]_managerVars
    PROVE  ManagerInv'
  <1>1. CASE UNCHANGED managerVars
    BY <1>1, StutterStep DEF managerVars
  <1>2. ASSUME NEW u \in Clients, UNCHANGED careful,
               \/ OpenLibrary(u) \/ CreateObject(u) \/ CreateFails(u) \/ InsertLoaded(u)
               \/ ClearPlugins(u) \/ Replace(u) \/ Discard(u) \/ Use(u)
        PROVE  ManagerInv'
    <2>1. CASE OpenLibrary(u)
      <3>1. CASE \E n \in Types : Lib!Take(u, n) /\ At(u, "create", id[u], Absent)
        BY <1>2, <2>1, <3>1, OpensStep DEF OpenLibrary
      <3>2. CASE Returns(u) /\ UNCHANGED <<holds, inUse>>
        BY <1>2, <2>1, <3>2, OpenFailsStep DEF OpenLibrary
      <3> QED  BY <2>1, <3>1, <3>2 DEF OpenLibrary
    <2>2. CASE InsertLoaded(u)
      BY <1>2, <2>2, InsertsStep, KeepsStep
    <2>3. CASE CreateObject(u) \/ CreateFails(u) \/ ClearPlugins(u) \/ Replace(u) \/ Discard(u) \/ Use(u)
      BY <1>2, <2>3, CreateStep, CreateFailsStep, ClearObjectsStep, ReplaceStep, DiscardStep, UseStep
    <2> QED  BY <1>2, <2>1, <2>2, <2>3
  <1>3. ASSUME NEW u \in Clients, NEW i \in Identifiers, UNCHANGED careful,
               Load(u, i) \/ Add(u, i) \/ Remove(u, i) \/ Clone(u, i) \/ Get(u, i)
        PROVE  ManagerInv'
    BY <1>3, LoadStep, AddStep, RemoveStep, CloneStep, GetStep
  <1>4. ASSUME NEW q \in Pointers, UNCHANGED careful, DropLibPtr(q) \/ \E i \in Identifiers : GetLibPtr(q, i)
        PROVE  ManagerInv'
    BY <1>4, LibPtrStep
  <1> QED  BY <1>1, <1>2, <1>3, <1>4 DEF ManagerNext

LEMMA ManagerAlways == ASSUME ManagerAssumption PROVE ManagerSpec => []ManagerInv
  <1>1. ManagerInit => ManagerInv
    BY ManagerInitially
  <1>2. ManagerInv /\ [ManagerNext]_managerVars => ManagerInv'
    BY ManagerNextStep
  <1> QED  BY <1>1, <1>2, PTL DEF NullDistinct, ManagerSpec

\* Where callers take turns, a function is called with an object that exists and is still
\* the one under its identifier, also after load(), the code of every object is still there, no object is lost, and each is destroyed by the plug-in
\* that made it; and however the calls of any number of threads mix, an entry has an object
\* that exists and is its own (PluginManager::load, add, insert, replace, clone, remove,
\* clear, run).
THEOREM ObjectsOfPluginsLive == ASSUME ManagerAssumption PROVE ManagerSpec => []PluginObjectsLive
  <1>1. ASSUME ManagerInv
        PROVE  PluginObjectsLive
    <2>1. ASSUME careful PROVE UsesLiving
      BY <1>1, <2>1 DEF ManagerInv, ThreadsStand, TurnsTaken, EntriesLive, UsesLiving
    <2>2. ASSUME careful, NEW o \in alive
          PROVE  maker[o] = Program \/ maker[o] \in Lib!Held(holds)
      <3>1. \A x \in Clients \cup Identifiers : holds[x] # Absent => holds[x] \in Lib!Held(holds)
        BY DEF Lib!Held
      <3>2. CASE \E i \in Identifiers : managed[i] = o
        <4>1. PICK i \in Identifiers : managed[i] = o
          BY <3>2
        <4>2. o # Absent
          BY <1>1, NullApart DEF ManagerInv, ManagerTypeOK, NullDistinct
        <4>3. maker[o] = IF holds[i] = Absent THEN Program ELSE holds[i]
          BY <1>1, <2>2, <4>1, <4>2 DEF ManagerInv, KeepsPlugin, MadeByItsPlugin
        <4> QED  BY <3>1, <4>3
      <3>3. CASE \E u \in Clients : obj[u] = o /\ where[u] # "use"
        <4>1. PICK u \in Clients : obj[u] = o /\ where[u] # "use"
          BY <3>3
        <4>2. o # Absent
          BY <1>1, NullApart DEF ManagerInv, ManagerTypeOK, NullDistinct
        <4>3. where[u] \in {"insert", "cloned"} /\ id[u] \in Identifiers
          BY <1>1, <4>1, <4>2 DEF ManagerInv, ManagerTypeOK, ThreadsStand, Places
        <4>4. \/ maker[o] = holds[u] /\ holds[u] \in Types
              \/ maker[o] = holds[id[u]] /\ holds[id[u]] # Absent
          BY <1>1, <2>2, <4>1, <4>3 DEF ManagerInv, ThreadsStand, HandsApart, KeepsPlugin
        <4> QED  BY <3>1, <4>3, <4>4 DEF ManagerAssumption
      <3> QED  BY <1>1, <2>2, <3>2, <3>3 DEF ManagerInv, TurnsTaken, NothingLost
    <2> QED  BY <1>1, <2>1, <2>2 DEF ManagerInv, TurnsTaken, KeepsPlugin, KeepsCode, UsesManaged, PluginObjectsLive
  <1> QED  BY <1>1, ManagerAlways, PTL
=============================================================================
