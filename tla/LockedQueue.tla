---------------------------- MODULE LockedQueue ----------------------------
(***************************************************************************)
(* PionLockedQueue (common/include/pion/PionLockedQueue.hpp): a list with  *)
(* a lock for its head and one for its tail, and a list of the consumers   *)
(* that sleep in pop() until an item arrives.                              *)
(*                                                                         *)
(* The linked nodes are the sequence `list', the dummy that m_head_ptr     *)
(* points at first and the node of m_tail_ptr last.  What happens under    *)
(* m_head_mutex is one step.  m_tail_mutex is a variable: push() holds it  *)
(* while it links, counts and wakes.  m_size is counted apart from the     *)
(* list, so that it lags behind it in both directions.                     *)
(***************************************************************************)
EXTENDS Integers, Sequences, FiniteSets

CONSTANTS
    Producers,
    Consumers,  \* threads that wait: pop(T&, ConsumerThread&)
    Pollers,    \* threads that do not: pop(T&)
    Items,
    MaxSize,    \* the template argument
    MaxPushes,  \* bound: calls of push()
    Stoppable,  \* the consumers somebody may stop()
    Resettable, \* those of them that may be started again
    Spurious,   \* a wait may end without a notification
    NoItem, NoOne

ASSUME LockedQueueAssumption ==
    /\ MaxSize \in Nat \ {0}
    /\ MaxPushes \in Nat
    /\ Spurious \in BOOLEAN
    /\ Resettable \subseteq Stoppable
    /\ Stoppable \subseteq Consumers
    /\ NoItem \notin Items
    /\ Producers \cap (Consumers \cup Pollers) = {}
    /\ Consumers \cap Pollers = {}
    /\ NoOne \notin Producers \cup Consumers \cup Pollers
    /\ IsFiniteSet(Producers \cup Consumers \cup Pollers)

VARIABLES
    list,            \* the nodes: [data, version]
    m_next_version,
    m_size,
    m_tail_mutex,    \* its owner
    m_idle_ptr,      \* the first idle consumer
    m_next_ptr,      \* the one after each
    m_is_running,    \* of each consumer
    m_wakeup_event,  \* TRUE when a waiting consumer has been notified
    pc,
    t,               \* what a thread pushes or has popped
    last_known_version

vars == <<list, m_next_version, m_size, m_tail_mutex, m_idle_ptr, m_next_ptr, m_is_running,
          m_wakeup_event, pc, t, last_known_version>>

QueueNode == [data : Items \cup {NoItem}, version : Nat]
Takers == Consumers \cup Pollers
Threads == Producers \cup Takers
Last == list[Len(list)]

Init ==
    /\ list = <<[data |-> NoItem, version |-> 0]>>
    /\ m_next_version = 1
    /\ m_size = 0
    /\ m_tail_mutex = NoOne
    /\ m_idle_ptr = NoOne
    /\ m_next_ptr = [c \in Consumers |-> NoOne]
    /\ m_is_running = [c \in Consumers |-> TRUE]
    /\ m_wakeup_event = [c \in Consumers |-> FALSE]
    /\ pc = [x \in Threads |-> "out"]
    /\ t = [x \in Threads |-> NoItem]
    /\ last_known_version = [c \in Consumers |-> 0]

-----------------------------------------------------------------------------
(* push() *)

Idlers == <<m_idle_ptr, m_next_ptr, m_is_running, m_wakeup_event, last_known_version>>

\* m_size is converted to an unsigned size_t: below zero it is huge.
size == IF m_size < 0 THEN MaxSize ELSE m_size

Push(p) ==
    /\ pc[p] = "out"
    /\ m_next_version < 1 + 2 * MaxPushes
    /\ \E i \in Items : t' = [t EXCEPT ![p] = i]
    /\ pc' = [pc EXCEPT ![p] = "room"]
    /\ UNCHANGED <<list, m_next_version, m_size, m_tail_mutex, Idlers>>

\* The producer sleeps and looks again until there is room.
FindRoom(p) ==
    /\ pc[p] = "room"
    /\ size < MaxSize
    /\ pc' = [pc EXCEPT ![p] = "link"]
    /\ UNCHANGED <<list, m_next_version, m_size, m_tail_mutex, t, Idlers>>

Link(p) ==
    /\ pc[p] = "link"
    /\ m_tail_mutex = NoOne
    /\ m_tail_mutex' = p
    /\ m_next_version' = m_next_version + 2
    /\ list' = Append(list, [data |-> t[p], version |-> m_next_version'])
    /\ t' = [t EXCEPT ![p] = NoItem]
    /\ pc' = [pc EXCEPT ![p] = "count"]
    /\ UNCHANGED <<m_size, Idlers>>

Count(p) ==
    /\ pc[p] = "count"
    /\ m_size' = m_size + 1
    /\ pc' = [pc EXCEPT ![p] = "wake"]
    /\ UNCHANGED <<list, m_next_version, m_tail_mutex, t, Idlers>>

Notified(c) ==
    IF pc[c] = "waiting" THEN [m_wakeup_event EXCEPT ![c] = TRUE] ELSE m_wakeup_event

WakeIdle(p) ==
    /\ pc[p] = "wake"
    /\ IF m_idle_ptr # NoOne
       THEN /\ m_wakeup_event' = Notified(m_idle_ptr)
            /\ m_idle_ptr' = m_next_ptr[m_idle_ptr]
       ELSE UNCHANGED <<m_wakeup_event, m_idle_ptr>>
    /\ m_tail_mutex' = NoOne
    /\ pc' = [pc EXCEPT ![p] = "out"]
    /\ UNCHANGED <<list, m_next_version, m_size, t, m_next_ptr, m_is_running, last_known_version>>

-----------------------------------------------------------------------------
(* pop() and clear() *)

isEmpty == Len(list) = 1

\* Mutant: the data of the dummy instead of the node after it.
DequeueDummy(x) ==
    /\ ~isEmpty
    /\ t' = [t EXCEPT ![x] = list[1].data]
    /\ list' = Tail(list)

\* dequeue(): the item of the second node; that node is the new dummy.
Dequeue(x) ==
    /\ ~isEmpty
    /\ t' = [t EXCEPT ![x] = list[2].data]
    /\ list' = Tail(list)

Pop(c) ==
    /\ pc[c] = "out"
    /\ m_is_running[c]
    /\ pc' = [pc EXCEPT ![c] = "dequeue"]
    /\ UNCHANGED <<list, m_next_version, m_size, m_tail_mutex, t, Idlers>>

Take(c) ==
    /\ pc[c] = "dequeue"
    /\ Dequeue(c)
    /\ pc' = [pc EXCEPT ![c] = "uncount"]
    /\ UNCHANGED <<m_next_version, m_size, m_tail_mutex, Idlers>>

FindEmpty(c) ==
    /\ pc[c] = "dequeue"
    /\ isEmpty
    /\ last_known_version' = [last_known_version EXCEPT ![c] = list[1].version]
    /\ pc' = [pc EXCEPT ![c] = "look"]
    /\ UNCHANGED <<list, m_next_version, m_size, m_tail_mutex, t, m_idle_ptr, m_next_ptr,
                   m_is_running, m_wakeup_event>>

\* --m_size, and the item is the caller's.
Uncount(x) ==
    /\ pc[x] = "uncount"
    /\ m_size' = m_size - 1
    /\ t' = [t EXCEPT ![x] = NoItem]
    /\ pc' = [pc EXCEPT ![x] = "out"]
    /\ UNCHANGED <<list, m_next_version, m_tail_mutex, Idlers>>

\* Mutant: the version is not compared again under the lock.
stillEmptyUnchecked(c) == TRUE

stillEmpty(c) == Last.version = last_known_version[c]

Wait(c) ==
    /\ pc[c] = "look"
    /\ m_tail_mutex = NoOne
    /\ stillEmpty(c)
    /\ m_next_ptr' = [m_next_ptr EXCEPT ![c] = m_idle_ptr]
    /\ m_idle_ptr' = c
    /\ pc' = [pc EXCEPT ![c] = "waiting"]
    /\ UNCHANGED <<list, m_next_version, m_size, m_tail_mutex, t, m_is_running, m_wakeup_event,
                   last_known_version>>

\* The loop of pop() goes round, or ends when the consumer has been stopped.
Again(c) == pc' = [pc EXCEPT ![c] = IF m_is_running[c] THEN "dequeue" ELSE "out"]

LookAgain(c) ==
    /\ pc[c] = "look"
    /\ m_tail_mutex = NoOne
    /\ ~stillEmpty(c)
    /\ Again(c)
    /\ UNCHANGED <<list, m_next_version, m_size, m_tail_mutex, t, Idlers>>

\* The wait ends with the lock, which goes with the end of the loop's body.
WakeUp(c) ==
    /\ pc[c] = "waiting"
    /\ m_wakeup_event[c] \/ Spurious
    /\ m_tail_mutex = NoOne
    /\ m_wakeup_event' = [m_wakeup_event EXCEPT ![c] = FALSE]
    /\ Again(c)
    /\ UNCHANGED <<list, m_next_version, m_size, m_tail_mutex, t, m_idle_ptr, m_next_ptr,
                   m_is_running, last_known_version>>

Poll(x) ==
    /\ pc[x] = "out"
    /\ Dequeue(x)
    /\ pc' = [pc EXCEPT ![x] = "uncount"]
    /\ UNCHANGED <<m_next_version, m_size, m_tail_mutex, Idlers>>

\* stop(), by any thread and without a lock.
Stop(c) ==
    /\ m_is_running[c]
    /\ m_is_running' = [m_is_running EXCEPT ![c] = FALSE]
    /\ m_wakeup_event' = Notified(c)
    /\ UNCHANGED <<list, m_next_version, m_size, m_tail_mutex, m_idle_ptr, m_next_ptr, pc, t,
                   last_known_version>>

Reset(c) ==
    /\ pc[c] = "out"
    /\ ~m_is_running[c]
    /\ m_is_running' = [m_is_running EXCEPT ![c] = TRUE]
    /\ m_next_ptr' = [m_next_ptr EXCEPT ![c] = NoOne]
    /\ UNCHANGED <<list, m_next_version, m_size, m_tail_mutex, m_idle_ptr, m_wakeup_event, pc, t,
                   last_known_version>>

Clear ==
    /\ m_tail_mutex = NoOne
    /\ list' = <<Last>>
    /\ m_size' = m_size - (Len(list) - 1)
    /\ UNCHANGED <<m_next_version, m_tail_mutex, t, pc, Idlers>>

-----------------------------------------------------------------------------
Producing(p) == FindRoom(p) \/ Link(p) \/ Count(p) \/ WakeIdle(p)
Consuming(c) == Take(c) \/ FindEmpty(c) \/ Uncount(c) \/ Wait(c) \/ LookAgain(c)

Next ==
    \/ \E p \in Producers : Push(p) \/ Producing(p)
    \/ \E c \in Consumers : Pop(c) \/ Consuming(c) \/ WakeUp(c)
    \/ \E c \in Stoppable : Stop(c)
    \/ \E c \in Resettable : Reset(c)
    \/ \E x \in Pollers : Poll(x) \/ Uncount(x)
    \/ Clear

Spec == Init /\ [][Next]_vars

\* Threads run on, a lock is given to every thread that waits for it (a
\* pthread mutex is released within a bounded time and its waiters retry),
\* and a consumer calls pop() again as long as it has not been stopped.
FairSpec ==
    /\ Spec
    /\ \A p \in Producers : WF_vars(FindRoom(p)) /\ SF_vars(Link(p)) /\ WF_vars(Count(p) \/ WakeIdle(p))
    /\ \A c \in Consumers :
        /\ WF_vars(Pop(c) \/ Take(c) \/ FindEmpty(c) \/ Uncount(c))
        /\ SF_vars(Wait(c) \/ LookAgain(c))
        /\ SF_vars(WakeUp(c) /\ m_wakeup_event[c])
    /\ \A x \in Pollers : WF_vars(Uncount(x))

-----------------------------------------------------------------------------
(* Properties *)

\* The types of all the variables.
TypeOK ==
    /\ list \in Seq(QueueNode)
    /\ list # <<>>
    /\ m_next_version \in Nat
    /\ m_size \in Int
    /\ m_tail_mutex \in Producers \cup {NoOne}
    /\ m_idle_ptr \in Consumers \cup {NoOne}
    /\ m_next_ptr \in [Consumers -> Consumers \cup {NoOne}]
    /\ m_is_running \in [Consumers -> BOOLEAN]
    /\ m_wakeup_event \in [Consumers -> BOOLEAN]
    /\ pc \in [Threads -> {"out", "room", "link", "count", "wake", "dequeue", "uncount", "look",
                           "waiting"}]
    /\ t \in [Threads -> Items \cup {NoItem}]
    /\ last_known_version \in [Consumers -> Nat]

\* The queue implements Fifo.
queue == [i \in 1..(Len(list) - 1) |-> list[i + 1].data]
Abstract == INSTANCE Fifo WITH
    Consumers <- Takers,
    offered <- [p \in Producers |-> t[p]],
    taken <- [x \in Takers |-> t[x]]

\* Every push() puts its item at the back once, every successful pop() takes
\* the one at the front, whatever the interleaving of the two locks
\* (push 184-218, dequeue, clear).
ImplementsFifo == Abstract!Spec

\* The check of MaxSize and the push are not one step, and m_size follows
\* the list late: producers may overrun the limit, each by one item
\* (push 185-193).
Overrun == Len(list) - 1 <= MaxSize + Cardinality(Producers) - 1

\* The consumers in the list of idle threads.
Reachable ==
    LET step[n \in 0..Cardinality(Consumers)] ==
            IF n = 0 THEN {m_idle_ptr} ELSE {m_next_ptr[c] : c \in step[n - 1] \ {NoOne}}
    IN UNION {step[n] : n \in 0..Cardinality(Consumers)}

\* A consumer that waits without having been notified is in the list that
\* push() looks through, so that some push() will wake it (pop 238-245).
IdleLinked ==
    \A c \in Consumers : pc[c] = "waiting" /\ ~m_wakeup_event[c] => c \in Reachable

\* As long as consumers run, the items in the queue are taken (pop 230-248).
ItemsTaken == (Len(list) > 1) ~> (Len(list) = 1 \/ \A c \in Consumers : ~m_is_running[c])

\* "stops the thread -- if waiting on pop() will return immediately"
\* (ConsumerThread::stop).
StopReturns == \A c \in Consumers :
    (~m_is_running[c] /\ pc[c] # "out") ~> (pc[c] = "out" \/ m_is_running[c])
=============================================================================
