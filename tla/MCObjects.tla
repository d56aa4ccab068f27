----------------------------- MODULE MCObjects -----------------------------
(***************************************************************************)
(* Objects that threads share: the locked queue, the lock-free queues and  *)
(* stacks, blobs, plug-in libraries and their manager, and the scheduler.  *)
(* They are independent; they are explored side by side, the first state   *)
(* saying which one is used (part).                                        *)
(***************************************************************************)
EXTENDS LockedQueue, Blob, Plugins, PluginManager, TLC

VARIABLES
    part,
    m_head_ptr, m_tail_ptr, next, data, count, m_free_list, fresh, pushes, at, node_ptr, head_ptr,
    tail_ptr, next_ptr, item, sawEmpty,
    top, below, v, unused, calls, place, old, new, mine, value,
    running, m_active_users, m_num_threads, m_mutex, m_service_pool, m_next_service, service,
    worker, doing, userAt, active, work, starts

lockFreeVars == <<m_head_ptr, m_tail_ptr, next, data, count, m_free_list, fresh, pushes, at,
                  node_ptr, head_ptr, tail_ptr, next_ptr, item, sawEmpty>>
stackVars == <<top, below, v, unused, calls, place, old, new, mine, value>>
schedulerVars == <<running, m_active_users, m_num_threads, m_mutex, m_service_pool, m_next_service,
                   service, worker, doing, userAt, active, work, starts>>

\* Blobs that one thread uses.
OneThread == INSTANCE Blob WITH Concurrent <- FALSE

\* boost::lockfree::fifo with two producers.
BoostQueue == INSTANCE LockFreeQueue WITH
    Producers <- Producers \cup {"p"}, Consumers <- Callers \cup {"c"},
    Active <- Producers \cup {"c"}, Nodes <- {"n1", "n2", "n3"}, KeepsTags <- TRUE, MaxPushes <- 3,
    Tags <- 2^16, m_size <- count, pc <- at, t <- item

\* PionLockFreeQueue with one.
PionQueue == INSTANCE LockFreeQueue WITH
    Producers <- Producers \cup {"p"}, Consumers <- Callers \cup {"c"},
    Active <- Callers \cup {"p"}, Nodes <- {"n1", "n2", "n3"}, KeepsTags <- FALSE, MaxPushes <- 2,
    Tags <- 2^16, m_size <- count, pc <- at, t <- item

\* The stack over both free lists.
Caching == INSTANCE LockFreeStack WITH
    Threads <- Callers, Nodes <- {"n1", "n2", "n3"}, Static <- FALSE, Tags <- 2^16,
    MaxCalls <- 5, next <- below, fresh <- unused, pc <- place, t <- value

StaticPool == INSTANCE LockFreeStack WITH
    Threads <- Callers, Nodes <- {"n1", "n2", "n3"}, Static <- TRUE, Tags <- 2^16,
    MaxCalls <- 4, next <- below, fresh <- unused, pc <- place, t <- value

\* Two plug-ins in a directory, one of which may also be linked into the program, and
\* one without its symbols in the working directory.
FilesOnDisk == [here |-> {"Broken"}, services |-> {"Echo", "File"}]
Symbols == [Echo |-> "good", File |-> "good", Broken |-> "noDestroy"]

\* Three users of one service.
Pool == INSTANCE Scheduler WITH
    Users <- Callers \cup {"u"}, Admins <- Callers, Joiners <- {}, MaxThreads <- 2,
    OneToOne <- FALSE, Orderly <- TRUE, Chains <- TRUE, MaxStarts <- 1,
    m_is_running <- running, pc <- userAt, item <- work

\* Bound: objects made where callers do not take turns.
RacingObjects == 2

\* What the proofs about these components assume of their constants.
ASSUME LibraryAssumption == PluginsAssumption /\ ManagerAssumption
ASSUME PoolAssumption == Pool!SchedulerAssumption
ASSUME StacksAssumption == Caching!StackAssumption /\ StaticPool!StackAssumption
ASSUME QueuesAssumption == BoostQueue!QueueAssumption /\ PionQueue!QueueAssumption

Parts == {"queue", "blob", "alone", "boost", "pion", "caching", "static", "library", "manager",
          "pool"}

SomeInit ==
    /\ part \in Parts
    /\ Init
    /\ BlobInit
    /\ part \notin {"blob", "alone"} => \A x, y \in Addresses : payload[x] = payload[y]
    /\ PionQueue!Init
    /\ IF part = "static" THEN StaticPool!Init ELSE Caching!Init
    /\ PluginsInit
    /\ ManagerInit
    /\ part # "manager" => careful
    /\ Pool!Init

SomeNext ==
    \/ /\ part = "queue" /\ Next
       /\ UNCHANGED <<blobVars, lockFreeVars, stackVars, pluginVars, managerVars, schedulerVars>>
    \/ /\ \/ part = "blob" /\ BlobNext
          \/ part = "alone" /\ OneThread!BlobNext
       /\ UNCHANGED <<vars, lockFreeVars, stackVars, pluginVars, managerVars, schedulerVars>>
    \/ /\ \/ part = "boost" /\ BoostQueue!Next
          \/ part = "pion" /\ PionQueue!Next
       /\ UNCHANGED <<vars, blobVars, stackVars, pluginVars, managerVars, schedulerVars>>
    \/ /\ \/ part = "caching" /\ Caching!Next
          \/ part = "static" /\ StaticPool!Next
       /\ UNCHANGED <<vars, blobVars, lockFreeVars, pluginVars, managerVars, schedulerVars>>
    \/ /\ part = "library" /\ PluginsNext
       /\ UNCHANGED <<vars, blobVars, lockFreeVars, stackVars, managerVars, schedulerVars>>
    \/ /\ part = "manager" /\ ManagerNext
       /\ ~careful => DOMAIN maker' \subseteq 1..RacingObjects
       /\ UNCHANGED <<vars, blobVars, lockFreeVars, stackVars, pluginVars, schedulerVars>>
    \/ /\ part = "pool" /\ Pool!Next
       /\ UNCHANGED <<vars, blobVars, lockFreeVars, stackVars, pluginVars, managerVars>>

SomeVars == <<part, vars, blobVars, lockFreeVars, stackVars, pluginVars, managerVars, schedulerVars>>

\* Producers, callers, items and contents of blobs are interchangeable, and so are what these
\* values stand for with the manager: clients, identifiers and plug-ins.
Symmetry ==
    Permutations(Producers) \cup Permutations(Callers) \cup Permutations(Items)
        \cup Permutations(Contents)

SomeSpec == SomeInit /\ [][SomeNext /\ UNCHANGED part]_SomeVars

-----------------------------------------------------------------------------

\* What is shared is accounted for: a blob's memory counts the blobs that refer to it and,
\* where one thread uses them, is given back with the last; a node of a lock-free queue or
\* stack is in one place; pop() says "empty" only of a queue that was; producers overrun
\* the limit of the locked queue by at most one item each; the data of a plug-in counts the
\* objects that share it; and the users of the scheduler that are counted have threads.
Accounted ==
    /\ part \in {"blob", "alone"} => CountsHolders
    /\ part = "alone" => NothingLeaks
    /\ part \in {"boost", "pion"} => PionQueue!NodesApart /\ PionQueue!EmptyIsTrue
    /\ part \in {"caching", "static"} => Caching!NodesApart
    /\ part = "queue" => TypeOK /\ Overrun
    /\ part = "library" => PluginsTypeOK /\ CountsObjects
    /\ part = "pool" => Pool!ThreadsForUsers

\* The lock-free queues implement Fifo: the link makes the item the last of the queue,
\* and the swap of the head removes the first one, although nodes are reused.
LockFreeImplementsFifo == PionQueue!ImplementsFifo

\* The lock-free stack implements Lifo, although nodes pass through the pool and come
\* back while another thread holds their address.
ImplementsLifo == Caching!ImplementsLifo
=============================================================================
