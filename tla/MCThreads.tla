----------------------------- MODULE MCThreads -----------------------------
(***************************************************************************)
(* Threads that wait for each other: the two schedulers, the locked queue  *)
(* and a stream on a connection that is closed.  The four systems are      *)
(* independent; they are explored side by side, the first state saying     *)
(* which one moves (part).                                                 *)
(***************************************************************************)
EXTENDS Scheduler

VARIABLES
    part,
    list, m_next_version, m_size, m_tail_mutex, m_idle_ptr, m_next_ptr, m_wakeup_event, t,
    last_known_version, consumerRuns, consumerAt,
    out, written, m_read_buf, get, taken, call, asleep, m_async_error, m_bytes_transferred,
    ops, wire, fetched, broken, failed

queueVars == <<list, m_next_version, m_size, m_tail_mutex, m_idle_ptr, m_next_ptr, m_wakeup_event,
               t, last_known_version, consumerRuns, consumerAt>>
streamVars == <<out, written, m_read_buf, get, taken, call, asleep, m_async_error,
                m_bytes_transferred, ops, wire, fetched, broken, failed>>

\* What the proofs about the scheduler assume of its constants.
ASSUME PoolAssumption == SchedulerAssumption

\* The extended scheduler has one service for its threads, whose handlers post more work;
\* this one has a service for each thread, and is started twice.
Each == INSTANCE Scheduler WITH
    Joiners <- {}, OneToOne <- TRUE, Chains <- FALSE, MaxStarts <- 2

\* A producer and two consumers over a queue of limit one.
Queue == INSTANCE LockedQueue WITH
    Producers <- {"p"}, Consumers <- {"c1", "c2"}, Pollers <- {}, Items <- {"a"}, MaxSize <- 1,
    MaxPushes <- 3, Stoppable <- {}, Resettable <- {}, Spurious <- FALSE, NoItem <- "nothing",
    m_is_running <- consumerRuns, pc <- consumerAt

\* A stream whose waits may end without a signal.
Stream == INSTANCE TCPStream WITH
    WRITE_BUFFER_SIZE <- 2, PUT_BACK_MAX <- 1, READ_BUFFER_SIZE <- 3, MaxGiven <- 1, MaxSent <- 1,
    MaxCall <- 1, Spurious <- TRUE, UngetAfterFailure <- FALSE

SomeInit ==
    /\ part \in {"single", "onetoone", "queue", "stream"}
    /\ IF part = "onetoone" THEN Each!Init ELSE Init
    /\ Queue!Init
    /\ Stream!StreamInit

SomeNext ==
    \/ part = "single" /\ Next /\ UNCHANGED <<part, queueVars, streamVars>>
    \/ part = "onetoone" /\ Each!Next /\ UNCHANGED <<part, queueVars, streamVars>>
    \/ part = "queue" /\ Queue!Next /\ UNCHANGED <<part, vars, streamVars>>
    \/ part = "stream" /\ Stream!StreamNext /\ UNCHANGED <<part, vars, queueVars>>

\* The fairness of each part, as its module states it.
Works(w) == (part = "single" /\ Worker(w)) \/ (part = "onetoone" /\ Each!Worker(w))
Expires(s) == (part = "single" /\ TimerExpires(s)) \/ (part = "onetoone" /\ Each!TimerExpires(s))
Calls(u) == (part = "single" /\ Call(u)) \/ (part = "onetoone" /\ Each!Call(u))
Leaves(u) ==
    (part = "single" /\ RemoveActiveUser(u)) \/ (part = "onetoone" /\ Each!RemoveActiveUser(u))

Fairness ==
    /\ \A w \in 0..1 : WF_vars(Works(w)) /\ WF_vars(Expires(w))
    /\ \A u \in Users : WF_vars(Calls(u)) /\ SF_vars(Leaves(u))
    /\ WF_queueVars(part = "queue" /\ Queue!FindRoom("p"))
    /\ SF_queueVars(part = "queue" /\ Queue!Link("p"))
    /\ WF_queueVars(part = "queue" /\ (Queue!Count("p") \/ Queue!WakeIdle("p")))
    /\ \A c \in {"c1", "c2"} :
        /\ WF_queueVars(part = "queue" /\ (Queue!Pop(c) \/ Queue!Take(c) \/ Queue!FindEmpty(c) \/ Queue!Uncount(c)))
        /\ SF_queueVars(part = "queue" /\ (Queue!Wait(c) \/ Queue!LookAgain(c)))
        /\ SF_queueVars(part = "queue" /\ Queue!WakeUp(c) /\ m_wakeup_event[c])
    /\ WF_streamVars(part = "stream" /\ Stream!OperationFinished)
    /\ WF_streamVars(part = "stream" /\ (Stream!Flushed \/ Stream!Sent \/ Stream!Get \/ Stream!Underflown))

SomeSpec == SomeInit /\ [][SomeNext]_<<part, vars, queueVars, streamVars>> /\ Fairness

-----------------------------------------------------------------------------

\* A shutdown that waits for users, for handlers and for threads in io_service::run
\* returns, and a thread that sleeps in join() is woken when the scheduler has stopped.
CallsReturn == ShutdownReturns /\ JoinReturns

\* As long as consumers run, the items in the queue are taken: a push() between a
\* consumer's look at the queue and its wait wakes it.
ItemsTaken == Queue!ItemsTaken

\* A call that waits for a connection returns when the connection is closed.
CloseReleases == Stream!CloseReleases
=============================================================================
