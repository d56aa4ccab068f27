----------------------------- MODULE Scheduler -----------------------------
(***************************************************************************)
(* The thread scheduler (common/src/PionScheduler.cpp, PionScheduler.hpp): *)
(* a pool of threads that run io_services, its startup and shutdown, the   *)
(* users that keep it from shutting down and the work they post.  With     *)
(* OneToOne every thread has a service of its own (PionOneToOneScheduler), *)
(* otherwise all share service 0 (PionSingleServiceScheduler).             *)
(*                                                                         *)
(* Everything a thread does under m_mutex without blocking is one step.    *)
(* An io_service is known by whether it is stopped, by the waits of its    *)
(* timer and by its queue of handlers, calls of keepRunning among them.    *)
(***************************************************************************)
EXTENDS Integers, Sequences, FiniteSets

CONSTANTS
    Users,       \* the threads of the program that use the scheduler
    Admins,      \* those that may shut it down
    Joiners,     \* those that may wait until it has stopped
    MaxThreads,  \* bound: m_num_threads
    OneToOne,    \* which of the two schedulers
    Orderly,     \* nobody adds itself during a shutdown or changes the pool of a running scheduler
    Chains,      \* a handler may post more work
    MaxStarts,   \* bound: startups
    NoOne

VARIABLES
    m_is_running, m_active_users, m_num_threads,
    m_mutex,         \* its owner
    m_service_pool,  \* the services that exist
    m_next_service,
    service,         \* the state of each
    worker,          \* where each thread of the pool is, "none" for no thread
    doing,           \* the work it does
    pc,              \* where each user is
    active,          \* the users that have added themselves
    item,            \* what became of each user's work
    starts           \* startups so far

vars == <<m_is_running, m_active_users, m_num_threads, m_mutex, m_service_pool, m_next_service,
          service, worker, doing, pc, active, item, starts>>

Ids == 0..(MaxThreads - 1)
Fresh == [stopped |-> FALSE, waits |-> 0, queue |-> <<>>]
ServiceOf(w) == IF OneToOne THEN w ELSE 0
InPool == {w \in Ids : worker[w] # "none"}

Init ==
    /\ m_is_running = FALSE
    /\ m_active_users = 0
    /\ m_num_threads = MaxThreads
    /\ m_mutex = NoOne
    /\ m_service_pool = (IF OneToOne THEN {} ELSE {0})
    /\ m_next_service = 0
    /\ service = [s \in Ids |-> Fresh]
    /\ worker = [w \in Ids |-> "none"]
    /\ doing = [w \in Ids |-> NoOne]
    /\ pc = [u \in Users |-> "idle"]
    /\ active = {}
    /\ item = [u \in Users |-> "none"]
    /\ starts = 0

\* What the code and C++ give: at least one thread, and the owner of a mutex that is
\* free is none of the users.
SchedulerAssumption ==
    /\ MaxThreads \in Nat \ {0}
    /\ IsFiniteSet(Users)
    /\ NoOne \notin Users

-----------------------------------------------------------------------------
(* keepRunning and startup.                                                *)

\* The timer is set anew, which makes a wait that is still pending due at once.
keepRunning(s) ==
    IF ~m_is_running' THEN s
    ELSE [s EXCEPT !.waits = 1, !.queue = IF s.waits > 0 THEN Append(@, "keepRunning") ELSE @]

\* The services of a pool with at least m_num_threads.
Grown == IF OneToOne THEN m_service_pool \cup 0..(m_num_threads - 1) ELSE m_service_pool

Go(u, place) == pc' = [pc EXCEPT ![u] = place]

\* startup(): the threads of the pool enter processServiceWork.
Startup(u) ==
    /\ pc[u] = "startup"
    /\ m_mutex = NoOne
    /\ Go(u, "count")
    /\ IF m_is_running
       THEN UNCHANGED <<m_is_running, m_service_pool, service, worker, starts>>
       ELSE /\ starts' = starts + 1
            /\ m_is_running' = TRUE
            /\ m_service_pool' = Grown
            /\ service' = [s \in Ids |-> IF s \notin m_service_pool' THEN service[s]
                                         ELSE IF OneToOne THEN keepRunning(service[s])
                                         ELSE keepRunning([service[s] EXCEPT !.stopped = FALSE])]
            /\ worker' = [w \in Ids |-> IF w < m_num_threads THEN "loop" ELSE worker[w]]
    /\ UNCHANGED <<m_active_users, m_num_threads, m_mutex, m_next_service, doing, active, item>>

-----------------------------------------------------------------------------
(* Active users.                                                           *)

InShutdown == {u \in Users : pc[u] \in {"nousers", "relock", "stop", "threads"}}
InAdd == {u \in Users : pc[u] \in {"startup", "count"}}

\* addActiveUser looks at m_is_running without the mutex,
AddActiveUser(u) ==
    /\ pc[u] = "idle"
    /\ u \notin active
    /\ m_is_running \/ starts < MaxStarts
    /\ Orderly => InShutdown = {}
    /\ Go(u, IF m_is_running THEN "count" ELSE "startup")
    /\ UNCHANGED <<m_is_running, m_active_users, m_num_threads, m_mutex, m_service_pool, m_next_service,
                   service, worker, doing, active, item, starts>>

\* and counts the user later.
Count(u) ==
    /\ pc[u] = "count"
    /\ m_mutex = NoOne
    /\ m_active_users' = m_active_users + 1
    /\ active' = active \cup {u}
    /\ Go(u, "idle")
    /\ UNCHANGED <<m_is_running, m_num_threads, m_mutex, m_service_pool, m_next_service,
                   service, worker, doing, item, starts>>

\* Threads that wait for a condition, woken, have to lock the mutex again.
Woken(from, to) == [v \in Users |-> IF pc[v] = from THEN to ELSE pc[v]]

\* removeActiveUser, when the user's work is done.
RemoveActiveUser(u) ==
    /\ pc[u] = "idle"
    /\ u \in active
    /\ item[u] \notin {"queued", "running"}
    /\ m_mutex = NoOne
    /\ m_active_users' = m_active_users - 1
    /\ active' = active \ {u}
    /\ pc' = IF m_active_users' = 0 THEN Woken("nousers", "relock") ELSE pc
    /\ UNCHANGED <<m_is_running, m_num_threads, m_mutex, m_service_pool, m_next_service,
                   service, worker, doing, item, starts>>

-----------------------------------------------------------------------------
(* Work.                                                                   *)

\* getIOService(): the next service, in turn.
NextService == IF ~OneToOne \/ m_next_service + 1 >= m_num_threads THEN 0 ELSE m_next_service + 1

Posted(i) ==
    /\ OneToOne => m_mutex = NoOne
    /\ m_service_pool' = Grown
    /\ m_next_service' = NextService
    /\ service' = [service EXCEPT ![NextService].queue = Append(@, i)]

\* post(), by a user that has added itself.
Post(u) ==
    /\ pc[u] = "idle"
    /\ u \in active
    /\ item[u] \in {"none", "done"}
    /\ Posted(u)
    /\ item' = [item EXCEPT ![u] = "queued"]
    /\ UNCHANGED <<m_is_running, m_active_users, m_num_threads, m_mutex, worker, doing, pc, active, starts>>

\* setNumThreads.
SetNumThreads(u, n) ==
    /\ pc[u] = "idle"
    /\ n # m_num_threads
    /\ Orderly => ~m_is_running /\ InShutdown = {} /\ InAdd = {}
    /\ m_num_threads' = n
    /\ UNCHANGED <<m_is_running, m_active_users, m_mutex, m_service_pool, m_next_service,
                   service, worker, doing, pc, active, item, starts>>

-----------------------------------------------------------------------------
(* shutdown and join.                                                      *)

\* shutdown(), from its beginning or when it was woken: it waits for the users of a
\* running scheduler.  Woken, it looks at the users only.
Shutdown(u) ==
    /\ u \in Admins
    /\ u \notin active
    /\ \/ pc[u] = "idle" /\ (Orderly => InAdd = {})
       \/ pc[u] = "relock"
    /\ m_mutex = NoOne
    /\ IF (m_is_running \/ pc[u] = "relock") /\ m_active_users > 0
       THEN Go(u, "nousers") /\ UNCHANGED <<m_is_running, m_mutex>>
       ELSE m_is_running' = FALSE /\ m_mutex' = u /\ Go(u, "stop")
    /\ UNCHANGED <<m_active_users, m_num_threads, m_service_pool, m_next_service,
                   service, worker, doing, active, item, starts>>

\* A condition may wake a thread without being notified.
SpuriousWakeup(u) ==
    /\ pc[u] = "nousers"
    /\ Go(u, "relock")
    /\ UNCHANGED <<m_is_running, m_active_users, m_num_threads, m_mutex, m_service_pool, m_next_service,
                   service, worker, doing, active, item, starts>>

StopServices(u) ==
    /\ pc[u] = "stop"
    /\ service' = [s \in Ids |-> IF s \in m_service_pool THEN [service[s] EXCEPT !.stopped = TRUE] ELSE service[s]]
    /\ Go(u, "threads")
    /\ UNCHANGED <<m_is_running, m_active_users, m_num_threads, m_mutex, m_service_pool, m_next_service,
                   worker, doing, active, item, starts>>

\* Work in the queue of a service that is destroyed is lost.
Dropped(i) == OneToOne /\ \E s \in Ids : \E k \in DOMAIN service[s].queue : service[s].queue[k] = i

\* Mutant: the threads are not joined.
StopThreadsUnjoined(u) ==
    /\ pc[u] = "threads"
    /\ service' = [s \in Ids |-> IF OneToOne THEN Fresh ELSE [service[s] EXCEPT !.stopped = FALSE]]
    /\ m_service_pool' = IF OneToOne THEN {} ELSE m_service_pool
    /\ pc' = [Woken("join", "rejoin") EXCEPT ![u] = "idle"]
    /\ m_mutex' = NoOne
    /\ UNCHANGED <<m_is_running, m_active_users, m_num_threads, m_next_service, worker, doing, active, item, starts>>

\* Mutant: nobody in join() is told.
StopThreadsSilently(u) ==
    /\ pc[u] = "threads"
    /\ \A w \in InPool : worker[w] = "exit"
    /\ service' = [s \in Ids |-> IF OneToOne THEN Fresh ELSE [service[s] EXCEPT !.stopped = FALSE]]
    /\ m_service_pool' = IF OneToOne THEN {} ELSE m_service_pool
    /\ worker' = [w \in Ids |-> "none"]
    /\ Go(u, "idle")
    /\ m_mutex' = NoOne
    /\ UNCHANGED <<m_is_running, m_active_users, m_num_threads, m_next_service, doing, active, item, starts>>

\* stopThreads joins every thread; then finishServices, finishThreads and the notification.
StopThreads(u) ==
    /\ pc[u] = "threads"
    /\ \A w \in InPool : worker[w] = "exit"
    /\ service' = [s \in Ids |-> IF OneToOne THEN Fresh ELSE [service[s] EXCEPT !.stopped = FALSE]]
    /\ m_service_pool' = IF OneToOne THEN {} ELSE m_service_pool
    /\ worker' = [w \in Ids |-> "none"]
    /\ item' = [v \in Users |-> IF Dropped(v) THEN "lost" ELSE item[v]]
    /\ pc' = [Woken("join", "rejoin") EXCEPT ![u] = "idle"]
    /\ m_mutex' = NoOne
    /\ UNCHANGED <<m_is_running, m_active_users, m_num_threads, m_next_service, doing, active, starts>>

\* join().
Join(u) ==
    /\ u \in Joiners
    /\ u \notin active
    /\ pc[u] \in {"idle", "rejoin"}
    /\ m_mutex = NoOne
    /\ Go(u, IF m_is_running THEN "join" ELSE "idle")
    /\ UNCHANGED <<m_is_running, m_active_users, m_num_threads, m_mutex, m_service_pool, m_next_service,
                   service, worker, doing, active, item, starts>>

-----------------------------------------------------------------------------
(* The threads of the pool.                                                *)

At(w, place) == worker' = [worker EXCEPT ![w] = place]

\* processServiceWork: m_is_running is read without the mutex.
WorkerLoop(w) ==
    /\ worker[w] = "loop"
    /\ At(w, IF m_is_running THEN "run" ELSE "exit")
    /\ UNCHANGED <<m_is_running, m_active_users, m_num_threads, m_mutex, m_service_pool, m_next_service,
                   service, doing, pc, active, item, starts>>

\* run() takes work,
RunHandler(w) ==
    LET s == ServiceOf(w)
        i == Head(service[s].queue)
    IN /\ worker[w] = "run"
       /\ ~service[s].stopped
       /\ service[s].queue # <<>>
       /\ i # "keepRunning"
       /\ service' = [service EXCEPT ![s].queue = Tail(@)]
       /\ doing' = [doing EXCEPT ![w] = i]
       /\ item' = IF i \in Users THEN [item EXCEPT ![i] = "running"] ELSE item
       /\ At(w, "handler")
       /\ UNCHANGED <<m_is_running, m_active_users, m_num_threads, m_mutex, m_service_pool, m_next_service,
                      pc, active, starts>>

\* or calls keepRunning,
RunKeepRunning(w) ==
    LET s == ServiceOf(w) IN
    /\ worker[w] = "run"
    /\ ~service[s].stopped
    /\ service[s].queue # <<>>
    /\ Head(service[s].queue) = "keepRunning"
    /\ UNCHANGED m_is_running
    /\ service' = [service EXCEPT ![s] = keepRunning([service[s] EXCEPT !.queue = Tail(@)])]
    /\ UNCHANGED <<m_active_users, m_num_threads, m_mutex, m_service_pool, m_next_service,
                   worker, doing, pc, active, item, starts>>

\* and returns when the service is stopped or has nothing more to do.
RunReturns(w) ==
    LET s == ServiceOf(w)
        idle == /\ service[s].waits = 0 /\ service[s].queue = <<>>
                /\ \A v \in Ids : ServiceOf(v) = s => worker[v] \notin {"handler", "post"}
    IN /\ worker[w] = "run"
       /\ service[s].stopped \/ idle
       /\ service' = [service EXCEPT ![s].stopped = TRUE]
       /\ At(w, "loop")
       /\ UNCHANGED <<m_is_running, m_active_users, m_num_threads, m_mutex, m_service_pool, m_next_service,
                      doing, pc, active, item, starts>>

Finish(w) == item' = IF doing[w] \in Users THEN [item EXCEPT ![doing[w]] = "done"] ELSE item

\* Mutant: what a handler throws ends the thread.
HandlerReturnsOrDies(w) ==
    /\ worker[w] = "handler"
    /\ \E place \in {"run", "exit"} : At(w, place)
    /\ doing' = [doing EXCEPT ![w] = NoOne]
    /\ Finish(w)
    /\ UNCHANGED <<m_is_running, m_active_users, m_num_threads, m_mutex, m_service_pool, m_next_service,
                   service, pc, active, starts>>

\* A handler returns, or throws what the loop of processServiceWork catches.
HandlerReturns(w) ==
    /\ worker[w] = "handler"
    /\ \E place \in {"run", "loop"} : At(w, place)
    /\ doing' = [doing EXCEPT ![w] = NoOne]
    /\ Finish(w)
    /\ UNCHANGED <<m_is_running, m_active_users, m_num_threads, m_mutex, m_service_pool, m_next_service,
                   service, pc, active, starts>>

\* Work that is posted by work; there is at most one such item.
HandlerPosts(w) ==
    /\ Chains
    /\ worker[w] = "handler"
    /\ \A v \in Ids : v # w => doing[v] # "chain"
    /\ \A s \in Ids : \A k \in DOMAIN service[s].queue : service[s].queue[k] # "chain"
    /\ At(w, "post")
    /\ Finish(w)
    /\ doing' = [doing EXCEPT ![w] = "chain"]
    /\ UNCHANGED <<m_is_running, m_active_users, m_num_threads, m_mutex, m_service_pool, m_next_service,
                   service, pc, active, starts>>

HandlerPosted(w) ==
    /\ worker[w] = "post"
    /\ Posted("chain")
    /\ doing' = [doing EXCEPT ![w] = NoOne]
    /\ At(w, "run")
    /\ UNCHANGED <<m_is_running, m_active_users, m_num_threads, m_mutex, pc, active, item, starts>>

\* KEEP_RUNNING_TIMER_SECONDS pass.
TimerExpires(s) ==
    /\ service[s].waits > 0
    /\ service' = [service EXCEPT ![s].waits = @ - 1, ![s].queue = Append(@, "keepRunning")]
    /\ UNCHANGED <<m_is_running, m_active_users, m_num_threads, m_mutex, m_service_pool, m_next_service,
                   worker, doing, pc, active, item, starts>>

-----------------------------------------------------------------------------
Worker(w) ==
    \/ WorkerLoop(w)
    \/ RunHandler(w)
    \/ RunKeepRunning(w)
    \/ RunReturns(w)
    \/ HandlerReturns(w)
    \/ HandlerPosts(w)
    \/ HandlerPosted(w)

\* The steps of a call once it has begun.
Call(u) ==
    \/ Startup(u)
    \/ Count(u)
    \/ pc[u] = "relock" /\ Shutdown(u)
    \/ StopServices(u)
    \/ StopThreads(u)
    \/ pc[u] = "rejoin" /\ Join(u)

Next ==
    \/ \E u \in Users :
         \/ Call(u)
         \/ AddActiveUser(u)
         \/ RemoveActiveUser(u)
         \/ Post(u)
         \/ \E n \in 1..MaxThreads : SetNumThreads(u, n)
         \/ pc[u] = "idle" /\ Shutdown(u)
         \/ pc[u] = "idle" /\ Join(u)
         \/ SpuriousWakeup(u)
    \/ \E w \in Ids : Worker(w)
    \/ \E s \in Ids : TimerExpires(s)

Spec == Init /\ [][Next]_vars

\* Threads run, time passes, and users remove themselves when their work is done.
FairSpec ==
    /\ Spec
    /\ \A w \in Ids : WF_vars(Worker(w))
    /\ \A s \in Ids : WF_vars(TimerExpires(s))
    /\ \A u \in Users : WF_vars(Call(u)) /\ SF_vars(RemoveActiveUser(u))

-----------------------------------------------------------------------------
(* Properties.                                                             *)

\* The types of the variables; m_next_service stays within the pool of services.
TypeOK ==
    /\ m_is_running \in BOOLEAN
    /\ m_active_users \in Nat
    /\ m_num_threads \in 1..MaxThreads
    /\ m_mutex \in Users \cup {NoOne}
    /\ m_service_pool \subseteq Ids
    /\ m_next_service \in Ids
    /\ service \in [Ids -> [stopped : BOOLEAN, waits : 0..1, queue : Seq(Users \cup {"chain", "keepRunning"})]]
    /\ worker \in [Ids -> {"none", "loop", "run", "handler", "post", "exit"}]
    /\ doing \in [Ids -> Users \cup {"chain", NoOne}]
    /\ pc \in [Users -> {"idle", "startup", "count", "nousers", "relock", "stop", "threads", "join", "rejoin"}]
    /\ active \subseteq Users
    /\ item \in [Users -> {"none", "queued", "running", "done", "lost"}]
    /\ starts \in Nat

\* Once shutdown() has returned no thread of the pool is left that could run work of
\* objects that are gone, or that would join the threads of the next startup.
QuietAfterShutdown == (m_mutex = NoOne /\ ~m_is_running) => InPool = {}

\* PionScheduler.hpp, addActiveUser: "Shutdown of the PionScheduler is deferred until
\* there are no more active users": a user that is counted has threads.
UsersKeepThreads == m_active_users > 0 => m_is_running

\* A user that is counted by addActiveUser has threads that run, and once shutdown() has
\* returned no thread of the pool is left.
ThreadsForUsers == TypeOK /\ QuietAfterShutdown /\ UsersKeepThreads

\* PionScheduler.hpp, post: "schedules work to be performed by one of the pooled
\* threads": what an active user posts is performed, whatever other work throws.
WorkIsDone == \A u \in Users : (item[u] = "queued") ~> (item[u] = "done")

\* A shutdown that waits for users, for handlers and for threads in io_service::run
\* returns: nobody misses a notification and no thread waits for the mutex it holds.
ShutdownReturns == \A u \in Admins : (pc[u] \in {"nousers", "relock", "stop", "threads"}) ~> (pc[u] = "idle")

\* A thread that sleeps in join() is woken when the scheduler has stopped: a shutdown
\* between its look at m_is_running and its sleep is not missed.
JoinReturns == \A u \in Joiners : (pc[u] = "join" /\ ~m_is_running) ~> (pc[u] \in {"rejoin", "idle"})

\* No call of keepRunning is due.
Waits == m_is_running => \A s \in Ids : \A k \in DOMAIN service[s].queue : service[s].queue[k] # "keepRunning"

\* PionScheduler.hpp: KEEP_RUNNING_TIMER_SECONDS is the "number of seconds a timer
\* should wait for to keep the IO services running": again and again no call is due,
\* and the pool is idle.
KeepRunningWaits == []<>Waits
=============================================================================
