-------------------------- MODULE Scheduler_proofs --------------------------
(***************************************************************************)
(* Proofs about the thread scheduler, for both schedulers and any number   *)
(* of users and threads: no thread outlives a shutdown, and if nobody adds *)
(* itself while the scheduler shuts down, those that are counted have      *)
(* threads.                                                                *)
(***************************************************************************)
EXTENDS Scheduler, FiniteSetTheorems, TLAPS

Item == Users \cup {"chain", "keepRunning"}
Service == [stopped : BOOLEAN, waits : 0..1, queue : Seq(Item)]

Place == {"idle", "startup", "count", "nousers", "relock", "stop", "threads", "join", "rejoin"}

\* The count is that of the users that have added themselves; one that adds itself has
\* not been counted.
Counted ==
    /\ m_active_users = Cardinality(active)
    /\ \A u \in Users : pc[u] \in {"startup", "count"} => u \notin active

\* A shutdown that stops services and threads holds the mutex, and the scheduler does
\* not run.
Stopping ==
    /\ \A u \in Users : pc[u] \in {"stop", "threads"} <=> m_mutex = u
    /\ m_mutex # NoOne => ~m_is_running

\* Inductive for every scheduler.
Inv == TypeOK /\ Counted /\ Stopping /\ QuietAfterShutdown

\* Inductive, together with Inv, if users are orderly: nobody is adding itself while
\* another shuts down, so who is about to be counted finds the scheduler running.
Ordered ==
    /\ \A u, v \in Users : ~ (u \in InAdd /\ v \in InShutdown)
    /\ \A u \in Users : pc[u] = "count" => m_is_running
    /\ UsersKeepThreads

-----------------------------------------------------------------------------
(* The operators.                                                          *)

LEMMA ServiceFields ==
    ASSUME NEW s \in Service
    PROVE  s.stopped \in BOOLEAN /\ s.waits \in 0..1 /\ s.queue \in Seq(Item)
  BY DEF Service

LEMMA FreshType == Fresh \in Service
  <1>1. <<>> \in Seq(Item)
    OBVIOUS
  <1> QED  BY <1>1 DEF Fresh, Service

LEMMA QueueType ==
    ASSUME NEW s \in Service, NEW q \in Seq(Item)
    PROVE  [s EXCEPT !.queue = q] \in Service
  BY DEF Service

LEMMA StoppedType ==
    ASSUME NEW s \in Service, NEW b \in BOOLEAN
    PROVE  [s EXCEPT !.stopped = b] \in Service
  BY DEF Service

LEMMA WaitsType ==
    ASSUME NEW s \in Service, NEW n \in 0..1, NEW q \in Seq(Item)
    PROVE  [s EXCEPT !.waits = n, !.queue = q] \in Service
  BY DEF Service

LEMMA KeepRunningType ==
    ASSUME NEW s \in Service
    PROVE  keepRunning(s) \in Service
  <1>1. s.queue \in Seq(Item) /\ Append(s.queue, "keepRunning") \in Seq(Item)
    BY ServiceFields DEF Item
  <1>2. (IF s.waits > 0 THEN Append(s.queue, "keepRunning") ELSE s.queue) \in Seq(Item)
    BY <1>1
  <1>3. [s EXCEPT !.waits = 1, !.queue = IF s.waits > 0 THEN Append(s.queue, "keepRunning") ELSE s.queue] \in Service
    <2> DEFINE q == IF s.waits > 0 THEN Append(s.queue, "keepRunning") ELSE s.queue
    <2>1. q \in Seq(Item) /\ 1 \in 0..1
      BY <1>2
    <2> HIDE DEF q
    <2>2. [s EXCEPT !.waits = 1, !.queue = q] \in Service
      BY <2>1, WaitsType
    <2> QED  BY <2>2 DEF q
  <1>4. [s EXCEPT !.waits = 1, !.queue = IF s.waits > 0 THEN Append(s.queue, "keepRunning") ELSE s.queue]
        = [s EXCEPT !.waits = 1, !.queue = IF s.waits > 0 THEN Append(@, "keepRunning") ELSE @]
    BY DEF Service
  <1> QED  BY <1>3, <1>4 DEF keepRunning

\* The services of the pool are among those of the threads.
LEMMA GrownType ==
    ASSUME SchedulerAssumption, TypeOK
    PROVE  Grown \subseteq Ids /\ 0 \in Ids
  BY DEF SchedulerAssumption, TypeOK, Grown, Ids

\* getIOService returns a service of a thread, and work is put into its queue.
LEMMA PostedType ==
    ASSUME SchedulerAssumption, TypeOK, NEW i \in Item, Posted(i)
    PROVE  /\ m_service_pool' \subseteq Ids
           /\ m_next_service' \in Ids
           /\ service' \in [Ids -> Service]
  <1>1. NextService \in Ids
    BY DEF SchedulerAssumption, TypeOK, NextService, Ids
  <1>2. service \in [Ids -> Service]
    BY DEF TypeOK, Service, Item
  <1>3. Append(service[NextService].queue, i) \in Seq(Item)
    BY <1>1, <1>2, ServiceFields
  <1>4. [service[NextService] EXCEPT !.queue = Append(@, i)] \in Service
    BY <1>1, <1>2, <1>3, QueueType
  <1>5. service' = [service EXCEPT ![NextService] = [service[NextService] EXCEPT !.queue = Append(@, i)]]
    BY <1>1, <1>2 DEF Posted
  <1> QED  BY <1>1, <1>2, <1>4, <1>5, GrownType DEF Posted

\* The users that are counted are finitely many.
LEMMA ActiveCounted ==
    ASSUME SchedulerAssumption, TypeOK, Counted
    PROVE  /\ IsFiniteSet(active)
           /\ m_active_users \in Nat
           /\ active # {} => m_active_users > 0
           /\ \A u \in Users : u \notin active => Cardinality(active \cup {u}) = m_active_users + 1
           /\ \A u \in active : Cardinality(active \ {u}) = m_active_users - 1
  <1>1. IsFiniteSet(active)
    BY FS_Subset DEF SchedulerAssumption, TypeOK
  <1>2. Cardinality(active) \in Nat
    BY <1>1, FS_CardinalityType
  <1>3. active # {} => Cardinality(active) # 0
    BY <1>1, FS_EmptySet
  <1>4. ASSUME NEW u \in Users, u \notin active
        PROVE  Cardinality(active \cup {u}) = m_active_users + 1
    BY <1>1, <1>4, FS_AddElement DEF Counted
  <1>5. ASSUME NEW u \in active
        PROVE  Cardinality(active \ {u}) = m_active_users - 1
    BY <1>1, FS_RemoveElement DEF Counted
  <1> QED  BY <1>1, <1>2, <1>3, <1>4, <1>5 DEF Counted

-----------------------------------------------------------------------------
(* TypeOK.                                                                 *)

LEMMA InitInv ==
    ASSUME SchedulerAssumption, Init
    PROVE  Inv
  <1>1. 0 \in Ids /\ MaxThreads \in 1..MaxThreads
    BY DEF SchedulerAssumption, Ids
  <1>2. service \in [Ids -> Service]
    BY FreshType DEF Init
  <1>3. TypeOK
    BY <1>1, <1>2 DEF Init, TypeOK, Service, Item
  <1>4. Counted
    BY FS_EmptySet DEF Init, Counted
  <1>5. Stopping /\ QuietAfterShutdown
    BY DEF Init, Stopping, QuietAfterShutdown, InPool, SchedulerAssumption
  <1> QED  BY <1>3, <1>4, <1>5 DEF Inv


\* What users do.
LEMMA UserType ==
    ASSUME SchedulerAssumption, TypeOK, Counted, NEW u \in Users,
           \/ Call(u) \/ AddActiveUser(u) \/ RemoveActiveUser(u) \/ Post(u)
           \/ \E n \in 1..MaxThreads : SetNumThreads(u, n)
           \/ Shutdown(u) \/ Join(u) \/ SpuriousWakeup(u)
    PROVE  TypeOK'
  <1>0. service \in [Ids -> Service]
    BY DEF TypeOK, Service, Item
  <1>1. CASE Startup(u)
    <2>1. m_service_pool' \subseteq Ids
      BY <1>1, GrownType DEF Startup, TypeOK
    <2>2. service' \in [Ids -> Service]
      <3>1. CASE m_is_running
        BY <1>0, <1>1, <3>1 DEF Startup
      <3>2. CASE ~m_is_running
        <4>1. ASSUME NEW s \in Ids
              PROVE  /\ keepRunning(service[s]) \in Service
                     /\ keepRunning([service[s] EXCEPT !.stopped = FALSE]) \in Service
          BY <1>0, KeepRunningType, StoppedType
        <4> QED  BY <1>0, <1>1, <3>2, <4>1 DEF Startup
      <3> QED  BY <3>1, <3>2
    <2>3. service' \in [Ids -> [stopped : BOOLEAN, waits : 0..1, queue : Seq(Users \cup {"chain", "keepRunning"})]]
      BY <2>2 DEF Service, Item
    <2>4. worker' \in [Ids -> {"none", "loop", "run", "handler", "post", "exit"}]
      BY <1>1 DEF Startup, TypeOK
    <2>5. m_is_running' \in BOOLEAN /\ starts' \in Nat
      <3>1. CASE m_is_running
        BY <1>1, <3>1 DEF Startup, TypeOK
      <3>2. CASE ~m_is_running
        BY <1>1, <3>2 DEF Startup, TypeOK
      <3> QED  BY <3>1, <3>2
    <2> QED  BY <1>1, <2>1, <2>3, <2>4, <2>5 DEF Startup, TypeOK, Go
  <1>2. CASE Count(u)
    BY <1>2 DEF Count, TypeOK, Go
  <1>3. CASE Shutdown(u)
    BY <1>3 DEF Shutdown, TypeOK, Go
  <1>4. CASE StopServices(u)
    <2>1. service' \in [Ids -> Service]
      BY <1>0, <1>4, StoppedType DEF StopServices
    <2>2. service' \in [Ids -> [stopped : BOOLEAN, waits : 0..1, queue : Seq(Users \cup {"chain", "keepRunning"})]]
      BY <2>1 DEF Service, Item
    <2> QED  BY <1>4, <2>2 DEF StopServices, TypeOK, Go
  <1>5. CASE StopThreads(u)
    <2>1. service' \in [Ids -> Service]
      BY <1>0, <1>5, StoppedType, FreshType DEF StopThreads
    <2>2. service' \in [Ids -> [stopped : BOOLEAN, waits : 0..1, queue : Seq(Users \cup {"chain", "keepRunning"})]]
      BY <2>1 DEF Service, Item
    <2>3. pc' \in [Users -> Place]
      BY <1>5 DEF StopThreads, TypeOK, Woken, Place
    <2>4. item' \in [Users -> {"none", "queued", "running", "done", "lost"}]
      BY <1>5 DEF StopThreads, TypeOK
    <2> QED  BY <1>5, <2>2, <2>3, <2>4 DEF StopThreads, TypeOK, Place
  <1>6. CASE Join(u)
    BY <1>6 DEF Join, TypeOK, Go
  <1>7. CASE AddActiveUser(u)
    BY <1>7 DEF AddActiveUser, TypeOK, Go
  <1>8. CASE RemoveActiveUser(u)
    <2>1. m_active_users' \in Nat /\ active' \subseteq Users
      BY <1>8, ActiveCounted DEF RemoveActiveUser, TypeOK
    <2>2. pc' \in [Users -> Place]
      BY <1>8 DEF RemoveActiveUser, TypeOK, Woken, Place
    <2> QED  BY <1>8, <2>1, <2>2 DEF RemoveActiveUser, TypeOK, Place
  <1>9. CASE Post(u)
    <2>1. /\ m_service_pool' \subseteq Ids
          /\ m_next_service' \in Ids
          /\ service' \in [Ids -> Service]
      BY <1>9, PostedType DEF Post, Item
    <2>2. service' \in [Ids -> [stopped : BOOLEAN, waits : 0..1, queue : Seq(Users \cup {"chain", "keepRunning"})]]
      BY <2>1 DEF Service, Item
    <2> QED  BY <1>9, <2>1, <2>2 DEF Post, TypeOK
  <1>10. CASE \E n \in 1..MaxThreads : SetNumThreads(u, n)
    BY <1>10 DEF SetNumThreads, TypeOK
  <1>11. CASE SpuriousWakeup(u)
    BY <1>11 DEF SpuriousWakeup, TypeOK, Go
  <1> QED  BY <1>1, <1>2, <1>3, <1>4, <1>5, <1>6, <1>7, <1>8, <1>9, <1>10, <1>11 DEF Call

\* What the threads of the pool and the timers do.
LEMMA PoolType ==
    ASSUME SchedulerAssumption, TypeOK, NEW w \in Ids, Worker(w) \/ TimerExpires(w)
    PROVE  TypeOK'
  <1>0. service \in [Ids -> Service]
    BY DEF TypeOK, Service, Item
  <1>s. ServiceOf(w) \in Ids
    BY GrownType DEF ServiceOf
  <1>q. service[ServiceOf(w)] \in Service /\ service[ServiceOf(w)].queue \in Seq(Item)
    BY <1>0, <1>s, ServiceFields
  <1>f. Finish(w) => item' \in [Users -> {"none", "queued", "running", "done", "lost"}]
    BY DEF Finish, TypeOK
  <1>1. CASE WorkerLoop(w)
    BY <1>1 DEF WorkerLoop, TypeOK, At
  <1>2. CASE RunHandler(w)
    <2> DEFINE s == ServiceOf(w)
               i == Head(service[s].queue)
    <2>1. i \in Users \cup {"chain"} /\ Tail(service[s].queue) \in Seq(Item)
      <3>1. service[s].queue # <<>> /\ i # "keepRunning"
        BY <1>2 DEF RunHandler
      <3>2. i \in Item /\ Tail(service[s].queue) \in Seq(Item)
        BY <1>q, <3>1
      <3> QED  BY <3>1, <3>2 DEF Item
    <2>2. service' = [service EXCEPT ![s] = [service[s] EXCEPT !.queue = Tail(service[s].queue)]]
      BY <1>0, <1>2, <1>s DEF RunHandler
    <2>3. service' \in [Ids -> Service]
      BY <1>0, <1>q, <1>s, <2>1, <2>2, QueueType
    <2>4. service' \in [Ids -> [stopped : BOOLEAN, waits : 0..1, queue : Seq(Users \cup {"chain", "keepRunning"})]]
      BY <2>3 DEF Service, Item
    <2>5. doing' \in [Ids -> Users \cup {"chain", NoOne}]
      BY <1>2, <2>1 DEF RunHandler, TypeOK
    <2>6. item' \in [Users -> {"none", "queued", "running", "done", "lost"}]
      BY <1>2 DEF RunHandler, TypeOK
    <2> QED  BY <1>2, <2>4, <2>5, <2>6 DEF RunHandler, TypeOK, At
  <1>3. CASE RunKeepRunning(w)
    <2> DEFINE s == ServiceOf(w)
    <2>1. Tail(service[s].queue) \in Seq(Item)
      BY <1>q, <1>3 DEF RunKeepRunning
    <2>2. keepRunning([service[s] EXCEPT !.queue = Tail(service[s].queue)]) \in Service
      BY <1>q, <2>1, QueueType, KeepRunningType
    <2>3. service' = [service EXCEPT ![s] = keepRunning([service[s] EXCEPT !.queue = Tail(service[s].queue)])]
      BY <1>3 DEF RunKeepRunning
    <2>4. service' \in [Ids -> Service]
      BY <1>0, <1>s, <2>2, <2>3
    <2>5. service' \in [Ids -> [stopped : BOOLEAN, waits : 0..1, queue : Seq(Users \cup {"chain", "keepRunning"})]]
      BY <2>4 DEF Service, Item
    <2> QED  BY <1>3, <2>5 DEF RunKeepRunning, TypeOK
  <1>4. CASE RunReturns(w)
    <2> DEFINE s == ServiceOf(w)
    <2>1. service' = [service EXCEPT ![s] = [service[s] EXCEPT !.stopped = TRUE]]
      BY <1>0, <1>s, <1>4 DEF RunReturns
    <2>2. service' \in [Ids -> Service]
      BY <1>0, <1>q, <1>s, <2>1, StoppedType
    <2>3. service' \in [Ids -> [stopped : BOOLEAN, waits : 0..1, queue : Seq(Users \cup {"chain", "keepRunning"})]]
      BY <2>2 DEF Service, Item
    <2> QED  BY <1>4, <2>3 DEF RunReturns, TypeOK, At
  <1>5. CASE HandlerReturns(w)
    BY <1>5, <1>f DEF HandlerReturns, TypeOK, At
  <1>6. CASE HandlerPosts(w)
    BY <1>6, <1>f DEF HandlerPosts, TypeOK, At
  <1>7. CASE HandlerPosted(w)
    <2>1. /\ m_service_pool' \subseteq Ids
          /\ m_next_service' \in Ids
          /\ service' \in [Ids -> Service]
      BY <1>7, PostedType DEF HandlerPosted, Item
    <2>2. service' \in [Ids -> [stopped : BOOLEAN, waits : 0..1, queue : Seq(Users \cup {"chain", "keepRunning"})]]
      BY <2>1 DEF Service, Item
    <2> QED  BY <1>7, <2>1, <2>2 DEF HandlerPosted, TypeOK, At
  <1>8. CASE TimerExpires(w)
    <2>1. service[w] \in Service /\ service[w].waits \in 0..1 /\ service[w].waits > 0
      BY <1>0, <1>8, ServiceFields DEF TimerExpires
    <2>2. Append(service[w].queue, "keepRunning") \in Seq(Item)
      BY <2>1, ServiceFields DEF Item
    <2>n. service[w].waits - 1 \in 0..1
      BY <2>1
    <2>3. [service[w] EXCEPT !.waits = service[w].waits - 1, !.queue = Append(service[w].queue, "keepRunning")] \in Service
      BY <2>1, <2>2, <2>n, WaitsType
    <2>4. service' = [service EXCEPT ![w] = [service[w] EXCEPT !.waits = service[w].waits - 1, !.queue = Append(service[w].queue, "keepRunning")]]
      BY <1>0, <1>8 DEF TimerExpires, Service
    <2>5. service' \in [Ids -> Service]
      BY <1>0, <2>3, <2>4
    <2>6. service' \in [Ids -> [stopped : BOOLEAN, waits : 0..1, queue : Seq(Users \cup {"chain", "keepRunning"})]]
      BY <2>5 DEF Service, Item
    <2> QED  BY <1>8, <2>6 DEF TimerExpires, TypeOK
  <1> QED  BY <1>1, <1>2, <1>3, <1>4, <1>5, <1>6, <1>7, <1>8 DEF Worker

-----------------------------------------------------------------------------
(* Inv.                                                                    *)

LEMMA UserInv ==
    ASSUME SchedulerAssumption, Inv, NEW u \in Users,
           \/ Call(u) \/ AddActiveUser(u) \/ RemoveActiveUser(u) \/ Post(u)
           \/ \E n \in 1..MaxThreads : SetNumThreads(u, n)
           \/ Shutdown(u) \/ Join(u) \/ SpuriousWakeup(u)
    PROVE  Counted' /\ Stopping' /\ QuietAfterShutdown'
  <1> USE DEF SchedulerAssumption
  <1>0. TypeOK /\ Counted /\ Stopping /\ QuietAfterShutdown
    BY DEF Inv
  <1>p. pc \in [Users -> Place]
    BY <1>0 DEF TypeOK, Place
  <1>1. CASE Startup(u)
    <2>1. Counted'
      BY <1>0, <1>1, <1>p DEF Startup, Counted, Go
    <2>2. Stopping'
      BY <1>0, <1>1, <1>p DEF Startup, Stopping, Go
    <2>3. m_is_running' = TRUE
      BY <1>0, <1>1 DEF Startup, TypeOK
    <2> QED  BY <2>1, <2>2, <2>3 DEF QuietAfterShutdown
  <1>2. CASE Count(u)
    <2>1. Cardinality(active \cup {u}) = m_active_users + 1
      BY <1>0, <1>2, ActiveCounted DEF Count, Counted
    <2>2. Counted'
      BY <1>0, <1>2, <1>p, <2>1 DEF Count, Counted, Go
    <2>3. Stopping' /\ QuietAfterShutdown'
      BY <1>0, <1>2, <1>p DEF Count, Stopping, QuietAfterShutdown, InPool, Go
    <2> QED  BY <2>2, <2>3
  <1>3. CASE Shutdown(u)
    <2>1. Counted'
      BY <1>0, <1>3, <1>p DEF Shutdown, Counted, Go
    <2>2. Stopping' /\ QuietAfterShutdown'
      BY <1>0, <1>3, <1>p DEF Shutdown, Stopping, QuietAfterShutdown, InPool, Go
    <2> QED  BY <2>1, <2>2
  <1>4. CASE StopServices(u)
    BY <1>0, <1>4, <1>p DEF StopServices, Counted, Stopping, QuietAfterShutdown, InPool, Go
  <1>5. CASE StopThreads(u)
    <2>1. pc' \in [Users -> Place] /\ \A v \in Users : pc'[v] = IF v = u THEN "idle" ELSE IF pc[v] = "join" THEN "rejoin" ELSE pc[v]
      BY <1>5, <1>p DEF StopThreads, Woken, Place
    <2>2. Counted' /\ Stopping'
      BY <1>0, <1>5, <1>p, <2>1 DEF StopThreads, Counted, Stopping
    <2>3. QuietAfterShutdown'
      BY <1>5 DEF StopThreads, QuietAfterShutdown, InPool
    <2> QED  BY <2>2, <2>3
  <1>6. CASE Join(u)
    BY <1>0, <1>6, <1>p DEF Join, Counted, Stopping, QuietAfterShutdown, InPool, Go
  <1>7. CASE AddActiveUser(u)
    BY <1>0, <1>7, <1>p DEF AddActiveUser, Counted, Stopping, QuietAfterShutdown, InPool, Go
  <1>8. CASE RemoveActiveUser(u)
    <2>1. Cardinality(active \ {u}) = m_active_users - 1
      BY <1>0, <1>8, ActiveCounted DEF RemoveActiveUser
    <2>2. pc' \in [Users -> Place] /\ \A v \in Users : pc'[v] = pc[v] \/ (pc[v] = "nousers" /\ pc'[v] = "relock")
      BY <1>8, <1>p DEF RemoveActiveUser, Woken, Place
    <2>3. Counted'
      BY <1>0, <1>8, <2>1, <2>2 DEF RemoveActiveUser, Counted
    <2>4. Stopping' /\ QuietAfterShutdown'
      BY <1>0, <1>8, <2>2 DEF RemoveActiveUser, Stopping, QuietAfterShutdown, InPool
    <2> QED  BY <2>3, <2>4
  <1>9. CASE Post(u)
    BY <1>0, <1>9 DEF Post, Counted, Stopping, QuietAfterShutdown, InPool
  <1>10. CASE \E n \in 1..MaxThreads : SetNumThreads(u, n)
    BY <1>0, <1>10 DEF SetNumThreads, Counted, Stopping, QuietAfterShutdown, InPool
  <1>11. CASE SpuriousWakeup(u)
    BY <1>0, <1>11, <1>p DEF SpuriousWakeup, Counted, Stopping, QuietAfterShutdown, InPool, Go
  <1> QED  BY <1>1, <1>2, <1>3, <1>4, <1>5, <1>6, <1>7, <1>8, <1>9, <1>10, <1>11 DEF Call

\* The threads of the pool leave users and the mutex alone, and none appears or goes.
LEMMA PoolLeaves ==
    ASSUME TypeOK, NEW w \in Ids, Worker(w) \/ TimerExpires(w)
    PROVE  /\ UNCHANGED <<m_is_running, m_active_users, m_mutex, pc, active>>
           /\ InPool' = InPool
  <1>w. worker \in [Ids -> {"none", "loop", "run", "handler", "post", "exit"}]
    BY DEF TypeOK
  <1>1. CASE WorkerLoop(w)
    BY <1>1, <1>w DEF WorkerLoop, InPool, At
  <1>2. CASE RunHandler(w)
    BY <1>2, <1>w DEF RunHandler, InPool, At
  <1>3. CASE RunKeepRunning(w)
    BY <1>3, <1>w DEF RunKeepRunning, InPool
  <1>4. CASE RunReturns(w)
    BY <1>4, <1>w DEF RunReturns, InPool, At
  <1>5. CASE HandlerReturns(w)
    BY <1>5, <1>w DEF HandlerReturns, InPool, At
  <1>6. CASE HandlerPosts(w)
    BY <1>6, <1>w DEF HandlerPosts, InPool, At
  <1>7. CASE HandlerPosted(w)
    BY <1>7, <1>w DEF HandlerPosted, InPool, At
  <1>8. CASE TimerExpires(w)
    BY <1>8, <1>w DEF TimerExpires, InPool
  <1> QED  BY <1>1, <1>2, <1>3, <1>4, <1>5, <1>6, <1>7, <1>8 DEF Worker

LEMMA Inductive ==
    ASSUME SchedulerAssumption, Inv, [Next]_vars
    PROVE  Inv'
  <1>0. TypeOK /\ Counted /\ Stopping /\ QuietAfterShutdown
    BY DEF Inv
  <1>1. CASE \E u \in Users :
              \/ Call(u) \/ AddActiveUser(u) \/ RemoveActiveUser(u) \/ Post(u)
              \/ \E n \in 1..MaxThreads : SetNumThreads(u, n)
              \/ Shutdown(u) \/ Join(u) \/ SpuriousWakeup(u)
    BY <1>0, <1>1, UserType, UserInv DEF Inv
  <1>2. CASE \E w \in Ids : Worker(w) \/ TimerExpires(w)
    <2>1. PICK w \in Ids : Worker(w) \/ TimerExpires(w)
      BY <1>2
    <2>2. TypeOK'
      BY <1>0, <2>1, PoolType
    <2>3. UNCHANGED <<m_is_running, m_active_users, m_mutex, pc, active>> /\ InPool' = InPool
      BY <1>0, <2>1, PoolLeaves
    <2>4. Counted' /\ Stopping' /\ QuietAfterShutdown'
      BY <1>0, <2>3 DEF Counted, Stopping, QuietAfterShutdown
    <2> QED  BY <2>2, <2>4 DEF Inv
  <1>3. CASE UNCHANGED vars
    BY <1>0, <1>3 DEF Inv, vars, TypeOK, Counted, Stopping, QuietAfterShutdown, InPool
  <1> QED  BY <1>1, <1>2, <1>3 DEF Next

\* shutdown() joins every thread before it lets go of the mutex, startup() starts threads
\* only of a scheduler that has none, and each user is counted once: once shutdown() has
\* returned no thread of the pool is left, for both schedulers, however the users behave.
THEOREM NoThreadIsLeft ==
    ASSUME SchedulerAssumption
    PROVE  Spec => [](TypeOK /\ QuietAfterShutdown)
  <1>1. Init => Inv
    BY InitInv
  <1>2. Inv /\ [Next]_vars => Inv'
    BY Inductive
  <1>3. Inv => TypeOK /\ QuietAfterShutdown
    BY DEF Inv
  <1> QED  BY <1>1, <1>2, <1>3, PTL DEF Spec

-----------------------------------------------------------------------------
(* Orderly users.                                                          *)

LEMMA InitOrdered ==
    ASSUME Init
    PROVE  Ordered
  BY DEF Init, Ordered, InAdd, InShutdown, UsersKeepThreads

LEMMA OrderedUser ==
    ASSUME SchedulerAssumption, Orderly, Inv, Ordered, NEW u \in Users,
           \/ Call(u) \/ AddActiveUser(u) \/ RemoveActiveUser(u) \/ Post(u)
           \/ \E n \in 1..MaxThreads : SetNumThreads(u, n)
           \/ Shutdown(u) \/ Join(u) \/ SpuriousWakeup(u)
    PROVE  Ordered'
  <1> USE DEF Ordered, InAdd, InShutdown, UsersKeepThreads
  <1>0. TypeOK /\ Counted /\ Stopping
    BY DEF Inv
  <1>p. pc \in [Users -> Place]
    BY <1>0 DEF TypeOK, Place
  <1>n. m_active_users \in Nat /\ m_is_running \in BOOLEAN
    BY <1>0 DEF TypeOK
  <1>1. CASE Startup(u)
    <2>1. m_is_running' = TRUE
      BY <1>0, <1>1 DEF Startup, TypeOK
    <2> QED  BY <1>1, <1>p, <2>1 DEF Startup, Go
  <1>2. CASE Count(u)
    BY <1>2, <1>p DEF Count, Go
  <1>3. CASE Shutdown(u)
    <2>1. InAdd = {}
      BY <1>3, <1>p DEF Shutdown
    <2>2. InAdd' = {}
      BY <1>3, <1>p, <2>1 DEF Shutdown, Go
    <2>3. UsersKeepThreads'
      BY <1>3, <1>n DEF Shutdown
    <2> QED  BY <2>2, <2>3
  <1>4. CASE StopServices(u)
    BY <1>4, <1>p DEF StopServices, Go
  <1>5. CASE StopThreads(u)
    <2>1. \A v \in Users : pc'[v] = IF v = u THEN "idle" ELSE IF pc[v] = "join" THEN "rejoin" ELSE pc[v]
      BY <1>5, <1>p DEF StopThreads, Woken, Place
    <2> QED  BY <1>5, <1>p, <2>1 DEF StopThreads
  <1>6. CASE Join(u)
    BY <1>6, <1>p DEF Join, Go
  <1>7. CASE AddActiveUser(u)
    BY <1>7, <1>p DEF AddActiveUser, Go
  <1>8. CASE RemoveActiveUser(u)
    <2>1. \A v \in Users : pc'[v] = pc[v] \/ (pc[v] = "nousers" /\ pc'[v] = "relock")
      BY <1>8, <1>p DEF RemoveActiveUser, Woken, Place
    <2>2. m_active_users' > 0 => m_active_users > 0
      BY <1>8, <1>n DEF RemoveActiveUser
    <2> QED  BY <1>8, <1>p, <2>1, <2>2 DEF RemoveActiveUser
  <1>9. CASE Post(u)
    BY <1>9 DEF Post
  <1>10. CASE \E n \in 1..MaxThreads : SetNumThreads(u, n)
    BY <1>10 DEF SetNumThreads
  <1>11. CASE SpuriousWakeup(u)
    BY <1>11, <1>p DEF SpuriousWakeup, Go
  <1> QED  BY <1>1, <1>2, <1>3, <1>4, <1>5, <1>6, <1>7, <1>8, <1>9, <1>10, <1>11 DEF Call

\* PionScheduler.hpp: shutdown is deferred until there are no more active users.  If nobody
\* is inside addActiveUser while another shuts the scheduler down, a user that is counted
\* has threads that run until it removes itself.  (addActiveUser looks at m_is_running
\* before it locks the mutex, so without this a user may be counted by a scheduler that
\* has just stopped.)
THEOREM UsersHaveThreads ==
    ASSUME SchedulerAssumption, Orderly
    PROVE  Spec => []ThreadsForUsers
  <1>1. Init => Inv /\ Ordered
    BY InitInv, InitOrdered
  <1>2. Inv /\ Ordered /\ [Next]_vars => Inv' /\ Ordered'
    <2> SUFFICES ASSUME Inv, Ordered, [Next]_vars
                 PROVE  Inv' /\ Ordered'
      OBVIOUS
    <2>1. Inv'
      BY Inductive
    <2>2. CASE \E u \in Users :
              \/ Call(u) \/ AddActiveUser(u) \/ RemoveActiveUser(u) \/ Post(u)
              \/ \E n \in 1..MaxThreads : SetNumThreads(u, n)
              \/ Shutdown(u) \/ Join(u) \/ SpuriousWakeup(u)
      BY <2>1, <2>2, OrderedUser
    <2>3. CASE (\E w \in Ids : Worker(w) \/ TimerExpires(w)) \/ UNCHANGED vars
      <3>1. UNCHANGED <<m_is_running, m_active_users, pc>>
        BY <2>3, PoolLeaves DEF vars, Inv
      <3> QED  BY <2>1, <3>1 DEF Ordered, InAdd, InShutdown, UsersKeepThreads
    <2> QED  BY <2>2, <2>3 DEF Next
  <1>3. Inv /\ Ordered => ThreadsForUsers
    BY DEF Inv, Ordered, ThreadsForUsers
  <1> QED  BY <1>1, <1>2, <1>3, PTL DEF Spec
=============================================================================
