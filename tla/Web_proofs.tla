----------------------------- MODULE Web_proofs -----------------------------
(***************************************************************************)
(* Proofs about three parts of a web server around its connections: the    *)
(* sessions of its users, the life of its services, and streams.           *)
(***************************************************************************)
EXTENDS HTTPAuth, WebServer, TCPStream, TLAPS

-----------------------------------------------------------------------------
(* Authentication, for any numbers of requests, users and sessions, any    *)
(* expiration and any delay between the steps of a request: sessions end   *)
(* in time and for a reason, and a cookie stands for the user it was sent  *)
(* to until that user logs out.                                            *)

Asked == [path : Paths, key : Keys \cup {None}]

\* The types of the variables.
TypeOK ==
    /\ m_user_cache \in [Keys -> Entry \cup {None}]
    /\ m_cache_cleanup_time \in Nat
    /\ now \in Nat
    /\ pc \in [Requests -> {"out", "processLogin", "draw", "insert", "need", "expire", "lookup", "done"}]
    /\ request \in [Requests -> Asked \cup {None}]
    /\ time_now \in [Requests -> Nat]
    /\ user \in [Requests -> Users \cup {None}]
    /\ answer \in [Requests -> {"pass", "204", "302", "401", None}]
    /\ cookie \in [Requests -> Cookies \cup {None}]
    /\ given \subseteq Cookies \X Users
    /\ ended \subseteq Keys
    /\ late \in [Requests -> BOOLEAN]
    /\ lastUsed \in [Keys -> Nat]

\* What a request has where it stands.
Standing ==
    \A r \in Requests :
        /\ pc[r] # "out" => request[r] \in Asked
        /\ pc[r] # "done" => answer[r] = None
        /\ pc[r] \notin {"draw", "insert", "done"} => user[r] = None
        /\ pc[r] \in {"draw", "insert"} => user[r] \in Users
        /\ pc[r] \in {"processLogin", "draw", "insert"} => Scheme = "cookie"
        /\ pc[r] = "insert" => cookie[r] \in Cookies

\* The clock and the times that have been read from it; an entry's time is that of its
\* last use or, by a request that was held up, at most MaxDelay seconds earlier; and no
\* entry was idle for longer than Expiration when the cache was cleaned up last.
Timely ==
    /\ m_cache_cleanup_time <= now
    /\ \A r \in Requests :
        /\ time_now[r] <= now
        /\ pc[r] \in {"expire", "lookup", "insert"} => now <= time_now[r] + MaxDelay
    /\ \A k \in Keys : m_user_cache[k] # None =>
        /\ m_user_cache[k].time <= lastUsed[k]
        /\ lastUsed[k] <= m_user_cache[k].time + MaxDelay
        /\ lastUsed[k] <= now
        /\ m_cache_cleanup_time <= lastUsed[k] + Expiration
        /\ \A r \in Requests : pc[r] = "lookup" => time_now[r] <= lastUsed[k] + 2 * Expiration

Inv == TypeOK /\ Standing /\ Timely

Given == {g[1] : g \in given}

\* Sessions: a cookie is sent to one user, none twice; it is cached for that user and not
\* after its logout; and requests come with cookies that have been sent.
Sessions ==
    /\ \A g, h \in given : g[1] = h[1] => g = h
    /\ \A r \in Requests : pc[r] = "insert" =>
        /\ cookie[r] \notin Given
        /\ \A q \in Requests : q # r /\ pc[q] = "insert" => cookie[q] # cookie[r]
    /\ ended \subseteq Given
    /\ \A k \in Keys : m_user_cache[k] # None => <<k, m_user_cache[k].user>> \in given /\ k \notin ended
    /\ \A r \in Requests :
        /\ pc[r] # "out" => request[r].key \in Given \cup {None}
        /\ late[r] => pc[r] # "out" /\ request[r].key \in ended
        /\ answer[r] = "pass" /\ user[r] # None => <<request[r].key, user[r]>> \in given /\ ~late[r]

-----------------------------------------------------------------------------
(* Steps that leave the cache and its times alone.                         *)

LEMMA Initially ==
    ASSUME AuthAssumption, Init
    PROVE  Inv /\ Sessions
  <1>1. TypeOK
    BY DEF Init, TypeOK
  <1>2. Standing
    BY DEF Init, Standing
  <1>3. Timely
    BY DEF Init, Timely, AuthAssumption
  <1>4. Sessions
    BY DEF Init, Sessions, Given, AuthAssumption
  <1> QED  BY <1>1, <1>2, <1>3, <1>4 DEF Inv

\* The clock and the calls of administrators.
LEMMA TickStep ==
    ASSUME AuthAssumption, Inv, Tick
    PROVE  Inv' /\ (Sessions => Sessions')
  <1>0. TypeOK /\ Standing /\ Timely
    BY DEF Inv
  <1>1. now' = now + 1 /\ now' \in Nat
    BY <1>0 DEF Tick, TypeOK
  <1>2. UNCHANGED <<m_user_cache, m_cache_cleanup_time, pc, request, time_now, user, answer, cookie, history>>
    BY DEF Tick
  <1>3. TypeOK' /\ Standing'
    BY <1>0, <1>1, <1>2 DEF TypeOK, Standing, history
  <1>4. \A r \in Requests : pc[r] \in {"expire", "lookup", "insert"} => now + 1 <= time_now[r] + MaxDelay
    BY <1>0 DEF Tick, TypeOK, AuthAssumption
  <1>5. Timely'
    <2>1. m_cache_cleanup_time' <= now'
      BY <1>0, <1>1, <1>2 DEF Timely, TypeOK
    <2>2. \A r \in Requests : time_now'[r] <= now' /\ (pc'[r] \in {"expire", "lookup", "insert"} => now' <= time_now'[r] + MaxDelay)
      BY <1>0, <1>1, <1>2, <1>4 DEF Timely, TypeOK
    <2>3. \A k \in Keys : m_user_cache[k] # None => lastUsed[k] <= now + 1
      BY <1>0 DEF Timely, TypeOK
    <2> QED  BY <1>0, <1>1, <1>2, <2>1, <2>2, <2>3 DEF Timely, history
  <1>6. Sessions => Sessions'
    BY <1>2 DEF Sessions, Given, history
  <1> QED  BY <1>3, <1>5, <1>6 DEF Inv

LEMMA AdminStep ==
    ASSUME Inv, Admin
    PROVE  Inv' /\ (Sessions => Sessions')
  BY DEF Inv, Admin, TypeOK, Standing, Timely, Sessions, Given, history

\* A request moves on, the cache, the clock and its times staying as they are.
LEMMA Moves ==
    ASSUME AuthAssumption, Inv, NEW r \in Requests, TypeOK',
           UNCHANGED <<m_user_cache, m_cache_cleanup_time, now, lastUsed>>,
           \A q \in Requests : q # r => pc'[q] = pc[q] /\ time_now'[q] = time_now[q],
           pc'[r] \notin {"expire", "lookup", "insert"} \/ (pc'[r] = "lookup" /\ pc[r] = "lookup" /\ time_now'[r] = time_now[r]),
           time_now'[r] <= now
    PROVE  Timely'
  <1>0. TypeOK /\ Timely
    BY DEF Inv
  <1>1. \A q \in Requests : /\ time_now'[q] <= now'
                            /\ pc'[q] \in {"expire", "lookup", "insert"} => now' <= time_now'[q] + MaxDelay
    BY <1>0 DEF Timely
  <1>2. \A q \in Requests : pc'[q] = "lookup" => pc[q] = "lookup" /\ time_now'[q] = time_now[q]
    OBVIOUS
  <1> QED  BY <1>0, <1>1, <1>2 DEF Timely

LEMMA ArriveStep ==
    ASSUME AuthAssumption, Inv, NEW r \in Requests, Arrive(r)
    PROVE  Inv' /\ (Scheme = "cookie" /\ Sessions => Sessions')
  <1>0. TypeOK /\ Standing /\ Timely
    BY DEF Inv
  <1>1. PICK a \in Asked : request' = [request EXCEPT ![r] = a]
    BY DEF Arrive, Asked
  <1>2. /\ late' = [late EXCEPT ![r] = a.key \in ended]
        /\ Scheme = "cookie" => a.key \in Given \cup {None}
    BY <1>0, <1>1 DEF Arrive, TypeOK, Given
  <1>3. /\ pc[r] = "out"
        /\ pc' = [pc EXCEPT ![r] = IF Scheme = "cookie" THEN "processLogin" ELSE "need"]
        /\ UNCHANGED <<m_user_cache, m_cache_cleanup_time, now, time_now, user, answer, cookie, given,
                       ended, lastUsed>>
    BY DEF Arrive
  <1>4. TypeOK'
    BY <1>0, <1>1, <1>2, <1>3 DEF TypeOK
  <1>5. Standing'
    BY <1>0, <1>1, <1>3 DEF Standing, TypeOK
  <1>6. Timely'
    <2>1. /\ \A q \in Requests : q # r => pc'[q] = pc[q] /\ time_now'[q] = time_now[q]
          /\ pc'[r] \notin {"expire", "lookup", "insert"}
          /\ time_now'[r] <= now
      BY <1>0, <1>3 DEF TypeOK, Timely
    <2> QED  BY <1>3, <1>4, <2>1, Moves
  <1>7. ASSUME Scheme = "cookie", Sessions PROVE Sessions'
    <2>1. Given' = Given
      BY <1>3 DEF Given
    <2>2. \A q \in Requests : /\ pc'[q] # "out" => request'[q].key \in Given \cup {None}
                              /\ late'[q] => pc'[q] # "out" /\ request'[q].key \in ended
      BY <1>0, <1>1, <1>2, <1>3, <1>7 DEF Sessions, TypeOK
    <2>3. \A q \in Requests : answer[q] = "pass" => q # r
      BY <1>0, <1>3 DEF Standing, AuthAssumption
    <2>4. \A q \in Requests : answer'[q] = "pass" /\ user'[q] # None => <<request'[q].key, user'[q]>> \in given /\ ~late'[q]
      BY <1>0, <1>1, <1>2, <1>3, <1>7, <2>3 DEF Sessions, TypeOK
    <2>5. \A q \in Requests : pc'[q] = "insert" => pc[q] = "insert"
      BY <1>0, <1>3 DEF TypeOK
    <2> QED  BY <1>3, <1>7, <2>1, <2>2, <2>4, <2>5 DEF Sessions
  <1> QED  BY <1>4, <1>5, <1>6, <1>7 DEF Inv

\* The steps of a request up to the lookup that change neither the cache nor what has
\* been given and ended, the draw of a cookie apart.
LEMMA OnTheWay ==
    ASSUME AuthAssumption, Inv, NEW r \in Requests,
           ProcessLogin(r) \/ NoLogin(r) \/ NeedAuthentication(r)
    PROVE  Inv' /\ (Sessions => Sessions')
  <1>0. TypeOK /\ Standing /\ Timely
    BY DEF Inv
  <1>1. UNCHANGED <<m_user_cache, m_cache_cleanup_time, now, request, cookie, history>>
    BY DEF ProcessLogin, NoLogin, NeedAuthentication
  <1>2. pc[r] \in {"processLogin", "need"} /\ answer[r] = None /\ user[r] = None
    BY <1>0 DEF ProcessLogin, NoLogin, NeedAuthentication, Standing
  <1>3. /\ TypeOK'
        /\ \A q \in Requests : q # r => pc'[q] = pc[q] /\ time_now'[q] = time_now[q] /\ user'[q] = user[q]
                                        /\ answer'[q] = answer[q]
    <2>1. CASE ProcessLogin(r)
      BY <1>0, <1>1, <2>1 DEF ProcessLogin, TypeOK, Answer, Unauthorized, history
    <2>2. CASE NoLogin(r)
      BY <1>0, <1>1, <2>2 DEF NoLogin, TypeOK, history
    <2>3. CASE NeedAuthentication(r)
      BY <1>0, <1>1, <2>3 DEF NeedAuthentication, TypeOK, Answer, history
    <2> QED  BY <2>1, <2>2, <2>3
  <1>4. /\ pc'[r] \in {"done", "draw", "need", "expire", "lookup"}
        /\ pc'[r] # "done" => answer'[r] = None
        /\ pc'[r] # "draw" => user'[r] = None
        /\ pc'[r] = "draw" => user'[r] \in Users /\ Scheme = "cookie"
    <2>1. CASE ProcessLogin(r)
      BY <1>0, <1>2, <2>1 DEF ProcessLogin, TypeOK, Standing, Answer, getUser
    <2>2. CASE NoLogin(r)
      BY <1>0, <1>2, <2>2 DEF NoLogin, TypeOK
    <2>3. CASE NeedAuthentication(r)
      BY <1>0, <1>2, <2>3 DEF NeedAuthentication, TypeOK, Answer
    <2> QED  BY <2>1, <2>2, <2>3
  <1>5. Standing'
    BY <1>0, <1>1, <1>2, <1>3, <1>4 DEF Standing
  <1>6. Timely'
    <2>1. CASE ProcessLogin(r) \/ NoLogin(r)
      <3>1. time_now' = time_now /\ pc'[r] \in {"done", "draw", "need"}
        BY <1>0, <2>1 DEF ProcessLogin, NoLogin, Answer, TypeOK
      <3>2. time_now'[r] <= now
        BY <1>0, <3>1 DEF Timely
      <3> QED  BY <1>1, <1>3, <3>1, <3>2, Moves DEF history
    <2>2. CASE NeedAuthentication(r) /\ ~needAuthentication(r)
      <3>1. time_now' = time_now /\ pc'[r] = "done"
        BY <1>0, <2>2 DEF NeedAuthentication, Answer, TypeOK
      <3>2. time_now'[r] <= now
        BY <1>0, <3>1 DEF Timely
      <3> QED  BY <1>1, <1>3, <3>1, <3>2, Moves DEF history
    <2>3. CASE NeedAuthentication(r) /\ needAuthentication(r)
      <3>1. /\ time_now'[r] = now
            /\ pc'[r] = "lookup" => now <= m_cache_cleanup_time + Expiration
        BY <1>0, <2>3 DEF NeedAuthentication, TypeOK, AuthAssumption
      <3>2. m_cache_cleanup_time' <= now'
        BY <1>0, <1>1 DEF Timely
      <3>3. \A q \in Requests : /\ time_now'[q] <= now'
                                /\ pc'[q] \in {"expire", "lookup", "insert"} => now' <= time_now'[q] + MaxDelay
        BY <1>0, <1>1, <1>3, <3>1 DEF Timely, TypeOK, AuthAssumption
      <3>4. ASSUME NEW k \in Keys, m_user_cache[k] # None, pc'[r] = "lookup"
            PROVE  now <= lastUsed[k] + 2 * Expiration
        <4>1. m_cache_cleanup_time <= lastUsed[k] + Expiration
          BY <1>0, <3>4 DEF Timely
        <4>2. lastUsed[k] \in Nat /\ now \in Nat /\ m_cache_cleanup_time \in Nat /\ Expiration \in Nat
          BY <1>0 DEF TypeOK, AuthAssumption
        <4> QED  BY <3>1, <3>4, <4>1, <4>2
      <3>5. ASSUME NEW k \in Keys, m_user_cache[k] # None, NEW q \in Requests, pc'[q] = "lookup"
            PROVE  time_now'[q] <= lastUsed[k] + 2 * Expiration
        BY <1>0, <1>3, <3>1, <3>4, <3>5 DEF Timely
      <3> QED  BY <1>0, <1>1, <3>2, <3>3, <3>5 DEF Timely, history
    <2> QED  BY <2>1, <2>2, <2>3
  <1>7. ASSUME Sessions PROVE Sessions'
    <2>1. Given' = Given /\ UNCHANGED <<given, ended, late, request, cookie, m_user_cache>>
      BY <1>1 DEF Given, history
    <2>2. \A q \in Requests : pc'[q] = "insert" => pc[q] = "insert"
      BY <1>3, <1>4
    <2>3. \A q \in Requests : pc'[q] # "out" => pc[q] # "out"
      BY <1>2, <1>3
    <2>4. \A q \in Requests : answer'[q] = "pass" /\ user'[q] # None => answer[q] = "pass" /\ user'[q] = user[q]
      BY <1>3, <1>4 DEF AuthAssumption
    <2>5. \A q \in Requests : pc[q] # "out" => pc'[q] # "out"
      BY <1>3, <1>4
    <2>6. \A q \in Requests : /\ pc'[q] # "out" => request'[q].key \in Given' \cup {None}
                              /\ late'[q] => pc'[q] # "out" /\ request'[q].key \in ended'
                              /\ answer'[q] = "pass" /\ user'[q] # None => <<request'[q].key, user'[q]>> \in given' /\ ~late'[q]
      BY <1>7, <2>1, <2>3, <2>4, <2>5 DEF Sessions
    <2> QED  BY <1>7, <2>1, <2>2, <2>6 DEF Sessions
  <1> QED  BY <1>3, <1>5, <1>6, <1>7 DEF Inv

\* A cookie that is drawn is nobody's.
LEMMA DrawCookieStep ==
    ASSUME AuthAssumption, Inv, NEW r \in Requests, DrawCookie(r)
    PROVE  Inv' /\ (~RacyRandom /\ Sessions => Sessions')
  <1>0. TypeOK /\ Standing /\ Timely
    BY DEF Inv
  <1>1. PICK k \in Cookies : cookie' = [cookie EXCEPT ![r] = k] /\ (~RacyRandom => k \notin Drawn)
    BY DEF DrawCookie
  <1>2. /\ pc[r] = "draw" /\ pc' = [pc EXCEPT ![r] = "insert"]
        /\ time_now' = [time_now EXCEPT ![r] = now]
        /\ UNCHANGED <<m_user_cache, m_cache_cleanup_time, now, request, user, answer, history>>
    BY DEF DrawCookie
  <1>3. TypeOK'
    BY <1>0, <1>1, <1>2 DEF TypeOK, history
  <1>4. Standing'
    BY <1>0, <1>1, <1>2 DEF Standing, TypeOK
  <1>5. Timely'
    <2>1. \A q \in Requests : /\ time_now'[q] <= now'
                              /\ pc'[q] \in {"expire", "lookup", "insert"} => now' <= time_now'[q] + MaxDelay
      BY <1>0, <1>2 DEF TypeOK, Timely, AuthAssumption
    <2>2. \A q \in Requests : pc'[q] = "lookup" => pc[q] = "lookup" /\ time_now'[q] = time_now[q]
      BY <1>0, <1>2 DEF TypeOK
    <2> QED  BY <1>0, <1>2, <2>1, <2>2 DEF Timely, history
  <1>6. ASSUME ~RacyRandom, Sessions PROVE Sessions'
    <2>1. Given' = Given /\ UNCHANGED <<given, ended, late, request, user, answer, m_user_cache>>
      BY <1>2 DEF Given, history
    <2>2. k \notin Given /\ \A q \in Requests : cookie[q] # k
      BY <1>1, <1>6 DEF Drawn, Given
    <2>3. \A q \in Requests : pc'[q] = "insert" =>
            /\ cookie'[q] \notin Given
            /\ \A x \in Requests : x # q /\ pc'[x] = "insert" => cookie'[x] # cookie'[q]
      BY <1>0, <1>1, <1>2, <1>6, <2>2 DEF Sessions, TypeOK
    <2>4. \A q \in Requests : (pc'[q] # "out") = (pc[q] # "out")
      BY <1>0, <1>2 DEF TypeOK
    <2> QED  BY <1>6, <2>1, <2>3, <2>4 DEF Sessions
  <1> QED  BY <1>3, <1>4, <1>5, <1>6 DEF Inv

LEMMA LeaveStep ==
    ASSUME AuthAssumption, Inv, NEW r \in Requests, Leave(r)
    PROVE  Inv' /\ (Sessions => Sessions')
  <1>0. TypeOK /\ Standing /\ Timely
    BY DEF Inv
  <1>1. TypeOK'
    BY <1>0 DEF Leave, TypeOK
  <1>2. Standing'
    BY <1>0 DEF Leave, Standing, TypeOK
  <1>3. Timely'
    <2>1. /\ \A q \in Requests : q # r => pc'[q] = pc[q] /\ time_now'[q] = time_now[q]
          /\ pc'[r] \notin {"expire", "lookup", "insert"}
          /\ time_now'[r] <= now
          /\ UNCHANGED <<m_user_cache, m_cache_cleanup_time, now, lastUsed>>
      BY <1>0 DEF Leave, TypeOK
    <2> QED  BY <1>1, <2>1, Moves
  <1>4. ASSUME Sessions PROVE Sessions'
    <2>1. Given' = Given /\ UNCHANGED <<given, ended, m_user_cache>>
      BY DEF Given, Leave
    <2>2. /\ \A q \in Requests : q # r => /\ pc'[q] = pc[q] /\ cookie'[q] = cookie[q] /\ late'[q] = late[q]
                                          /\ request'[q] = request[q] /\ user'[q] = user[q] /\ answer'[q] = answer[q]
          /\ pc'[r] = "out" /\ ~late'[r] /\ answer'[r] # "pass"
      BY <1>0 DEF Leave, TypeOK, AuthAssumption
    <2>3. \A q \in Requests : pc'[q] = "insert" =>
            /\ cookie'[q] \notin Given
            /\ \A x \in Requests : x # q /\ pc'[x] = "insert" => cookie'[x] # cookie'[q]
      BY <1>4, <2>2 DEF Sessions
    <2>4. \A q \in Requests : /\ pc'[q] # "out" => request'[q].key \in Given \cup {None}
                              /\ late'[q] => pc'[q] # "out" /\ request'[q].key \in ended
                              /\ answer'[q] = "pass" /\ user'[q] # None => <<request'[q].key, user'[q]>> \in given /\ ~late'[q]
      BY <1>4, <2>2 DEF Sessions
    <2> QED  BY <1>4, <2>1, <2>3, <2>4 DEF Sessions
  <1> QED  BY <1>1, <1>2, <1>3, <1>4 DEF Inv

-----------------------------------------------------------------------------
(* Steps that change the cache.                                            *)

\* The entry of a cookie that nobody had is new.
LEMMA InsertSessionStep ==
    ASSUME AuthAssumption, Inv, Sessions, NEW r \in Requests, InsertSession(r)
    PROVE  Inv' /\ Sessions'
  <1>0. TypeOK /\ Standing /\ Timely
    BY DEF Inv
  <1>1. /\ pc[r] = "insert" /\ Scheme = "cookie" /\ Keys = Cookies
        /\ cookie[r] \in Keys /\ user[r] \in Users /\ request[r] \in Asked
    BY <1>0 DEF InsertSession, Standing, Keys
  <1> DEFINE c == cookie[r]
             entry == [time |-> time_now[r], user |-> user[r]]
  <1>2. entry \in Entry /\ entry.time = time_now[r] /\ entry.user = user[r] /\ entry # None
    BY <1>0, <1>1 DEF TypeOK, Entry, AuthAssumption
  <1>10. c \notin Given /\ m_user_cache[c] = None /\ c \notin ended
    <2>1. c \notin Given /\ c \notin ended
      BY <1>1 DEF Sessions
    <2>2. ASSUME m_user_cache[c] # None PROVE FALSE
      <3>1. PICK g \in given : g = <<c, m_user_cache[c].user>>
        BY <1>1, <2>2 DEF Sessions
      <3>2. g[1] = c
        BY <3>1
      <3> QED  BY <2>1, <3>2 DEF Given
    <2> QED  BY <2>1, <2>2
  <1> HIDE DEF entry
  <1>3. /\ m_user_cache' = [m_user_cache EXCEPT ![c] = entry]
        /\ lastUsed' = [lastUsed EXCEPT ![c] = now]
        /\ given' = given \cup {<<c, user[r]>>}
        /\ user' = [user EXCEPT ![r] = None]
        /\ UNCHANGED <<m_cache_cleanup_time, now, request, time_now, cookie, ended, late>>
    BY <1>10 DEF InsertSession, Inserted, entry
  <1>4. PICK a \in {"204", "302"} : answer' = [answer EXCEPT ![r] = a] /\ pc' = [pc EXCEPT ![r] = "done"]
    BY DEF InsertSession, Answer
  <1>5. TypeOK'
    BY <1>0, <1>1, <1>2, <1>3, <1>4 DEF TypeOK
  <1>6. /\ pc'[r] = "done" /\ user'[r] = None /\ answer'[r] = a
        /\ \A q \in Requests : q # r => pc'[q] = pc[q] /\ user'[q] = user[q] /\ answer'[q] = answer[q]
    BY <1>0, <1>3, <1>4 DEF TypeOK
  <1>7. Standing'
    BY <1>0, <1>1, <1>3, <1>6 DEF Standing
  <1>8. Timely'
    <2>1. \A q \in Requests : /\ time_now'[q] <= now'
                              /\ pc'[q] \in {"expire", "lookup", "insert"} => pc'[q] = pc[q] /\ now' <= time_now'[q] + MaxDelay
      BY <1>0, <1>3, <1>6 DEF Timely
    <2>2. m_cache_cleanup_time' <= now'
      BY <1>0, <1>3 DEF Timely
    <2>3. ASSUME NEW k \in Keys, m_user_cache'[k] # None
          PROVE  /\ m_user_cache'[k].time <= lastUsed'[k]
                 /\ lastUsed'[k] <= m_user_cache'[k].time + MaxDelay
                 /\ lastUsed'[k] <= now'
                 /\ m_cache_cleanup_time' <= lastUsed'[k] + Expiration
                 /\ \A q \in Requests : pc'[q] = "lookup" => time_now'[q] <= lastUsed'[k] + 2 * Expiration
      <3>1. CASE k = c
        <4>1. m_user_cache'[k].time = time_now[r] /\ lastUsed'[k] = now /\ now' = now
          BY <1>0, <1>1, <1>2, <1>3, <3>1 DEF TypeOK
        <4>3. time_now[r] <= now /\ now <= time_now[r] + MaxDelay /\ time_now[r] \in Nat
          BY <1>0, <1>1 DEF Timely, TypeOK
        <4>2. now \in Nat /\ MaxDelay \in Nat /\ Expiration \in Nat /\ m_cache_cleanup_time' \in Nat
              /\ \A q \in Requests : time_now'[q] \in Nat
          BY <1>0, <1>5 DEF TypeOK, AuthAssumption
        <4> QED  BY <2>1, <2>2, <4>1, <4>2, <4>3
      <3>2. CASE k # c
        <4>1. m_user_cache'[k] = m_user_cache[k] /\ lastUsed'[k] = lastUsed[k]
          BY <1>0, <1>3, <3>2 DEF TypeOK
        <4> QED  BY <1>0, <1>3, <2>1, <2>3, <4>1 DEF Timely
      <3> QED  BY <3>1, <3>2
    <2> QED  BY <2>1, <2>2, <2>3 DEF Timely
  <1>9. Sessions'
    <2> DEFINE sent == <<c, user[r]>>
    <2>0. sent[1] = c /\ given' = given \cup {sent}
      BY <1>3
    <2> HIDE DEF sent, c
    <2>1. Given' = Given \cup {c}
      BY <2>0 DEF Given
    <2> USE DEF c
    <2>2. \A g, h \in given' : g[1] = h[1] => g = h
      BY <1>3, <1>10 DEF Sessions, Given
    <2>3. \A q \in Requests : pc'[q] = "insert" =>
            /\ cookie'[q] \notin Given'
            /\ \A x \in Requests : x # q /\ pc'[x] = "insert" => cookie'[x] # cookie'[q]
      BY <1>1, <1>3, <1>6, <2>1 DEF Sessions
    <2>4. \A k \in Keys : m_user_cache'[k] # None => <<k, m_user_cache'[k].user>> \in given' /\ k \notin ended'
      <3> SUFFICES ASSUME NEW k \in Keys, m_user_cache'[k] # None
                   PROVE  <<k, m_user_cache'[k].user>> \in given' /\ k \notin ended'
        OBVIOUS
      <3>1. CASE k = c
        BY <1>0, <1>1, <1>2, <1>3, <1>10, <3>1 DEF TypeOK
      <3>2. CASE k # c
        BY <1>0, <1>3, <3>2 DEF TypeOK, Sessions
      <3> QED  BY <3>1, <3>2
    <2>5. \A q \in Requests : /\ pc'[q] # "out" => request'[q].key \in Given' \cup {None}
                              /\ late'[q] => pc'[q] # "out" /\ request'[q].key \in ended'
                              /\ answer'[q] = "pass" /\ user'[q] # None => <<request'[q].key, user'[q]>> \in given' /\ ~late'[q]
      <3> SUFFICES ASSUME NEW q \in Requests
                   PROVE  /\ pc'[q] # "out" => request'[q].key \in Given' \cup {None}
                          /\ late'[q] => pc'[q] # "out" /\ request'[q].key \in ended'
                          /\ answer'[q] = "pass" /\ user'[q] # None => <<request'[q].key, user'[q]>> \in given' /\ ~late'[q]
        OBVIOUS
      <3>1. given \subseteq given' /\ Given \subseteq Given' /\ ended' = ended /\ request' = request /\ late' = late
        BY <1>3, <2>0, <2>1
      <3>2. CASE q = r
        BY <1>1, <1>6, <3>1, <3>2 DEF Sessions
      <3>3. CASE q # r
        BY <1>6, <3>1, <3>3 DEF Sessions
      <3> QED  BY <3>2, <3>3
    <2> QED  BY <1>3, <2>1, <2>2, <2>3, <2>4, <2>5 DEF Sessions
  <1> QED  BY <1>5, <1>7, <1>8, <1>9 DEF Inv

LEMMA ProcessLogoutStep ==
    ASSUME AuthAssumption, Inv, Sessions, NEW r \in Requests, ProcessLogout(r)
    PROVE  Inv' /\ Sessions'
  <1>0. TypeOK /\ Standing /\ Timely
    BY DEF Inv
  <1> DEFINE k == request[r].key
  <1>1. pc[r] = "processLogin" /\ request[r] \in Asked /\ answer[r] = None /\ user[r] = None
        /\ k \in Keys \cup {None} /\ k \in Given \cup {None}
    BY <1>0 DEF ProcessLogout, Standing, Asked, Sessions
  <1>2. PICK a \in {"204", "302"} : answer' = [answer EXCEPT ![r] = a] /\ pc' = [pc EXCEPT ![r] = "done"]
    BY DEF ProcessLogout, Answer
  <1>3. UNCHANGED <<m_cache_cleanup_time, now, request, time_now, user, cookie, given, late, lastUsed>> /\ Given' = Given
    BY DEF ProcessLogout, Given
  <1>4. /\ m_user_cache' \in [Keys -> Entry \cup {None}]
        /\ \A x \in Keys : m_user_cache'[x] # None => m_user_cache'[x] = m_user_cache[x] /\ x \notin {k}
        /\ ended' \subseteq ended \cup ({k} \ {None}) /\ ended \subseteq ended'
    BY <1>0, <1>1 DEF ProcessLogout, TypeOK, AuthAssumption
  <1>5. TypeOK'
    BY <1>0, <1>1, <1>2, <1>3, <1>4 DEF TypeOK
  <1>6. /\ pc'[r] = "done" /\ answer'[r] = a
        /\ \A q \in Requests : q # r => pc'[q] = pc[q] /\ answer'[q] = answer[q]
    BY <1>0, <1>2 DEF TypeOK
  <1>7. Standing'
    BY <1>0, <1>1, <1>3, <1>6 DEF Standing
  <1>8. Timely'
    <2>1. \A q \in Requests : pc'[q] \in {"expire", "lookup", "insert"} => pc'[q] = pc[q]
      BY <1>6
    <2> QED  BY <1>0, <1>3, <1>4, <2>1 DEF Timely
  <1>9. Sessions'
    <2>1. \A q \in Requests : pc'[q] = "insert" =>
            /\ cookie'[q] \notin Given
            /\ \A x \in Requests : x # q /\ pc'[x] = "insert" => cookie'[x] # cookie'[q]
      BY <1>3, <1>6 DEF Sessions
    <2>2. \A x \in Keys : m_user_cache'[x] # None => <<x, m_user_cache'[x].user>> \in given /\ x \notin ended'
      BY <1>4 DEF Sessions
    <2>3. \A q \in Requests : /\ pc'[q] # "out" => request'[q].key \in Given \cup {None}
                              /\ late'[q] => pc'[q] # "out" /\ request'[q].key \in ended'
                              /\ answer'[q] = "pass" /\ user'[q] # None => <<request'[q].key, user'[q]>> \in given /\ ~late'[q]
      BY <1>1, <1>3, <1>4, <1>6 DEF Sessions
    <2>4. ended' \subseteq Given
      BY <1>1, <1>4 DEF Sessions
    <2> QED  BY <1>3, <2>1, <2>2, <2>3, <2>4 DEF Sessions
  <1> QED  BY <1>5, <1>7, <1>8, <1>9 DEF Inv

\* What the cleanup leaves has been used within Expiration seconds.
LEMMA ExpireCacheStep ==
    ASSUME AuthAssumption, Inv, NEW r \in Requests, ExpireCache(r)
    PROVE  Inv' /\ (Sessions => Sessions')
  <1>0. TypeOK /\ Standing /\ Timely
    BY DEF Inv
  <1>1. /\ pc[r] = "expire" /\ pc' = [pc EXCEPT ![r] = "lookup"]
        /\ m_cache_cleanup_time' = time_now[r] /\ time_now[r] \in Nat
        /\ UNCHANGED <<now, request, time_now, user, answer, cookie, history>>
    BY <1>0 DEF ExpireCache, TypeOK
  <1>2. /\ m_user_cache' \in [Keys -> Entry \cup {None}]
        /\ \A k \in Keys : m_user_cache'[k] # None =>
                /\ m_user_cache'[k] = m_user_cache[k]
                /\ ~ (time_now[r] > m_user_cache[k].time + Expiration)
    BY <1>0 DEF ExpireCache, Expired, TypeOK
  <1>3. TypeOK'
    BY <1>0, <1>1, <1>2 DEF TypeOK, history
  <1>4. pc'[r] = "lookup" /\ \A q \in Requests : q # r => pc'[q] = pc[q]
    BY <1>0, <1>1 DEF TypeOK
  <1>5. Standing'
    BY <1>0, <1>1, <1>4 DEF Standing
  <1>6. Timely'
    <2>1. m_cache_cleanup_time' <= now' /\ \A q \in Requests : time_now'[q] <= now'
      BY <1>0, <1>1 DEF Timely
    <2>2. \A q \in Requests : pc'[q] \in {"expire", "lookup", "insert"} => now' <= time_now'[q] + MaxDelay
      BY <1>0, <1>1, <1>4 DEF Timely
    <2>3. ASSUME NEW k \in Keys, m_user_cache'[k] # None
          PROVE  /\ m_cache_cleanup_time' <= lastUsed'[k] + Expiration
                 /\ \A q \in Requests : pc'[q] = "lookup" => time_now'[q] <= lastUsed'[k] + 2 * Expiration
      <3>1. m_user_cache[k] # None /\ m_user_cache[k] \in Entry /\ lastUsed'[k] = lastUsed[k]
        BY <1>0, <1>1, <1>2, <2>3 DEF TypeOK, history
      <3>2. m_user_cache[k].time \in Nat /\ lastUsed[k] \in Nat /\ Expiration \in Nat
        BY <1>0, <3>1 DEF TypeOK, Entry, AuthAssumption
      <3>3. m_user_cache[k].time <= lastUsed[k]
        BY <1>0, <3>1 DEF Timely
      <3>4. time_now[r] <= m_user_cache[k].time + Expiration
        BY <1>1, <1>2, <2>3, <3>2
      <3>5. time_now[r] <= lastUsed[k] + Expiration /\ time_now[r] <= lastUsed[k] + 2 * Expiration
        BY <1>1, <3>2, <3>3, <3>4
      <3> QED  BY <1>0, <1>1, <1>4, <3>1, <3>5 DEF Timely
    <2>4. \A k \in Keys : m_user_cache'[k] # None =>
            /\ m_user_cache'[k].time <= lastUsed'[k]
            /\ lastUsed'[k] <= m_user_cache'[k].time + MaxDelay
            /\ lastUsed'[k] <= now'
      BY <1>0, <1>1, <1>2 DEF Timely, history
    <2> QED  BY <2>1, <2>2, <2>3, <2>4 DEF Timely
  <1>7. ASSUME Sessions PROVE Sessions'
    <2>1. Given' = Given /\ UNCHANGED <<given, ended, late, request, cookie, user, answer>>
      BY <1>1 DEF Given, history
    <2>2. \A q \in Requests : (pc'[q] = "insert") = (pc[q] = "insert") /\ (pc'[q] # "out") = (pc[q] # "out")
      BY <1>1, <1>4
    <2>3. \A k \in Keys : m_user_cache'[k] # None => <<k, m_user_cache'[k].user>> \in given /\ k \notin ended
      BY <1>2, <1>7 DEF Sessions
    <2> QED  BY <1>7, <2>1, <2>2, <2>3 DEF Sessions
  <1> QED  BY <1>3, <1>5, <1>6, <1>7 DEF Inv

\* A key is let in: its entry has the time at which the request read the clock.
LEMMA LetInStep ==
    ASSUME AuthAssumption, Inv, NEW r \in Requests, pc[r] = "lookup",
           NEW k \in Keys, request[r].key = k,
           NEW entry \in Entry, entry.time = time_now[r],
           m_user_cache' = [m_user_cache EXCEPT ![k] = entry],
           LetIn(r, k, entry.user),
           UNCHANGED <<m_cache_cleanup_time, now, request, time_now, cookie, given, ended, late>>
    PROVE  /\ Inv'
           /\ Sessions /\ <<k, entry.user>> \in given /\ k \notin ended => Sessions'
  <1>0. TypeOK /\ Standing /\ Timely
    BY DEF Inv
  <1>1. entry.user \in Users /\ entry # None
    BY DEF Entry, AuthAssumption
  <1>2. /\ user' = [user EXCEPT ![r] = entry.user]
        /\ lastUsed' = [lastUsed EXCEPT ![k] = now]
        /\ answer' = [answer EXCEPT ![r] = "pass"]
        /\ pc' = [pc EXCEPT ![r] = "done"]
    BY DEF LetIn, Answer
  <1>3. TypeOK'
    BY <1>0, <1>1, <1>2 DEF TypeOK
  <1>4. /\ pc'[r] = "done" /\ user'[r] = entry.user /\ answer'[r] = "pass"
        /\ \A q \in Requests : q # r => pc'[q] = pc[q] /\ user'[q] = user[q] /\ answer'[q] = answer[q]
    BY <1>0, <1>2 DEF TypeOK
  <1>5. Standing'
    BY <1>0, <1>4 DEF Standing
  <1>6. Timely'
    <2>1. \A q \in Requests : /\ time_now'[q] <= now'
                              /\ pc'[q] \in {"expire", "lookup", "insert"} => pc'[q] = pc[q] /\ now' <= time_now'[q] + MaxDelay
      BY <1>0, <1>4 DEF Timely
    <2>2. m_cache_cleanup_time' <= now'
      BY <1>0 DEF Timely
    <2>3. ASSUME NEW x \in Keys, m_user_cache'[x] # None
          PROVE  /\ m_user_cache'[x].time <= lastUsed'[x]
                 /\ lastUsed'[x] <= m_user_cache'[x].time + MaxDelay
                 /\ lastUsed'[x] <= now'
                 /\ m_cache_cleanup_time' <= lastUsed'[x] + Expiration
                 /\ \A q \in Requests : pc'[q] = "lookup" => time_now'[q] <= lastUsed'[x] + 2 * Expiration
      <3>1. CASE x = k
        <4>1. m_user_cache'[x].time = time_now[r] /\ lastUsed'[x] = now /\ now' = now
          BY <1>0, <1>2, <3>1 DEF TypeOK
        <4>2. /\ now \in Nat /\ MaxDelay \in Nat /\ Expiration \in Nat /\ m_cache_cleanup_time' \in Nat
              /\ \A q \in Requests : time_now'[q] \in Nat
          BY <1>0, <1>3 DEF TypeOK, AuthAssumption
        <4>3. time_now[r] <= now /\ now <= time_now[r] + MaxDelay
          BY <1>0 DEF Timely
        <4> QED  BY <2>1, <2>2, <4>1, <4>2, <4>3
      <3>2. CASE x # k
        <4>1. m_user_cache'[x] = m_user_cache[x] /\ lastUsed'[x] = lastUsed[x]
          BY <1>0, <1>2, <3>2 DEF TypeOK
        <4> QED  BY <1>0, <2>1, <2>3, <4>1 DEF Timely
      <3> QED  BY <3>1, <3>2
    <2> QED  BY <2>1, <2>2, <2>3 DEF Timely
  <1>7. ASSUME Sessions, <<k, entry.user>> \in given, k \notin ended PROVE Sessions'
    <2>1. Given' = Given
      BY DEF Given
    <2>2. \A q \in Requests : (pc'[q] = "insert") = (pc[q] = "insert") /\ (pc'[q] # "out") = (pc[q] # "out")
      BY <1>4
    <2>3. \A x \in Keys : m_user_cache'[x] # None => <<x, m_user_cache'[x].user>> \in given /\ x \notin ended
      <3> SUFFICES ASSUME NEW x \in Keys, m_user_cache'[x] # None
                   PROVE  <<x, m_user_cache'[x].user>> \in given /\ x \notin ended
        OBVIOUS
      <3>1. CASE x = k
        <4>1. m_user_cache'[x] = entry
          BY <1>0, <3>1 DEF TypeOK
        <4> QED  BY <1>7, <3>1, <4>1
      <3>2. CASE x # k
        <4>1. m_user_cache'[x] = m_user_cache[x]
          BY <1>0, <3>2 DEF TypeOK
        <4> QED  BY <1>7, <4>1 DEF Sessions
      <3> QED  BY <3>1, <3>2
    <2>4. \A q \in Requests :
            answer'[q] = "pass" /\ user'[q] # None => <<request'[q].key, user'[q]>> \in given /\ ~late'[q]
      <3> SUFFICES ASSUME NEW q \in Requests, answer'[q] = "pass", user'[q] # None
                   PROVE  <<request[q].key, user'[q]>> \in given /\ ~late[q]
        OBVIOUS
      <3>1. CASE q = r
        BY <1>4, <1>7, <3>1 DEF Sessions
      <3>2. CASE q # r
        BY <1>4, <1>7, <3>2 DEF Sessions
      <3> QED  BY <3>1, <3>2
    <2> QED  BY <1>7, <2>1, <2>2, <2>3, <2>4 DEF Sessions
  <1> QED  BY <1>3, <1>5, <1>6, <1>7 DEF Inv

LEMMA LookupStep ==
    ASSUME AuthAssumption, Inv, NEW r \in Requests, Lookup(r)
    PROVE  Inv' /\ (Scheme = "cookie" /\ Sessions => Sessions')
  <1>0. TypeOK /\ Standing /\ Timely
    BY DEF Inv
  <1> DEFINE k == request[r].key
  <1>1. /\ pc[r] = "lookup" /\ request[r] \in Asked /\ k \in Keys \cup {None}
        /\ answer[r] = None /\ user[r] = None
    BY <1>0 DEF Lookup, Standing, Asked
  <1>2. UNCHANGED <<m_cache_cleanup_time, now, request, time_now, cookie, given, ended, late>>
    BY DEF Lookup
  <1>3. CASE Found(r)
    <2>1. k \in Keys /\ m_user_cache[k] # None /\ m_user_cache[k] \in Entry
      BY <1>0, <1>1, <1>3 DEF Found, TypeOK
    <2> DEFINE entry == [m_user_cache[k] EXCEPT !.time = time_now[r]]
    <2>2. entry \in Entry /\ entry.time = time_now[r] /\ entry.user = m_user_cache[k].user
      BY <1>0, <2>1 DEF TypeOK, Entry
    <2>3. m_user_cache' = [m_user_cache EXCEPT ![k] = entry]
      BY <1>3 DEF Found
    <2> HIDE DEF entry
    <2>4. LetIn(r, k, entry.user)
      BY <1>3, <2>2 DEF Found
    <2>5. Inv' /\ (Sessions /\ <<k, entry.user>> \in given /\ k \notin ended => Sessions')
      BY <1>1, <1>2, <2>1, <2>2, <2>3, <2>4, LetInStep
    <2>6. Sessions => <<k, entry.user>> \in given /\ k \notin ended
      BY <2>1, <2>2 DEF Sessions
    <2> QED  BY <2>5, <2>6
  <1>4. CASE Matched(r)
    <2>1. k \in Keys /\ Scheme = "basic" /\ Keys = Credentials /\ k[1] \in Users
      BY <1>1, <1>4 DEF Matched, Keys, Credentials
    <2> DEFINE entry == [time |-> time_now[r], user |-> k[1]]
    <2>2. entry \in Entry /\ entry.time = time_now[r] /\ entry.user = k[1]
      BY <1>0, <2>1 DEF TypeOK, Entry
    <2>3. m_user_cache' = [m_user_cache EXCEPT ![k] = entry]
      BY <1>4 DEF Matched, Inserted
    <2> HIDE DEF entry
    <2>4. LetIn(r, k, entry.user)
      BY <1>4, <2>2 DEF Matched
    <2>5. Inv'
      BY <1>1, <1>2, <2>1, <2>2, <2>3, <2>4, LetInStep
    <2> QED  BY <2>1, <2>5
  <1>5. CASE Refused(r)
    <2>1. /\ answer' = [answer EXCEPT ![r] = Unauthorized]
          /\ pc' = [pc EXCEPT ![r] = "done"]
          /\ UNCHANGED <<m_user_cache, user, lastUsed>>
      BY <1>5 DEF Refused, Answer
    <2>2. Unauthorized \in {"302", "401"}
      BY DEF Unauthorized
    <2>3. TypeOK'
      BY <1>0, <1>2, <2>1, <2>2 DEF TypeOK
    <2>4. /\ pc'[r] = "done" /\ answer'[r] # "pass"
          /\ \A q \in Requests : q # r => pc'[q] = pc[q] /\ answer'[q] = answer[q]
      BY <1>0, <2>1, <2>2 DEF TypeOK
    <2>5. Standing'
      BY <1>0, <1>1, <1>2, <2>1, <2>4 DEF Standing
    <2>6. Timely'
      <3>1. time_now'[r] <= now
        BY <1>0, <1>2 DEF Timely
      <3> QED  BY <1>2, <2>1, <2>3, <2>4, <3>1, Moves
    <2>7. ASSUME Sessions PROVE Sessions'
      <3>1. Given' = Given
        BY <1>2 DEF Given
      <3>2. \A q \in Requests : /\ (pc'[q] = "insert") = (pc[q] = "insert")
                                /\ (pc'[q] # "out") = (pc[q] # "out")
                                /\ answer'[q] = "pass" => answer[q] = "pass"
        BY <1>1, <2>4
      <3> QED  BY <1>2, <2>1, <2>7, <3>1, <3>2 DEF Sessions
    <2> QED  BY <2>3, <2>5, <2>6, <2>7 DEF Inv
  <1> QED  BY <1>3, <1>4, <1>5 DEF Lookup

-----------------------------------------------------------------------------
(* The theorems.                                                           *)

Full == Inv /\ (Scheme = "cookie" => Sessions)

LEMMA RequestStep ==
    ASSUME AuthAssumption, ~RacyRandom, Full, NEW r \in Requests,
           \/ Arrive(r) \/ ProcessLogin(r) \/ DrawCookie(r) \/ InsertSession(r) \/ ProcessLogout(r)
           \/ NoLogin(r) \/ NeedAuthentication(r) \/ ExpireCache(r) \/ Lookup(r) \/ Leave(r)
    PROVE  Full'
  <1>0. Inv /\ Standing
    BY DEF Full, Inv
  <1>1. CASE Arrive(r)
    BY <1>1, ArriveStep DEF Full
  <1>2. CASE ProcessLogin(r) \/ NoLogin(r) \/ NeedAuthentication(r)
    BY <1>2, OnTheWay DEF Full
  <1>3. CASE DrawCookie(r)
    BY <1>3, DrawCookieStep DEF Full
  <1>4. CASE InsertSession(r)
    <2>1. Scheme = "cookie"
      BY <1>0, <1>4 DEF InsertSession, Standing
    <2> QED  BY <1>4, <2>1, InsertSessionStep DEF Full
  <1>5. CASE ProcessLogout(r)
    <2>1. Scheme = "cookie"
      BY <1>0, <1>5 DEF ProcessLogout, Standing
    <2> QED  BY <1>5, <2>1, ProcessLogoutStep DEF Full
  <1>6. CASE ExpireCache(r)
    BY <1>6, ExpireCacheStep DEF Full
  <1>7. CASE Lookup(r)
    BY <1>7, LookupStep DEF Full
  <1>8. CASE Leave(r)
    BY <1>8, LeaveStep DEF Full
  <1> QED  BY <1>1, <1>2, <1>3, <1>4, <1>5, <1>6, <1>7, <1>8

LEMMA NextStep ==
    ASSUME AuthAssumption, ~RacyRandom, Full, [Next]_vars
    PROVE  Full'
  <1>1. CASE Tick
    BY <1>1, TickStep DEF Full
  <1>2. CASE /\ Changing
             /\ \/ \E u \in Users, p \in Passwords : AddUser(u, p) \/ UpdateUser(u, p)
                \/ \E u \in Users : RemoveUser(u)
                \/ \E path \in Paths : Configure(path)
    <2>1. Admin
      BY <1>2 DEF AddUser, UpdateUser, RemoveUser, Configure
    <2> QED  BY <2>1, AdminStep DEF Full
  <1>3. CASE \E r \in Requests :
                \/ Arrive(r) \/ ProcessLogin(r) \/ DrawCookie(r) \/ InsertSession(r) \/ ProcessLogout(r)
                \/ NoLogin(r) \/ NeedAuthentication(r) \/ ExpireCache(r) \/ Lookup(r) \/ Leave(r)
    BY <1>3, RequestStep
  <1>4. CASE UNCHANGED vars
    <2>1. Admin
      BY <1>4 DEF vars, Admin, history
    <2> QED  BY <2>1, AdminStep DEF Full
  <1> QED  BY <1>1, <1>2, <1>3, <1>4 DEF Next

\* What the invariant says of the answers.
LEMMA Own ==
    ASSUME Full, Scheme = "cookie"
    PROVE  SessionIsOwn /\ LogoutEnds
  <1>0. Sessions
    BY DEF Full
  <1>1. ASSUME NEW r \in Requests, NEW g \in given,
               answer[r] = "pass", user[r] # None, request[r].key = g[1]
        PROVE  user[r] = g[2]
    <2>1. PICK h \in given : h = <<request[r].key, user[r]>>
      BY <1>0, <1>1 DEF Sessions
    <2>2. h[1] = g[1] /\ h[2] = user[r]
      BY <1>1, <2>1
    <2>3. h = g
      BY <1>0, <2>2 DEF Sessions
    <2> QED  BY <2>2, <2>3
  <1>2. LogoutEnds
    BY <1>0 DEF Sessions, LogoutEnds
  <1> QED  BY <1>1, <1>2 DEF SessionIsOwn

\* Whatever the requests and however they overlap, a request that a session cookie lets in
\* is given the user to whom the cookie was sent, and none is let in with a cookie whose
\* logout had been answered before the request arrived (HTTPCookieAuth::handleRequest and
\* processLogin), provided the unlocked generator draws no cookie twice.
THEOREM SessionsStayOwn ==
    ASSUME AuthAssumption
    PROVE  Spec => []SessionsAreOwn
  <1> DEFINE Safe == ~RacyRandom => Full
  <1>1. Init => Safe
    BY Initially DEF Full
  <1>2. Safe /\ [Next]_vars => Safe'
    BY NextStep
  <1>3. Safe => SessionsAreOwn
    BY Own DEF SessionsAreOwn
  <1> QED  BY <1>1, <1>2, <1>3, PTL DEF Spec

\* No key is let in that was idle for longer than twice the expiration.
LEMMA InTime ==
    ASSUME AuthAssumption, Full
    PROVE  NeverIdleFor(2 * Expiration)
  <1>0. TypeOK /\ Timely
    BY DEF Full, Inv
  <1>1. ASSUME NEW r \in Requests, NEW k \in Keys, pc[r] = "lookup", m_user_cache[k] # None,
               time_now[r] - lastUsed[k] > 2 * Expiration
        PROVE  FALSE
    <2>1. time_now[r] <= lastUsed[k] + 2 * Expiration
      BY <1>0, <1>1 DEF Timely
    <2>2. time_now[r] \in Nat /\ lastUsed[k] \in Nat /\ Expiration \in Nat
      BY <1>0 DEF TypeOK, AuthAssumption
    <2> QED  BY <1>1, <2>1, <2>2
  <1> QED  BY <1>1 DEF NeverIdleFor, Idle

\* The steps that end an entry are a logout of its key and the cleanup.
LEMMA EndsByLogout ==
    ASSUME AuthAssumption, Full, NEW r \in Requests, ProcessLogout(r)
    PROVE  EndsForAReason
  <1>0. TypeOK
    BY DEF Full, Inv
  <1> SUFFICES ASSUME NEW k \in Keys, m_user_cache[k] # None, m_user_cache'[k] = None
               PROVE  k \in ended'
    BY DEF EndsForAReason
  <1>1. request[r].key # None /\ m_user_cache' = [m_user_cache EXCEPT ![request[r].key] = None]
        /\ ended' = ended \cup {request[r].key}
    BY DEF ProcessLogout
  <1>2. k = request[r].key
    BY <1>0, <1>1 DEF TypeOK
  <1> QED  BY <1>1, <1>2

LEMMA EndsByCleanup ==
    ASSUME AuthAssumption, Full, NEW r \in Requests, ExpireCache(r)
    PROVE  EndsForAReason
  <1>0. TypeOK /\ Timely
    BY DEF Full, Inv
  <1> SUFFICES ASSUME NEW k \in Keys, m_user_cache[k] # None, m_user_cache'[k] = None
               PROVE  /\ pc[r] = "expire" /\ pc'[r] = "lookup"
                      /\ time_now[r] > lastUsed[k] + Expiration - MaxDelay
    BY DEF EndsForAReason
  <1>1. pc[r] = "expire" /\ pc'[r] = "lookup"
    BY <1>0 DEF ExpireCache, TypeOK
  <1>2. Expired(time_now[r], k)
    BY DEF ExpireCache
  <1>3. time_now[r] > m_user_cache[k].time + Expiration
    BY <1>2 DEF Expired
  <1>4. lastUsed[k] <= m_user_cache[k].time + MaxDelay
    BY <1>0 DEF Timely
  <1>5. m_user_cache[k] \in Entry
    BY <1>0 DEF TypeOK
  <1>6. /\ time_now[r] \in Nat /\ lastUsed[k] \in Nat /\ Expiration \in Nat /\ MaxDelay \in Nat
        /\ m_user_cache[k].time \in Nat
    BY <1>0, <1>5 DEF TypeOK, AuthAssumption, Entry
  <1> QED  BY <1>1, <1>3, <1>4, <1>6

\* The other steps end no entry.
LEMMA KeepsEntries ==
    ASSUME AuthAssumption, Full, NEW r \in Requests, InsertSession(r) \/ Lookup(r)
    PROVE  EndsForAReason
  <1>0. TypeOK /\ Standing
    BY DEF Full, Inv
  <1> SUFFICES ASSUME NEW k \in Keys, m_user_cache[k] # None PROVE m_user_cache'[k] # None
    BY DEF EndsForAReason
  <1>1. CASE InsertSession(r)
    <2>1. m_user_cache' = Inserted(cookie[r], time_now[r], user[r])
      BY <1>1 DEF InsertSession
    <2> QED  BY <1>0, <2>1 DEF Inserted, TypeOK
  <1>2. CASE Lookup(r) /\ Matched(r)
    <2>1. m_user_cache[request[r].key] = None /\ m_user_cache' = Inserted(request[r].key, time_now[r], request[r].key[1])
      BY <1>2 DEF Matched
    <2> QED  BY <1>0, <2>1 DEF Inserted, TypeOK
  <1>3. CASE Lookup(r) /\ Refused(r)
    BY <1>3 DEF Refused
  <1>4. CASE Lookup(r) /\ Found(r)
    <2>1. request[r].key \in Keys
      BY <1>0, <1>4 DEF Found, Lookup, Standing, Asked
    <2> DEFINE entry == [m_user_cache[request[r].key] EXCEPT !.time = time_now[r]]
    <2>2. m_user_cache' = [m_user_cache EXCEPT ![request[r].key] = entry]
      BY <1>4 DEF Found
    <2>3. m_user_cache[request[r].key] \in Entry /\ entry \in Entry
      BY <1>0, <1>4, <2>1 DEF Found, TypeOK, Entry
    <2> HIDE DEF entry
    <2> QED  BY <1>0, <2>1, <2>2, <2>3 DEF TypeOK, AuthAssumption
  <1> QED  BY <1>1, <1>2, <1>3, <1>4 DEF Lookup

LEMMA EndsInTimeStep ==
    ASSUME AuthAssumption, Full, [Next]_vars
    PROVE  EndsInTime
  <1>0. SUFFICES EndsForAReason
    BY InTime DEF EndsInTime
  <1>2. ASSUME m_user_cache' = m_user_cache PROVE EndsForAReason
    BY <1>2 DEF EndsForAReason
  <1>3. CASE UNCHANGED vars
    BY <1>2, <1>3 DEF vars
  <1>4. CASE Tick
    BY <1>2, <1>4 DEF Tick
  <1>5. CASE /\ Changing
             /\ \/ \E u \in Users, p \in Passwords : AddUser(u, p) \/ UpdateUser(u, p)
                \/ \E u \in Users : RemoveUser(u)
                \/ \E path \in Paths : Configure(path)
    BY <1>2, <1>5 DEF AddUser, UpdateUser, RemoveUser, Configure, Admin
  <1>6. ASSUME NEW r \in Requests,
               \/ Arrive(r) \/ ProcessLogin(r) \/ DrawCookie(r) \/ InsertSession(r) \/ ProcessLogout(r)
               \/ NoLogin(r) \/ NeedAuthentication(r) \/ ExpireCache(r) \/ Lookup(r) \/ Leave(r)
        PROVE  EndsForAReason
    <2>1. CASE Arrive(r) \/ ProcessLogin(r) \/ DrawCookie(r) \/ NoLogin(r) \/ NeedAuthentication(r) \/ Leave(r)
      BY <1>2, <2>1 DEF Arrive, ProcessLogin, DrawCookie, NoLogin, NeedAuthentication, Leave
    <2>2. CASE InsertSession(r) \/ Lookup(r)
      BY <2>2, KeepsEntries
    <2>3. CASE ProcessLogout(r)
      BY <2>3, EndsByLogout
    <2>4. CASE ExpireCache(r)
      BY <2>4, EndsByCleanup
    <2> QED  BY <1>6, <2>1, <2>2, <2>3, <2>4
  <1> QED  BY <1>3, <1>4, <1>5, <1>6 DEF Next

\* Whatever the requests and however they overlap, no key is let in that has been idle for
\* longer than twice the expiration, and an entry goes only by its logout or by a cleanup
\* for which it was idle for the expiration, less the delay of a request that was held up
\* between reading the clock and the lookup (HTTPBasicAuth::handleRequest,
\* HTTPCookieAuth::handleRequest and expireCache).
THEOREM SessionsEnd ==
    ASSUME AuthAssumption, ~RacyRandom
    PROVE  Spec => SessionsEndInTime
  <1>1. Init => Full
    BY Initially DEF Full
  <1>2. Full /\ [Next]_vars => Full'
    BY NextStep
  <1>3. Full /\ [Next]_vars => EndsInTime
    BY EndsInTimeStep
  <1> QED  BY <1>1, <1>2, <1>3, PTL DEF Spec, SessionsEndInTime

-----------------------------------------------------------------------------
(* The life of web services, for any numbers of controllers that take      *)
(* turns, of connections and of resources: a request is in a service that  *)
(* exists, and that has been started and not stopped.                      *)

Place == {"out", "bind", "stopping", "services", "~services", "resources", "~resources", "gone"}
Connection == [at : {"closed", "waiting", "serving"}, in : Services \cup {NULL}]

\* The types of the variables.
ServerTypeOK ==
    /\ m_is_listening \in BOOLEAN
    /\ m_services \in [Resources -> Services \cup {NULL}]
    /\ m_resources \in [Resources -> Services \cup {NULL}]
    /\ made \in 0..MaxServices
    /\ ctl \in [Controllers -> Place]
    /\ then \in [Controllers -> Place \ {"bind", "stopping"}]
    /\ new \in [Controllers -> {NULL} \cup [resource : Resources, service : Services]]
    /\ conn \in [Connections -> Connection]
    /\ orderly \in BOOLEAN
    /\ thrown \in BOOLEAN

\* One controller at a time is inside a call.
OneAtATime == \A s, t \in Controllers : ctl[s] # "out" /\ ctl[t] # "out" => s = t

\* The controllers that have cleared the services and not yet the resources.
Halfway == {t \in Controllers : ctl[t] \in {"resources", "~resources"}}

\* The server is up from start() until stop() has waited for the last connection.
Up == m_is_listening \/ \E t \in Controllers : ctl[t] = "stopping"

\* Whoever stops, clears or destroys the server has seen to it that it does not listen,
\* and connections are open only while it is up.
Quiet ==
    /\ \A t \in Controllers : ctl[t] \notin {"out", "bind"} => ~m_is_listening
    /\ ~Up => \A c \in Connections : conn[c] = Closed

\* The services that exist are the managed ones; a resource is bound to the service that
\* is managed for it, except halfway through a clear().
Bound ==
    /\ alive = Managed
    /\ \A t \in Controllers : ctl[t] = "bind" => /\ new[t] \in [resource : Resources, service : Services]
                                                /\ m_services[new[t].resource] = new[t].service
    /\ Halfway = {} => \A r \in Resources : m_resources[r] \in {NULL, m_services[r]}

\* A request is in a service that exists.
InService == \A c \in Connections : conn[c].at = "serving" => conn[c].in \in alive

ServerInv == ServerTypeOK /\ OneAtATime /\ Quiet /\ Bound /\ InService

\* While the server is up every managed service has been started, unless one was loaded
\* late; and no service stays started that is not managed, or after stop(), unless a
\* start() or a stop() has thrown.
StartedWhileUp ==
    /\ orderly /\ Up => Managed \subseteq started
    /\ ~thrown => started \subseteq IF Up THEN Managed ELSE {}

-----------------------------------------------------------------------------
LEMMA ServerInitially ==
    ASSUME WebServerAssumption, ServerInit
    PROVE  ServerInv /\ StartedWhileUp
  <1>1. ServerTypeOK
    <2>1. Closed \in Connection /\ 0 \in 0..MaxServices
      BY DEF WebServerAssumption, Connection, Closed
    <2> QED  BY <2>1 DEF ServerInit, ServerTypeOK, Place
  <1>2. OneAtATime /\ Quiet /\ Bound /\ InService /\ StartedWhileUp
    BY DEF ServerInit, OneAtATime, Quiet, Up, Bound, Managed, Halfway, InService, StartedWhileUp, Closed
  <1> QED  BY <1>1, <1>2 DEF ServerInv

\* Where the controller of a step stands before it, nobody else is inside a call.
LEMMA OthersOut ==
    ASSUME OneAtATime, NEW t \in Controllers, ctl[t] # "out"
    PROVE  \A s \in Controllers : s # t => ctl[s] = "out"
  BY DEF OneAtATime

LEMMA CallsAlone ==
    ASSUME Careful, NEW t \in Controllers, Calls(t)
    PROVE  \A s \in Controllers : ctl[s] = "out"
  BY DEF Calls

\* A controller goes from one place to another while the others are out.
LEMMA Goes ==
    ASSUME ServerTypeOK, NEW t \in Controllers, NEW p, ctl' = [ctl EXCEPT ![t] = p],
           \A s \in Controllers : s # t => ctl[s] = "out"
    PROVE  /\ OneAtATime'
           /\ ctl'[t] = p
           /\ \A s \in Controllers : s # t => ctl'[s] = "out"
  <1>1. ctl'[t] = p /\ \A s \in Controllers : s # t => ctl'[s] = "out"
    BY DEF ServerTypeOK
  <1> QED  BY <1>1 DEF OneAtATime

LEMMA LoadServiceStep ==
    ASSUME WebServerAssumption, Careful, ServerInv, NEW t \in Controllers, NEW r \in Resources, LoadService(t, r)
    PROVE  ServerInv' /\ (StartedWhileUp => StartedWhileUp')
  <1>0. ServerTypeOK /\ OneAtATime /\ Quiet /\ Bound /\ InService
    BY DEF ServerInv
  <1>1. \A s \in Controllers : ctl[s] = "out"
    BY CallsAlone DEF LoadService
  <1>2. OneAtATime' /\ ctl'[t] = "bind" /\ \A s \in Controllers : s # t => ctl'[s] = "out"
    BY <1>0, <1>1, Goes DEF LoadService, Goto
  <1>3. made' \in Services /\ made' # NULL /\ made' \in 0..MaxServices
    BY <1>0 DEF LoadService, ServerTypeOK, Services, WebServerAssumption
  <1>4. m_services' = [m_services EXCEPT ![r] = made'] /\ m_services[r] = NULL
        /\ m_services' \in [Resources -> Services \cup {NULL}]
    BY <1>0, <1>3 DEF LoadService, ServerTypeOK
  <1>5. Managed' = Managed \cup {made'}
    BY <1>0, <1>3, <1>4 DEF Managed, ServerTypeOK
  <1>6. /\ new'[t] = [resource |-> r, service |-> made']
        /\ new' \in [Controllers -> {NULL} \cup [resource : Resources, service : Services]]
    BY <1>0, <1>3 DEF LoadService, ServerTypeOK
  <1>7. ServerTypeOK'
    BY <1>0, <1>3, <1>4, <1>6 DEF LoadService, ServerTypeOK, Goto, Place
  <1>8. UNCHANGED <<m_is_listening, m_resources, conn, started>>
    BY DEF LoadService
  <1>9. Quiet' /\ Up' = Up
    BY <1>0, <1>1, <1>2, <1>8 DEF Quiet, Up
  <1>10. Bound'
    <2>1. alive' = Managed'
      BY <1>0, <1>5 DEF LoadService, Bound
    <2>2. \A s \in Controllers : ctl'[s] = "bind" => /\ new'[s] \in [resource : Resources, service : Services]
                                                    /\ m_services'[new'[s].resource] = new'[s].service
      BY <1>0, <1>2, <1>3, <1>4, <1>6 DEF ServerTypeOK
    <2>3. Halfway = {}
      BY <1>1 DEF Halfway
    <2>4. \A q \in Resources : m_resources'[q] \in {NULL, m_services'[q]}
      BY <1>0, <1>4, <1>8, <2>3 DEF Bound, ServerTypeOK
    <2> QED  BY <2>1, <2>2, <2>4 DEF Bound
  <1>11. InService'
    BY <1>0, <1>8 DEF LoadService, InService
  <1>12. ASSUME StartedWhileUp PROVE StartedWhileUp'
    <2>1. orderly' => ~Up
      BY <1>1 DEF LoadService, Up
    <2>2. thrown' = thrown
      BY DEF LoadService
    <2> QED  BY <1>5, <1>8, <1>9, <1>12, <2>1, <2>2 DEF StartedWhileUp
  <1> QED  BY <1>2, <1>7, <1>9, <1>10, <1>11, <1>12 DEF ServerInv

LEMMA AddResourceStep ==
    ASSUME WebServerAssumption, ServerInv, NEW t \in Controllers, AddResource(t)
    PROVE  ServerInv' /\ (StartedWhileUp => StartedWhileUp')
  <1>0. ServerTypeOK /\ OneAtATime /\ Quiet /\ Bound /\ InService
    BY DEF ServerInv
  <1>1. ctl[t] = "bind" /\ \A s \in Controllers : s # t => ctl[s] = "out"
    BY <1>0, OthersOut DEF AddResource
  <1>2. OneAtATime' /\ \A s \in Controllers : ctl'[s] = "out"
    BY <1>0, <1>1, Goes DEF AddResource, Goto
  <1> DEFINE r == new[t].resource
  <1>3. r \in Resources /\ new[t].service \in Services /\ m_services[r] = new[t].service
    BY <1>0, <1>1 DEF Bound
  <1>4. m_resources' \in [Resources -> Services \cup {NULL}]
    BY <1>0, <1>3 DEF AddResource, ServerTypeOK
  <1>5. ServerTypeOK'
    BY <1>0, <1>4 DEF AddResource, ServerTypeOK, Goto, Place
  <1>6. UNCHANGED <<m_is_listening, m_services, conn, started, alive, orderly, thrown>>
    BY DEF AddResource
  <1>7. Managed' = Managed /\ Quiet' /\ Up' = Up /\ InService'
    BY <1>0, <1>1, <1>2, <1>6 DEF Quiet, Up, Managed, InService
  <1>8. Halfway = {} /\ Halfway' = {}
    BY <1>1, <1>2 DEF Halfway
  <1>9. \A q \in Resources : m_resources'[q] \in {NULL, m_services[q]}
    BY <1>0, <1>3, <1>8 DEF AddResource, Bound, ServerTypeOK
  <1>10. Bound'
    BY <1>0, <1>2, <1>6, <1>7, <1>9 DEF Bound
  <1> QED  BY <1>2, <1>5, <1>6, <1>7, <1>10 DEF ServerInv, StartedWhileUp

\* The steps that change neither services, resources nor connections: start(), stop()
\* and the beginnings of clear() and of the destructor.
LEMMA UpAndDown ==
    ASSUME WebServerAssumption, Careful, ServerInv, NEW t \in Controllers,
           Start(t) \/ StartThrows(t) \/ Stop(t) \/ StopDone(t) \/ StopThrows(t) \/ Clear(t) \/ Destroy(t)
    PROVE  ServerInv' /\ (StartedWhileUp => StartedWhileUp')
  <1>0. ServerTypeOK /\ OneAtATime /\ Quiet /\ Bound /\ InService
    BY DEF ServerInv
  <1>1. UNCHANGED <<m_services, m_resources, made, alive, new, conn>> /\ Managed' = Managed
    BY DEF Start, StartThrows, Stop, StopDone, StopThrows, Clear, Destroy, Managed
  <1>2. InService'
    BY <1>0, <1>1 DEF InService
  <1>3. \A s \in Controllers : s # t => ctl[s] = "out"
    BY <1>0, OthersOut, CallsAlone DEF Start, StartThrows, Stop, StopDone, StopThrows, Clear, Destroy
  <1>4. CASE Start(t) \/ StartThrows(t)
    <2>1. (\A s \in Controllers : ctl[s] = "out") /\ ctl' = ctl /\ then' = then /\ ~m_is_listening
      BY <1>4, CallsAlone DEF Start, StartThrows
    <2>2. m_is_listening' \in BOOLEAN /\ orderly' = orderly /\ thrown' \in BOOLEAN
      BY <1>0, <1>4 DEF Start, StartThrows, ServerTypeOK
    <2>3. ServerTypeOK' /\ OneAtATime'
      BY <1>0, <1>1, <2>1, <2>2 DEF ServerTypeOK, OneAtATime
    <2>4. Quiet'
      BY <1>0, <1>1, <1>4, <2>1 DEF Start, StartThrows, Quiet, Up
    <2>5. Bound'
      BY <1>0, <1>1, <2>1 DEF Bound, Halfway
    <2>6. ASSUME StartedWhileUp PROVE StartedWhileUp'
      <3>1. ~Up
        BY <2>1 DEF Up
      <3>2. CASE Start(t)
        <4>1. m_is_listening' = TRUE /\ started' = started \cup Managed /\ thrown' = thrown
          BY <3>2 DEF Start
        <4> QED  BY <1>1, <2>6, <3>1, <4>1 DEF Up, StartedWhileUp
      <3>3. CASE StartThrows(t)
        <4>1. thrown' = TRUE /\ ~Up'
          BY <2>1, <3>1, <3>3 DEF StartThrows, Up
        <4> QED  BY <4>1 DEF StartedWhileUp
      <3> QED  BY <1>4, <3>2, <3>3
    <2> QED  BY <1>2, <2>3, <2>4, <2>5, <2>6 DEF ServerInv
  <1>5. CASE Stop(t) \/ Clear(t) \/ Destroy(t)
    <2>1. \A s \in Controllers : ctl[s] = "out"
      BY <1>5, CallsAlone DEF Stop, Clear, Destroy
    <2>2. PICK p \in {"out", "services", "~services"} : StopThen(t, p)
      BY <1>5 DEF Stop, Clear, Destroy
    <2>3. started' = started /\ m_is_listening' = FALSE /\ orderly' = orderly /\ thrown' = thrown
      BY <1>0, <1>5, <2>2 DEF Stop, Clear, Destroy, StopThen, ServerTypeOK
    <2>4. CASE m_is_listening
      <3>1. ctl' = [ctl EXCEPT ![t] = "stopping"] /\ then' = [then EXCEPT ![t] = p]
        BY <2>2, <2>4 DEF StopThen, Goto
      <3>2. OneAtATime' /\ ctl'[t] = "stopping" /\ \A s \in Controllers : s # t => ctl'[s] = "out"
        BY <1>0, <1>3, <3>1, Goes
      <3>3. ServerTypeOK'
        BY <1>0, <1>1, <2>2, <2>3, <3>1 DEF ServerTypeOK, Place
      <3>4. Up /\ Up'
        BY <2>4, <3>2 DEF Up
      <3>5. Quiet'
        BY <2>3, <3>4 DEF Quiet
      <3>6. Halfway = {} /\ \A s \in Controllers : ctl'[s] # "bind"
        BY <2>1, <3>2 DEF Halfway
      <3>7. Bound'
        BY <1>0, <1>1, <3>6 DEF Bound
      <3>8. StartedWhileUp => StartedWhileUp'
        BY <1>1, <2>3, <3>4 DEF StartedWhileUp
      <3> QED  BY <1>2, <3>2, <3>3, <3>5, <3>7, <3>8 DEF ServerInv
    <2>5. CASE ~m_is_listening
      <3>1. ctl' = [ctl EXCEPT ![t] = p] /\ then' = then
        BY <2>2, <2>5 DEF StopThen, Goto
      <3>2. OneAtATime' /\ ctl'[t] = p /\ \A s \in Controllers : s # t => ctl'[s] = "out"
        BY <1>0, <1>3, <3>1, Goes
      <3>3. ServerTypeOK'
        BY <1>0, <1>1, <2>2, <2>3, <3>1 DEF ServerTypeOK, Place
      <3>4. ~Up /\ ~Up'
        BY <2>1, <2>3, <2>5, <3>2 DEF Up
      <3>5. Quiet'
        BY <1>0, <1>1, <2>3, <3>4 DEF Quiet
      <3>6. Halfway = {} /\ \A s \in Controllers : ctl'[s] # "bind"
        BY <2>1, <3>2 DEF Halfway
      <3>7. Bound'
        BY <1>0, <1>1, <3>6 DEF Bound
      <3>8. StartedWhileUp => StartedWhileUp'
        BY <1>1, <2>3, <3>4 DEF StartedWhileUp
      <3> QED  BY <1>2, <3>2, <3>3, <3>5, <3>7, <3>8 DEF ServerInv
    <2> QED  BY <2>4, <2>5
  <1>6. CASE StopDone(t) \/ StopThrows(t)
    <2>1. PICK p \in Place \ {"bind", "stopping"} : ctl' = [ctl EXCEPT ![t] = p]
      <3>1. then[t] \in Place \ {"bind", "stopping"} /\ "out" \in Place
        BY <1>0 DEF ServerTypeOK, Place
      <3> QED  BY <1>6, <3>1 DEF StopDone, StopThrows, Goto
    <2>2. OneAtATime' /\ ctl'[t] = p /\ \A s \in Controllers : s # t => ctl'[s] = "out"
      BY <1>0, <1>3, <2>1, Goes
    <2>3. ctl[t] = "stopping" /\ then' = [then EXCEPT ![t] = "out"] /\ \A c \in Connections : conn[c] = Closed
      BY <1>6 DEF StopDone, StopThrows
    <2>4. m_is_listening' = m_is_listening /\ orderly' = orderly /\ thrown' \in {thrown, TRUE}
      BY <1>6 DEF StopDone, StopThrows
    <2>5. ServerTypeOK'
      BY <1>0, <1>1, <2>1, <2>3, <2>4 DEF ServerTypeOK, Place
    <2>6. ~m_is_listening /\ Up /\ ~Up'
      BY <1>0, <2>1, <2>2, <2>3, <2>4 DEF Quiet, Up
    <2>7. Quiet'
      BY <1>1, <2>3, <2>4, <2>6 DEF Quiet
    <2>8. Halfway = {} /\ \A s \in Controllers : ctl'[s] # "bind"
      BY <1>3, <2>2, <2>3 DEF Halfway
    <2>9. Bound'
      BY <1>0, <1>1, <2>8 DEF Bound
    <2>10. ASSUME StartedWhileUp PROVE StartedWhileUp'
      <3>1. CASE StopDone(t)
        BY <2>6, <2>10, <3>1 DEF StopDone, StartedWhileUp
      <3>2. CASE StopThrows(t)
        BY <2>6, <3>2 DEF StopThrows, StartedWhileUp
      <3> QED  BY <1>6, <3>1, <3>2
    <2> QED  BY <1>2, <2>2, <2>5, <2>7, <2>9, <2>10 DEF ServerInv
  <1> QED  BY <1>4, <1>5, <1>6

\* m_services.clear() destroys what is managed: nobody is in a service then.
LEMMA ClearServicesStep ==
    ASSUME WebServerAssumption, ServerInv, NEW t \in Controllers, ClearServices(t)
    PROVE  ServerInv' /\ (StartedWhileUp => StartedWhileUp')
  <1>0. ServerTypeOK /\ OneAtATime /\ Quiet /\ Bound /\ InService
    BY DEF ServerInv
  <1>1. ctl[t] \in {"services", "~services"} /\ \A s \in Controllers : s # t => ctl[s] = "out"
    BY <1>0, OthersOut DEF ClearServices
  <1>2. PICK p \in {"resources", "~resources"} : ctl' = [ctl EXCEPT ![t] = p]
    BY DEF ClearServices, Goto
  <1>3. OneAtATime' /\ ctl'[t] = p /\ \A s \in Controllers : s # t => ctl'[s] = "out"
    BY <1>0, <1>1, <1>2, Goes
  <1>4. ServerTypeOK'
    BY <1>0, <1>2 DEF ClearServices, ServerTypeOK, Place
  <1>5. UNCHANGED <<m_is_listening, started, conn, orderly, thrown>> /\ Managed' = {} /\ alive' = {}
    BY <1>0 DEF ClearServices, Managed, Bound
  <1>6. ~m_is_listening /\ ~Up /\ ~Up'
    BY <1>0, <1>1, <1>3, <1>5 DEF Quiet, Up
  <1>7. \A c \in Connections : conn'[c] = Closed
    BY <1>0, <1>5, <1>6 DEF Quiet
  <1>8. Quiet' /\ InService'
    BY <1>5, <1>6, <1>7 DEF Quiet, InService, Closed
  <1>9. t \in Halfway' /\ \A s \in Controllers : ctl'[s] # "bind"
    BY <1>3 DEF Halfway
  <1>10. Bound'
    BY <1>5, <1>9 DEF Bound
  <1>11. StartedWhileUp => StartedWhileUp'
    BY <1>5, <1>6 DEF StartedWhileUp
  <1> QED  BY <1>3, <1>4, <1>8, <1>10, <1>11 DEF ServerInv

\* Nothing is managed halfway through a clear().
LEMMA ClearResourcesStep ==
    ASSUME WebServerAssumption, ServerInv, NEW t \in Controllers, ClearResources(t) \/ Construct(t)
    PROVE  ServerInv' /\ (StartedWhileUp => StartedWhileUp')
  <1>0. ServerTypeOK /\ OneAtATime /\ Quiet /\ Bound /\ InService
    BY DEF ServerInv
  <1>1. ctl[t] \in {"resources", "~resources", "gone"} /\ \A s \in Controllers : s # t => ctl[s] = "out"
    BY <1>0, OthersOut DEF ClearResources, Construct
  <1>2. ~m_is_listening
    BY <1>0, <1>1 DEF Quiet
  <1>3. PICK p \in {"out", "gone"} : ctl' = [ctl EXCEPT ![t] = p]
    BY <1>2 DEF ClearResources, Construct, Goto
  <1>4. OneAtATime' /\ ctl'[t] = p /\ \A s \in Controllers : s # t => ctl'[s] = "out"
    BY <1>0, <1>1, <1>3, Goes
  <1>5. /\ UNCHANGED <<m_is_listening, m_services, made, alive, started, then, new, conn, orderly, thrown>>
        /\ m_resources' = [r \in Resources |-> NULL]
    BY <1>2 DEF ClearResources, Construct
  <1>6. ServerTypeOK'
    BY <1>0, <1>3, <1>5 DEF ServerTypeOK, Place
  <1>7. ~Up /\ ~Up'
    BY <1>1, <1>2, <1>4, <1>5 DEF Up
  <1>8. Quiet' /\ InService'
    BY <1>0, <1>2, <1>5, <1>7 DEF Quiet, InService
  <1>9. Managed' = Managed /\ \A s \in Controllers : ctl'[s] # "bind"
    BY <1>4, <1>5 DEF Managed
  <1>10. Bound'
    BY <1>0, <1>5, <1>9 DEF Bound
  <1>11. StartedWhileUp => StartedWhileUp'
    BY <1>5, <1>7 DEF StartedWhileUp
  <1> QED  BY <1>4, <1>6, <1>8, <1>10, <1>11 DEF ServerInv

\* A request is brought to a service while the server is up, when resources are bound to
\* services that exist.
LEMMA ConnectionStep ==
    ASSUME WebServerAssumption, ServerInv, NEW c \in Connections,
           Accept(c) \/ Respond(c) \/ CloseConnection(c) \/ \E r \in Resources : Request(c, r)
    PROVE  ServerInv' /\ (StartedWhileUp => StartedWhileUp')
  <1>0. ServerTypeOK /\ OneAtATime /\ Quiet /\ Bound /\ InService
    BY DEF ServerInv
  <1>1. UNCHANGED <<server, ctl, then, new>>
    BY DEF Accept, Respond, CloseConnection, Request
  <1>2. Up' = Up /\ Managed' = Managed /\ Halfway' = Halfway
    BY <1>1 DEF server, Up, Managed, Halfway
  <1>3. Up
    <2>1. CASE Accept(c)
      BY <2>1 DEF Accept, Up
    <2>2. CASE ~Accept(c)
      <3>1. conn[c] # Closed
        BY <2>2 DEF Respond, CloseConnection, Request, Closed, Waiting
      <3> QED  BY <1>0, <3>1 DEF Quiet
    <2> QED  BY <2>1, <2>2
  <1>4. PICK k \in Connection : conn' = [conn EXCEPT ![c] = k] /\ (k.at = "serving" => k.in \in alive)
    <2>1. CASE \E r \in Resources : Request(c, r)
      <3>1. PICK r \in Resources : Request(c, r)
        BY <2>1
      <3>2. Halfway = {}
        <4>1. ASSUME NEW t \in Controllers, ctl[t] \in {"resources", "~resources"} PROVE FALSE
          <5>1. ~m_is_listening /\ \A s \in Controllers : ctl[s] # "stopping"
            BY <1>0, <4>1, OthersOut DEF Quiet
          <5> QED  BY <1>3, <5>1 DEF Up
        <4> QED  BY <4>1 DEF Halfway
      <3>3. m_resources[r] \in Services /\ m_resources[r] = m_services[r] /\ m_services[r] # NULL
        BY <1>0, <3>1, <3>2 DEF Request, Bound, ServerTypeOK
      <3>4. m_resources[r] \in alive
        BY <1>0, <3>3 DEF Bound, Managed
      <3> DEFINE k == [at |-> "serving", in |-> m_resources[r]]
      <3>5. k \in Connection /\ conn' = [conn EXCEPT ![c] = k] /\ k.in \in alive
        BY <3>1, <3>3, <3>4 DEF Request, Connection
      <3> QED  BY <3>5
    <2>2. CASE Accept(c) \/ Respond(c) \/ CloseConnection(c)
      <3>1. /\ Waiting \in Connection /\ Waiting.at # "serving"
            /\ Closed \in Connection /\ Closed.at # "serving"
        BY DEF Waiting, Closed, Connection
      <3>2. conn' = [conn EXCEPT ![c] = Waiting] \/ conn' = [conn EXCEPT ![c] = Closed]
        BY <2>2 DEF Accept, Respond, CloseConnection
      <3> QED  BY <3>1, <3>2
    <2> QED  BY <2>1, <2>2
  <1>5. ServerTypeOK'
    BY <1>0, <1>1, <1>4 DEF ServerTypeOK, server
  <1>6. OneAtATime' /\ Quiet' /\ Bound'
    BY <1>0, <1>1, <1>2, <1>3 DEF OneAtATime, Quiet, Bound, server
  <1>7. InService'
    BY <1>0, <1>1, <1>4 DEF InService, ServerTypeOK, server
  <1>8. StartedWhileUp => StartedWhileUp'
    BY <1>1, <1>2 DEF StartedWhileUp, server
  <1> QED  BY <1>5, <1>6, <1>7, <1>8 DEF ServerInv

LEMMA ServerStep ==
    ASSUME WebServerAssumption, Careful, ServerInv, [ServerNext]_serverVars
    PROVE  ServerInv' /\ (StartedWhileUp => StartedWhileUp')
  <1>1. CASE UNCHANGED serverVars
    BY <1>1 DEF serverVars, ServerInv, ServerTypeOK, OneAtATime, Quiet, Up, Bound, Managed, Halfway, InService, StartedWhileUp
  <1>2. ASSUME NEW t \in Controllers, \E r \in Resources : LoadService(t, r)
        PROVE  ServerInv' /\ (StartedWhileUp => StartedWhileUp')
    BY <1>2, LoadServiceStep
  <1>3. ASSUME NEW t \in Controllers,
               Start(t) \/ StartThrows(t) \/ Stop(t) \/ StopDone(t) \/ StopThrows(t) \/ Clear(t) \/ Destroy(t)
        PROVE  ServerInv' /\ (StartedWhileUp => StartedWhileUp')
    BY <1>3, UpAndDown
  <1>4. ASSUME NEW t \in Controllers,
               AddResource(t) \/ ClearServices(t) \/ ClearResources(t) \/ Construct(t)
        PROVE  ServerInv' /\ (StartedWhileUp => StartedWhileUp')
    BY <1>4, AddResourceStep, ClearServicesStep, ClearResourcesStep
  <1>5. ASSUME NEW c \in Connections,
               Accept(c) \/ Respond(c) \/ CloseConnection(c) \/ \E r \in Resources : Request(c, r)
        PROVE  ServerInv' /\ (StartedWhileUp => StartedWhileUp')
    BY <1>5, ConnectionStep
  <1> QED  BY <1>1, <1>2, <1>3, <1>4, <1>5 DEF ServerNext

\* clear() and ~WebServer() destroy services after stop() has waited for the last
\* connection, and HTTPServer::clear() forgets their resources before anybody can listen
\* again: if controllers take turns no request is in a service that is gone, whatever
\* services throw; as long as none was loaded late, each is in one that has been started
\* and not stopped; and as long as no start() or stop() has thrown, a service that has
\* been started is stopped before it is destroyed.
THEOREM RequestsInServices ==
    ASSUME WebServerAssumption
    PROVE  ServerSpec => []ServicesInOrder
  <1> DEFINE Safe == Careful => ServerInv /\ StartedWhileUp
  <1>1. ServerInit => Safe
    BY ServerInitially
  <1>2. Safe /\ [ServerNext]_serverVars => Safe'
    BY ServerStep
  <1>3. Safe => ServicesInOrder
    <2> SUFFICES ASSUME Careful, ServerInv, StartedWhileUp
                 PROVE  ServesLiving /\ (orderly => ServesStarted) /\ (~thrown => StoppedFirst)
      BY DEF ServicesInOrder
    <2>1. ServesLiving
      BY DEF ServerInv, InService, ServesLiving, Serving
    <2>2. Serving = {} \/ Up
      BY DEF ServerInv, Quiet, Closed, Serving
    <2>3. alive = Managed
      BY DEF ServerInv, Bound
    <2> QED  BY <2>1, <2>2, <2>3 DEF StartedWhileUp, ServesStarted, ServesLiving, StoppedFirst
  <1> QED  BY <1>1, <1>2, <1>3, PTL DEF ServerSpec

-----------------------------------------------------------------------------
(* Streams, for buffers of any size and any calls, as long as a wait ends  *)
(* only with its signal: the peer receives what was written, in that       *)
(* order, each byte once, and what is read is what the peer sent, also     *)
(* after bytes were put back.                                              *)

StreamCalls ==
    {NoCall}
    \cup [op : {"flush", "direct"}, rest : Seq(Nat)]
    \cup [op : {"get", "underflow"}, want : Nat, peek : BOOLEAN, kept : 0..PUT_BACK_MAX]

\* The types of the variables, and the order of the pointers into the read buffer.
Typed ==
    /\ out \in Seq(Nat) /\ wire \in Seq(Nat) /\ written \in Nat
    /\ m_read_buf \in [0..READ_BUFFER_SIZE - 1 -> Int]
    /\ get \in [eback : Nat, gptr : Nat, egptr : Nat]
    /\ get.eback <= get.gptr /\ get.gptr <= get.egptr /\ get.egptr <= READ_BUFFER_SIZE
    /\ taken \in Int /\ fetched \in 0..MaxSent
    /\ call \in StreamCalls
    /\ asleep \in BOOLEAN /\ m_async_error \in BOOLEAN /\ broken \in BOOLEAN
    /\ m_bytes_transferred \in Nat
    /\ failed \subseteq {"write", "read"}
    /\ call.op = "underflow" /\ ~asleep /\ ~m_async_error =>
        PUT_BACK_MAX + m_bytes_transferred <= READ_BUFFER_SIZE

\* The operation a sleeping user waits for.
Awaited(isLate) ==
    IF call.op = "underflow" THEN [op |-> "read", late |-> isLate]
    ELSE [op |-> "write", bytes |-> IF call.op = "flush" THEN out ELSE call.rest, late |-> isLate]

\* The user sleeps exactly while its operation is under way.
StreamWaiting ==
    /\ asleep => /\ call.op \in {"flush", "direct", "underflow"}
                 /\ \E isLate \in BOOLEAN : ops = <<Awaited(isLate)>>
    /\ ~asleep => ops = <<>>

\* Successive bytes, the first of them behind byte number from.
Successive(s, from) == \A i \in 1..Len(s) : s[i] = from + i

\* As long as no write has failed, what is behind the bytes the peer has is in the
\* buffer, and behind that what xsputn() has still to copy.
Behind ==
    /\ call.op \notin {"flush", "direct"} =>
        /\ Successive(out, Len(wire)) /\ Len(wire) + Len(out) = written
        /\ Len(out) < WRITE_BUFFER_SIZE
    /\ call.op = "flush" /\ asleep =>
        /\ Successive(out, Len(wire)) /\ Successive(call.rest, Len(wire) + Len(out))
        /\ Len(wire) + Len(out) + Len(call.rest) = written
    /\ call.op = "flush" /\ ~asleep /\ ~m_async_error =>
        /\ m_bytes_transferred = Len(out)
        /\ Successive(call.rest, Len(wire)) /\ Len(wire) + Len(call.rest) = written
    /\ call.op = "direct" =>
        /\ out = <<>>
        /\ asleep => Successive(call.rest, Len(wire)) /\ Len(wire) + Len(call.rest) = written
        /\ ~asleep => \/ m_bytes_transferred = Len(call.rest) /\ Len(wire) = written
                      \/ m_bytes_transferred < Len(call.rest) /\ broken

\* Where a write has failed the connection is closed, and nothing is sent any more.
WriteSide ==
    /\ Successive(wire, 0)
    /\ call.op = "flush" /\ ~asleep =>
        m_bytes_transferred <= Len(out) /\ (m_async_error => broken)
    /\ "write" \in failed => broken /\ \A i \in DOMAIN ops : ops[i].late
    /\ "write" \notin failed => Behind

\* Memory from place first to before place last holds the bytes of the peer in their
\* order, byte number taken + 1 at place at.
Holds(first, last, at) ==
    \A i \in 0..READ_BUFFER_SIZE - 1 : first <= i /\ i < last => m_read_buf[i] = taken + 1 + i - at

\* What has been received is taken or in the buffer; what may be put back is in front
\* of it, until a read fails.
ReadSide ==
    /\ call.op # "underflow" =>
        /\ fetched = taken + get.egptr - get.gptr
        /\ Holds(get.gptr, get.egptr, get.gptr)
        /\ "read" \notin failed => Holds(get.eback, get.gptr, get.gptr)
    /\ call.op = "underflow" =>
        /\ get.gptr = get.egptr
        /\ "read" \notin failed => Holds(PUT_BACK_MAX - call.kept, PUT_BACK_MAX, PUT_BACK_MAX)
        /\ asleep \/ m_async_error => fetched = taken
        /\ ~asleep /\ ~m_async_error =>
            /\ fetched = taken + m_bytes_transferred
            /\ Holds(PUT_BACK_MAX, PUT_BACK_MAX + m_bytes_transferred, PUT_BACK_MAX)

StreamInv == Typed /\ StreamWaiting /\ WriteSide /\ (~UngetAfterFailure => ReadSide)

-----------------------------------------------------------------------------
(* Sequences of numbered bytes *)

\* A function on 1..n is a sequence of length n.
LEMMA Sequence ==
    ASSUME NEW S, NEW n \in Nat, NEW f \in [1..n -> S]
    PROVE  f \in Seq(S) /\ Len(f) = n
<1>1. f \in Seq(S)
  OBVIOUS
<1> QED
  BY <1>1

\* The places of a sequence.
LEMMA Places ==
    ASSUME NEW S, NEW s \in Seq(S)
    PROVE  /\ DOMAIN s = 1..Len(s) /\ Len(s) \in Nat
           /\ \A i \in 1..Len(s) : s[i] \in S
OBVIOUS

\* Sequences of the same length and the same elements are equal.
LEMMA SameSequence ==
    ASSUME NEW S, NEW s \in Seq(S), NEW t \in Seq(S), Len(s) = Len(t),
           \A i \in 1..Len(s) : s[i] = t[i]
    PROVE  s = t
OBVIOUS

\* Numbers(from, n) is the sequence of the n bytes behind byte number from.
LEMMA NumbersSuccessive ==
    ASSUME NEW from \in Nat, NEW n \in Nat
    PROVE  /\ Numbers(from, n) \in Seq(Nat) /\ Len(Numbers(from, n)) = n
           /\ Successive(Numbers(from, n), from)
<1>1. Numbers(from, n) \in [1..n -> Nat]
  BY DEF Numbers
<1>2. Numbers(from, n) \in Seq(Nat) /\ Len(Numbers(from, n)) = n
  BY <1>1, Sequence
<1> QED
  BY <1>2 DEF Numbers, Successive

\* Successive bytes from the first are Numbers(0, n).
LEMMA AllNumbers ==
    ASSUME NEW s \in Seq(Nat), NEW n \in Nat, Len(s) = n, Successive(s, 0)
    PROVE  s = Numbers(0, n)
<1>1. /\ Numbers(0, n) \in Seq(Nat) /\ Len(Numbers(0, n)) = n
      /\ Successive(Numbers(0, n), 0)
  BY NumbersSuccessive
<1>2. \A i \in 1..Len(s) : s[i] = Numbers(0, n)[i]
  BY <1>1 DEF Successive
<1> QED
  BY <1>1, <1>2, SameSequence

\* Two sequences, one behind the other.
LEMMA Together ==
    ASSUME NEW s \in Seq(Nat), NEW t \in Seq(Nat)
    PROVE  s \o t \in Seq(Nat) /\ Len(s \o t) = Len(s) + Len(t)
OBVIOUS

\* Bytes that go on where others end.
LEMMA Joined ==
    ASSUME NEW s \in Seq(Nat), NEW t \in Seq(Nat), NEW from \in Nat,
           Successive(s, from), Successive(t, from + Len(s))
    PROVE  /\ s \o t \in Seq(Nat) /\ Len(s \o t) = Len(s) + Len(t)
           /\ Successive(s \o t, from)
<1>1. s \o t \in Seq(Nat) /\ Len(s \o t) = Len(s) + Len(t)
  BY Together
<1>2. \A i \in 1..Len(s) + Len(t) : (s \o t)[i] = IF i <= Len(s) THEN s[i] ELSE t[i - Len(s)]
  OBVIOUS
<1>3. ASSUME NEW i \in 1..Len(s) + Len(t) PROVE (s \o t)[i] = from + i
  <2>1. CASE i <= Len(s)
    BY <1>2, <2>1 DEF Successive
  <2>2. CASE i > Len(s)
    <3>1. i - Len(s) \in 1..Len(t)
      BY <2>2
    <3> QED
      BY <1>2, <2>2, <3>1 DEF Successive
  <2> QED
    BY <2>1, <2>2
<1> QED
  BY <1>1, <1>3 DEF Successive

\* The first k bytes.
LEMMA Beginning ==
    ASSUME NEW s \in Seq(Nat), NEW k \in 0..Len(s)
    PROVE  /\ SubSeq(s, 1, k) \in Seq(Nat) /\ Len(SubSeq(s, 1, k)) = k
           /\ \A from \in Nat : Successive(s, from) => Successive(SubSeq(s, 1, k), from)
<1>1. SubSeq(s, 1, k) \in Seq(Nat) /\ Len(SubSeq(s, 1, k)) = k
  OBVIOUS
<1>2. \A i \in 1..k : SubSeq(s, 1, k)[i] = s[i]
  OBVIOUS
<1> QED
  BY <1>1, <1>2 DEF Successive

\* All of them.
LEMMA Whole ==
    ASSUME NEW s \in Seq(Nat)
    PROVE  SubSeq(s, 1, Len(s)) = s /\ SubSeq(s, 1, 0) = <<>>
<1>1. \A i \in 1..Len(s) : SubSeq(s, 1, Len(s))[i] = s[i]
  OBVIOUS
<1>2. SubSeq(s, 1, Len(s)) \in Seq(Nat) /\ Len(SubSeq(s, 1, Len(s))) = Len(s)
  OBVIOUS
<1>3. SubSeq(s, 1, Len(s)) = s
  BY <1>1, <1>2, SameSequence
<1>4. SubSeq(s, 1, 0) = <<>>
  OBVIOUS
<1> QED
  BY <1>3, <1>4

\* What lies behind the first k bytes.
LEMMA End ==
    ASSUME NEW s \in Seq(Nat), NEW k \in 0..Len(s), NEW from \in Nat, Successive(s, from)
    PROVE  /\ From(s, k) \in Seq(Nat) /\ Len(From(s, k)) = Len(s) - k
           /\ Successive(From(s, k), from + k)
<1>1. Len(s) - k \in Nat /\ DOMAIN s = 1..Len(s)
  OBVIOUS
<1>2. \A i \in 1..Len(s) - k : k + i \in 1..Len(s) /\ s[k + i] = from + (k + i)
  BY DEF Successive
<1>3. From(s, k) = [i \in 1..Len(s) - k |-> from + (k + i)]
  BY <1>1, <1>2 DEF From
<1>4. From(s, k) \in [1..Len(s) - k -> Nat]
  BY <1>1, <1>3
<1>5. From(s, k) \in Seq(Nat) /\ Len(From(s, k)) = Len(s) - k
  BY <1>1, <1>4, Sequence
<1> QED
  BY <1>3, <1>5 DEF Successive

\* One byte more.
LEMMA OneMore ==
    ASSUME NEW s \in Seq(Nat), NEW from \in Nat, Successive(s, from), NEW b \in Nat,
           b = from + Len(s) + 1
    PROVE  /\ Append(s, b) \in Seq(Nat) /\ Len(Append(s, b)) = Len(s) + 1
           /\ Successive(Append(s, b), from)
<1>1. Append(s, b) \in Seq(Nat) /\ Len(Append(s, b)) = Len(s) + 1
  OBVIOUS
<1>2. \A i \in 1..Len(s) + 1 : Append(s, b)[i] = IF i <= Len(s) THEN s[i] ELSE b
  OBVIOUS
<1> QED
  BY <1>1, <1>2 DEF Successive

\* Copied over an empty buffer, the bytes are the buffer.
LEMMA OverNothing ==
    ASSUME NEW rest \in Seq(Nat)
    PROVE  Overwritten(<<>>, rest) = rest
<1>1. Overwritten(<<>>, rest) = [i \in 1..Len(rest) |-> rest[i]]
  BY DEF Overwritten
<1> QED
  BY <1>1

\* Copied over any bytes, they are a sequence of bytes.
LEMMA OverSome ==
    ASSUME NEW bytes \in Seq(Nat), NEW rest \in Seq(Nat)
    PROVE  Overwritten(bytes, rest) \in Seq(Nat)
<1>1. Overwritten(bytes, rest) \in [1..Len(bytes) + Len(rest) -> Nat]
  BY DEF Overwritten
<1> QED
  BY <1>1, Sequence

-----------------------------------------------------------------------------
(* The calls *)

\* The kinds of calls, and the fields each has.
LEMMA CallFields ==
    ASSUME NEW c \in StreamCalls
    PROVE  /\ c.op \in {"none", "flush", "direct", "get", "underflow"}
           /\ c.op = "none" <=> c = NoCall
           /\ c.op \in {"flush", "direct"} => c.rest \in Seq(Nat)
           /\ c.op \in {"get", "underflow"} =>
                c.want \in Nat /\ c.peek \in BOOLEAN /\ c.kept \in 0..PUT_BACK_MAX
<1>1. CASE c = NoCall
  BY <1>1 DEF NoCall
<1>2. CASE c \in [op : {"flush", "direct"}, rest : Seq(Nat)]
  BY <1>2 DEF NoCall
<1>3. CASE c \in [op : {"get", "underflow"}, want : Nat, peek : BOOLEAN, kept : 0..PUT_BACK_MAX]
  BY <1>3 DEF NoCall
<1> QED
  BY <1>1, <1>2, <1>3 DEF StreamCalls

\* The calls of the write side.
LEMMA WriteCall ==
    ASSUME NEW o \in {"flush", "direct"}, NEW r \in Seq(Nat)
    PROVE  /\ [op |-> o, rest |-> r] \in StreamCalls
           /\ [op |-> o, rest |-> r].op = o /\ [op |-> o, rest |-> r].rest = r
BY DEF StreamCalls

\* The calls of the read side that only one field changes.
LEMMA ReadCall ==
    ASSUME NEW c \in StreamCalls, c.op \in {"get", "underflow"}
    PROVE  /\ \A o \in {"get", "underflow"} :
                /\ [c EXCEPT !.op = o] \in StreamCalls
                /\ [c EXCEPT !.op = o].op = o /\ [c EXCEPT !.op = o].kept = c.kept
           /\ \A k \in 0..PUT_BACK_MAX :
                /\ [c EXCEPT !.kept = k] \in StreamCalls
                /\ [c EXCEPT !.kept = k].op = c.op /\ [c EXCEPT !.kept = k].kept = k
           /\ \A w \in Nat :
                /\ [c EXCEPT !.want = w] \in StreamCalls
                /\ [c EXCEPT !.want = w].op = c.op
<1>1. c \in [op : {"get", "underflow"}, want : Nat, peek : BOOLEAN, kept : 0..PUT_BACK_MAX]
  BY DEF StreamCalls, NoCall
<1> QED
  BY <1>1 DEF StreamCalls

\* A user that does not sleep has nothing under way; without a call it does not sleep.
LEMMA StreamIdle ==
    ASSUME Typed, StreamWaiting
    PROVE  /\ ~asleep <=> ops = <<>>
           /\ call = NoCall => ~asleep /\ ops = <<>> /\ call.op = "none"
           /\ call.op = "get" => ~asleep /\ ops = <<>>
<1>1. asleep => ops # <<>>
  BY DEF StreamWaiting
<1>2. NoCall.op = "none"
  BY DEF NoCall
<1> QED
  BY <1>1, <1>2 DEF StreamWaiting, Typed

-----------------------------------------------------------------------------
(* One side does not disturb the other *)

\* A step of the write side leaves the read side alone.
LEMMA ReadUndisturbed ==
    ASSUME ReadSide, UNCHANGED <<Reading, fetched>>, call.op # "underflow", call'.op # "underflow",
           "read" \in failed' <=> "read" \in failed
    PROVE  ReadSide'
<1>1. /\ m_read_buf' = m_read_buf /\ get' = get /\ taken' = taken /\ fetched' = fetched
  BY DEF Reading
<1>2. \A first, last, at : Holds(first, last, at)' <=> Holds(first, last, at)
  BY <1>1 DEF Holds
<1> QED
  BY <1>1 DEF ReadSide, Holds

\* A step of the read side leaves the write side alone.
LEMMA WriteUndisturbed ==
    ASSUME WriteSide, UNCHANGED <<out, written, wire, broken>>,
           call.op \notin {"flush", "direct"}, call'.op \notin {"flush", "direct"},
           "write" \in failed' <=> "write" \in failed,
           broken => \A i \in DOMAIN ops' : ops'[i].late
    PROVE  WriteSide'
<1>1. Successive(wire, 0)' /\ \A n : Successive(out, n)' <=> Successive(out, n)
  BY DEF WriteSide, Successive
<1>2. "write" \notin failed => Behind'
  BY <1>1 DEF WriteSide, Behind, Successive
<1> QED
  BY <1>1, <1>2 DEF WriteSide

-----------------------------------------------------------------------------
(* Writing *)

\* Of a connection that had nothing under way, an operation is what Await() starts.
LEMMA AwaitStarts ==
    ASSUME ops = <<>>, NEW c, NEW operation, Await(c, operation)
    PROVE  /\ call' = c /\ asleep' = TRUE /\ m_bytes_transferred' = 0
           /\ ops' = <<[operation EXCEPT !.late = broken]>>
           /\ m_async_error' = m_async_error /\ wire' = wire /\ fetched' = fetched
           /\ broken' = broken
BY DEF Await

\* flushOutput() keeps the invariant when what it sends, and what waits behind it, is
\* all that has been written.
LEMMA FlushKeeps ==
    ASSUME StreamInv, call = NoCall, NEW r \in Seq(Nat), NEW bytes \in Seq(Nat), bytes # <<>>,
           Flush([op |-> "flush", rest |-> r], bytes),
           UNCHANGED <<Reading, failed>>, written' \in Nat,
           "write" \notin failed => /\ Successive(bytes, Len(wire))
                                    /\ Successive(r, Len(wire) + Len(bytes))
                                    /\ Len(wire) + Len(bytes) + Len(r) = written'
    PROVE  StreamInv'
<1> DEFINE c == [op |-> "flush", rest |-> r]
           operation == [op |-> "write", bytes |-> bytes, late |-> FALSE]
<1>0. Typed /\ StreamWaiting /\ WriteSide /\ (~UngetAfterFailure => ReadSide)
  BY DEF StreamInv
<1>1. ~asleep /\ ops = <<>> /\ call.op = "none"
  BY <1>0, StreamIdle
<1>2. out' = bytes /\ Await(c, operation)
  BY DEF Flush
<1>3. [operation EXCEPT !.late = broken] = [op |-> "write", bytes |-> bytes, late |-> broken]
  OBVIOUS
<1>4. /\ call' = c /\ asleep' = TRUE /\ m_bytes_transferred' = 0
      /\ ops' = <<[op |-> "write", bytes |-> bytes, late |-> broken]>>
      /\ m_async_error' = m_async_error /\ wire' = wire /\ fetched' = fetched
      /\ broken' = broken
  BY <1>1, <1>2, <1>3, AwaitStarts
<1>5. c \in StreamCalls /\ c.op = "flush" /\ c.rest = r
  BY WriteCall
<1>6. m_read_buf' = m_read_buf /\ get' = get /\ taken' = taken /\ failed' = failed
  BY DEF Reading
<1> HIDE DEF c, operation
<1>7. Typed'
  BY <1>0, <1>2, <1>4, <1>5, <1>6 DEF Typed
<1>8. StreamWaiting'
  <2>1. Awaited(broken)' = [op |-> "write", bytes |-> bytes, late |-> broken]
    BY <1>2, <1>4, <1>5 DEF Awaited
  <2>2. broken \in BOOLEAN
    BY <1>0 DEF Typed
  <2> QED
    BY <1>4, <1>5, <2>1, <2>2 DEF StreamWaiting, Awaited
<1>9. WriteSide'
  <2>1. Successive(wire, 0)'
    BY <1>0, <1>4 DEF WriteSide, Successive
  <2>2. "write" \in failed => broken' /\ \A i \in DOMAIN ops' : ops'[i].late
    BY <1>0, <1>4 DEF WriteSide
  <2>3. "write" \notin failed => Behind'
    BY <1>2, <1>4, <1>5 DEF Behind, Successive
  <2> QED
    BY <1>4, <1>5, <1>6, <2>1, <2>2, <2>3 DEF WriteSide
<1>10. ~UngetAfterFailure => ReadSide'
  BY <1>0, <1>1, <1>4, <1>5, <1>6, ReadUndisturbed
<1> QED
  BY <1>7, <1>8, <1>9, <1>10 DEF StreamInv

\* Bytes that fit are put behind those of the buffer.
LEMMA BufferKeeps ==
    ASSUME StreamInv, call = NoCall, "write" \notin failed, written' \in Nat, out' \in Seq(Nat),
           Successive(out', Len(wire)), Len(wire) + Len(out') = written',
           Len(out') < WRITE_BUFFER_SIZE,
           UNCHANGED <<Reading, failed>>, UNCHANGED <<call, asleep, async, connection>>
    PROVE  StreamInv'
<1>0. Typed /\ StreamWaiting /\ WriteSide /\ (~UngetAfterFailure => ReadSide)
  BY DEF StreamInv
<1>1. ~asleep /\ ops = <<>> /\ call.op = "none"
  BY <1>0, StreamIdle
<1>2. /\ call' = call /\ asleep' = asleep /\ m_async_error' = m_async_error
      /\ m_bytes_transferred' = m_bytes_transferred /\ ops' = ops /\ wire' = wire
      /\ fetched' = fetched /\ broken' = broken
      /\ m_read_buf' = m_read_buf /\ get' = get /\ taken' = taken /\ failed' = failed
  BY DEF Reading, async, connection
<1>3. Typed'
  BY <1>0, <1>2 DEF Typed
<1>4. StreamWaiting'
  BY <1>1, <1>2 DEF StreamWaiting
<1>5. WriteSide'
  BY <1>0, <1>1, <1>2 DEF WriteSide, Behind, Successive
<1>6. ~UngetAfterFailure => ReadSide'
  BY <1>0, <1>1, <1>2, ReadUndisturbed
<1> QED
  BY <1>3, <1>4, <1>5, <1>6 DEF StreamInv

\* What a call that may write finds in the buffer.
LEMMA RoomFor ==
    ASSUME StreamAssumption, StreamInv, MayWrite
    PROVE  /\ call = NoCall /\ "write" \notin failed
           /\ out \in Seq(Nat) /\ Len(out) \in Nat /\ wire \in Seq(Nat) /\ Len(wire) \in Nat
           /\ written \in Nat
           /\ Successive(out, Len(wire)) /\ Len(wire) + Len(out) = written
           /\ Room \in Nat /\ Len(out) + Room = WRITE_BUFFER_SIZE - 1
           /\ WRITE_BUFFER_SIZE \in Nat /\ WRITE_BUFFER_SIZE >= 2
<1>1. call = NoCall /\ "write" \notin failed
  BY DEF MayWrite
<1>2. call.op = "none"
  BY <1>1 DEF NoCall
<1>3. /\ out \in Seq(Nat) /\ wire \in Seq(Nat) /\ written \in Nat
      /\ Len(out) \in Nat /\ Len(wire) \in Nat
  BY DEF StreamInv, Typed
<1>4. /\ Successive(out, Len(wire)) /\ Len(wire) + Len(out) = written
      /\ Len(out) < WRITE_BUFFER_SIZE
  BY <1>1, <1>2 DEF StreamInv, WriteSide, Behind
<1>5. WRITE_BUFFER_SIZE \in Nat /\ WRITE_BUFFER_SIZE >= 2
  BY DEF StreamAssumption
<1> QED
  BY <1>1, <1>3, <1>4, <1>5 DEF Room

\* sputc()
LEMMA PutKeeps == ASSUME StreamAssumption, StreamInv, Put PROVE StreamInv'
<1>0. /\ MayWrite /\ written' = written + 1 /\ UNCHANGED <<Reading, failed>>
      /\ IF Room > 0
         THEN out' = Append(out, written + 1) /\ UNCHANGED <<call, asleep, async, connection>>
         ELSE Flush([op |-> "flush", rest |-> <<>>], Append(out, written + 1))
  BY DEF Put
<1> DEFINE longer == Append(out, written + 1)
<1>1. /\ call = NoCall /\ "write" \notin failed
      /\ out \in Seq(Nat) /\ Len(out) \in Nat /\ wire \in Seq(Nat) /\ Len(wire) \in Nat
      /\ written \in Nat
      /\ Successive(out, Len(wire)) /\ Len(wire) + Len(out) = written
      /\ Room \in Nat /\ Len(out) + Room = WRITE_BUFFER_SIZE - 1
      /\ WRITE_BUFFER_SIZE \in Nat
  BY <1>0, RoomFor
<1>2. longer \in Seq(Nat) /\ Len(longer) = Len(out) + 1 /\ Successive(longer, Len(wire))
  <2>1. written + 1 \in Nat /\ written + 1 = Len(wire) + Len(out) + 1
    BY <1>1
  <2> QED
    BY <1>1, <2>1, OneMore
<1> HIDE DEF longer
<1>3. CASE Room > 0
  <2>1. out' = longer /\ UNCHANGED <<call, asleep, async, connection>>
    BY <1>0, <1>3 DEF longer
  <2>2. Len(wire) + Len(out') = written' /\ Len(out') < WRITE_BUFFER_SIZE /\ written' \in Nat
    BY <1>0, <1>1, <1>2, <1>3, <2>1
  <2>3. out' \in Seq(Nat) /\ Successive(out', Len(wire))
    BY <1>2, <2>1
  <2> QED
    BY <1>0, <1>1, <2>1, <2>2, <2>3, BufferKeeps
<1>4. CASE ~(Room > 0)
  <2>1. Flush([op |-> "flush", rest |-> <<>>], longer)
    BY <1>0, <1>4 DEF longer
  <2>2. <<>> \in Seq(Nat) /\ longer # <<>> /\ written' \in Nat
    BY <1>0, <1>1, <1>2
  <2>3. /\ Successive(<<>>, Len(wire) + Len(longer))
        /\ Len(wire) + Len(longer) + Len(<<>>) = written'
    BY <1>0, <1>1, <1>2 DEF Successive
  <2> QED
    BY <1>0, <1>1, <1>2, <2>1, <2>2, <2>3, FlushKeeps
<1> QED
  BY <1>3, <1>4

\* xsputn()
LEMMA XsputnKeeps == ASSUME StreamAssumption, StreamInv, NEW n \in 1..MaxCall, xsputn(n) PROVE StreamInv'
<1> DEFINE s == Numbers(written, n)
<1>0. /\ MayWrite /\ written' = written + n /\ UNCHANGED <<Reading, failed>>
      /\ IF Room >= n
         THEN out' = out \o s /\ UNCHANGED <<call, asleep, async, connection>>
         ELSE Flush([op |-> "flush", rest |-> From(s, Room)], out \o SubSeq(s, 1, Room))
  BY DEF xsputn
<1>1. /\ call = NoCall /\ "write" \notin failed
      /\ out \in Seq(Nat) /\ Len(out) \in Nat /\ wire \in Seq(Nat) /\ Len(wire) \in Nat
      /\ written \in Nat
      /\ Successive(out, Len(wire)) /\ Len(wire) + Len(out) = written
      /\ Room \in Nat /\ Len(out) + Room = WRITE_BUFFER_SIZE - 1
      /\ WRITE_BUFFER_SIZE \in Nat /\ WRITE_BUFFER_SIZE >= 2
  BY <1>0, RoomFor
<1>2. n \in Nat /\ n >= 1
  BY DEF StreamAssumption
<1>3. s \in Seq(Nat) /\ Len(s) = n /\ Successive(s, written)
  BY <1>1, <1>2, NumbersSuccessive
<1> HIDE DEF s
<1>4. CASE Room >= n
  <2>1. out' = out \o s /\ UNCHANGED <<call, asleep, async, connection>>
    BY <1>0, <1>4
  <2>2. /\ out \o s \in Seq(Nat) /\ Len(out \o s) = Len(out) + Len(s)
        /\ Successive(out \o s, Len(wire))
    BY <1>1, <1>3, Joined
  <2>3. Len(wire) + Len(out') = written' /\ Len(out') < WRITE_BUFFER_SIZE /\ written' \in Nat
    <3>1. Len(out') = Len(out) + n /\ written' = written + n
      BY <1>0, <1>3, <2>1, <2>2
    <3>2. /\ Len(wire) \in Nat /\ Len(out) \in Nat /\ written \in Nat /\ Room \in Nat
          /\ Len(wire) + Len(out) = written /\ Len(out) + Room = WRITE_BUFFER_SIZE - 1
          /\ WRITE_BUFFER_SIZE \in Nat
      BY <1>1
    <3> QED
      BY <1>2, <1>4, <3>1, <3>2
  <2>4. out' \in Seq(Nat) /\ Successive(out', Len(wire))
    BY <2>1, <2>2
  <2> QED
    BY <1>0, <1>1, <2>1, <2>3, <2>4, BufferKeeps
<1>5. CASE ~(Room >= n)
  <2> DEFINE first == SubSeq(s, 1, Room)
             bytes == out \o first
             rest == From(s, Room)
  <2>1. Flush([op |-> "flush", rest |-> rest], bytes)
    BY <1>0, <1>5
  <2>2. Room \in 0..Len(s)
    BY <1>1, <1>2, <1>3, <1>5
  <2>3. first \in Seq(Nat) /\ Len(first) = Room /\ Successive(first, written)
    BY <1>1, <1>3, <2>2, Beginning
  <2>4. rest \in Seq(Nat) /\ Len(rest) = n - Room /\ Successive(rest, written + Room)
    BY <1>1, <1>3, <2>2, End
  <2> HIDE DEF first
  <2>5. bytes \in Seq(Nat) /\ Len(bytes) = Len(out) + Len(first) /\ Successive(bytes, Len(wire))
    BY <1>1, <2>3, Joined
  <2> HIDE DEF bytes, rest
  <2>6. bytes # <<>> /\ written' \in Nat
    BY <1>0, <1>1, <1>2, <2>3, <2>5
  <2>7. /\ Successive(rest, Len(wire) + Len(bytes))
        /\ Len(wire) + Len(bytes) + Len(rest) = written'
    <3>1. /\ Len(bytes) \in Nat /\ Len(bytes) = Len(out) + Room
          /\ Len(rest) \in Nat /\ Len(rest) = n - Room
      BY <2>3, <2>4, <2>5
    <3>2. /\ Len(wire) \in Nat /\ Len(out) \in Nat /\ written \in Nat /\ Room \in Nat
          /\ Len(wire) + Len(out) = written
      BY <1>1
    <3>3. Len(wire) + Len(bytes) = written + Room
      BY <3>1, <3>2
    <3>4. Len(wire) + Len(bytes) + Len(rest) = written + n
      BY <1>2, <3>1, <3>2
    <3> QED
      BY <1>0, <2>4, <3>3, <3>4
  <2> QED
    BY <1>0, <1>1, <2>1, <2>4, <2>5, <2>6, <2>7, FlushKeeps
<1> QED
  BY <1>4, <1>5

\* A step that is none of the stream's.
LEMMA StreamStands == ASSUME StreamInv, UNCHANGED streamVars PROVE StreamInv'
<1>1. Typed'
  BY DEF StreamInv, streamVars, buffers, async, connection, Typed
<1>2. StreamWaiting'
  BY DEF StreamInv, streamVars, buffers, async, connection, StreamWaiting, Awaited
<1>3. WriteSide'
  BY DEF StreamInv, streamVars, buffers, async, connection, WriteSide, Behind, Successive
<1>4. ReadSide' <=> ReadSide
  BY DEF streamVars, buffers, async, connection, ReadSide, Holds
<1> QED
  BY <1>1, <1>2, <1>3, <1>4 DEF StreamInv

\* sync()
LEMMA SyncKeeps == ASSUME StreamAssumption, StreamInv, sync PROVE StreamInv'
<1>0. /\ call = NoCall /\ Flush([op |-> "flush", rest |-> <<>>], out)
      /\ UNCHANGED <<written, Reading, failed>>
  BY DEF sync
<1>1. call.op = "none"
  BY <1>0 DEF NoCall
<1>2. /\ out \in Seq(Nat) /\ wire \in Seq(Nat) /\ written \in Nat
      /\ Len(out) \in Nat /\ Len(wire) \in Nat
  BY DEF StreamInv, Typed
<1>3. "write" \notin failed => /\ Successive(out, Len(wire)) /\ Len(wire) + Len(out) = written
                               /\ Len(out) < WRITE_BUFFER_SIZE
  BY <1>1 DEF StreamInv, WriteSide, Behind
<1>4. CASE out = <<>>
  <2>1. UNCHANGED streamVars
    BY <1>0, <1>4 DEF Flush, streamVars, buffers, Reading
  <2> QED
    BY <2>1, StreamStands
<1>5. CASE out # <<>>
  <2>1. /\ <<>> \in Seq(Nat) /\ written' \in Nat /\ UNCHANGED <<Reading, failed>>
    BY <1>0, <1>2
  <2>2. "write" \notin failed => /\ Successive(out, Len(wire))
                                 /\ Successive(<<>>, Len(wire) + Len(out))
                                 /\ Len(wire) + Len(out) + Len(<<>>) = written'
    BY <1>0, <1>2, <1>3 DEF Successive
  <2> QED
    BY <1>0, <1>2, <1>5, <2>1, <2>2, FlushKeeps
<1> QED
  BY <1>4, <1>5

\* Where the user is once its write is over, whatever the buffer was: nothing is under
\* way, and the bytes not sent are kept.
LEMMA AfterFlush ==
    ASSUME StreamInv, call.op = "flush", ~asleep
    PROVE  /\ ops = <<>> /\ call \in StreamCalls /\ call.rest \in Seq(Nat)
           /\ out \in Seq(Nat) /\ wire \in Seq(Nat) /\ written \in Nat
           /\ Kept \in Seq(Nat)
           /\ m_async_error => broken
           /\ "write" \notin failed /\ ~m_async_error =>
                /\ Kept = <<>>
                /\ Successive(call.rest, Len(wire)) /\ Len(wire) + Len(call.rest) = written
<1>1. /\ ops = <<>> /\ call \in StreamCalls /\ out \in Seq(Nat) /\ wire \in Seq(Nat)
      /\ written \in Nat /\ m_bytes_transferred \in Nat
  BY DEF StreamInv, StreamWaiting, Typed
<1>2. call.rest \in Seq(Nat)
  BY <1>1, CallFields
<1>3. m_bytes_transferred <= Len(out) /\ (m_async_error => broken)
  BY DEF StreamInv, WriteSide
<1>4. Kept \in Seq(Nat)
  <2>1. Len(out) - m_bytes_transferred \in 0..Len(out)
    BY <1>1, <1>3
  <2> QED
    BY <1>1, <2>1, Beginning DEF Kept
<1>5. ASSUME "write" \notin failed, ~m_async_error
      PROVE  /\ Kept = <<>>
             /\ Successive(call.rest, Len(wire)) /\ Len(wire) + Len(call.rest) = written
  <2>1. /\ m_bytes_transferred = Len(out)
        /\ Successive(call.rest, Len(wire)) /\ Len(wire) + Len(call.rest) = written
    BY <1>5 DEF StreamInv, WriteSide, Behind
  <2>2. Len(out) - m_bytes_transferred = 0
    BY <1>1, <2>1
  <2> QED
    BY <1>1, <2>1, <2>2, Whole DEF Kept
<1> QED
  BY <1>1, <1>2, <1>3, <1>4, <1>5

\* The end of a call of the write side that leaves nothing under way.
LEMMA WriteReturns ==
    ASSUME StreamInv, call.op \in {"flush", "direct"}, ~asleep, call' = NoCall, out' \in Seq(Nat),
           UNCHANGED <<written, Reading, asleep, async, connection>>,
           failed' = failed \/ (failed' = failed \cup {"write"} /\ broken),
           "write" \notin failed' =>
               /\ Successive(out', Len(wire)) /\ Len(wire) + Len(out') = written
               /\ Len(out') < WRITE_BUFFER_SIZE
    PROVE  StreamInv'
<1>0. Typed /\ StreamWaiting /\ WriteSide /\ (~UngetAfterFailure => ReadSide)
  BY DEF StreamInv
<1>1. /\ asleep' = asleep /\ m_async_error' = m_async_error /\ written' = written
      /\ m_bytes_transferred' = m_bytes_transferred /\ ops' = ops /\ wire' = wire
      /\ fetched' = fetched /\ broken' = broken
      /\ m_read_buf' = m_read_buf /\ get' = get /\ taken' = taken
  BY DEF Reading, async, connection
<1>2. call' \in StreamCalls /\ call'.op = "none"
  BY DEF NoCall, StreamCalls
<1>3. ops = <<>>
  BY <1>0 DEF StreamWaiting
<1>4. failed' \subseteq {"write", "read"} /\ ("read" \in failed' <=> "read" \in failed)
  BY <1>0 DEF Typed
<1>5. Typed'
  BY <1>0, <1>1, <1>2, <1>4 DEF Typed
<1>6. StreamWaiting'
  BY <1>1, <1>3 DEF StreamWaiting
<1>7. WriteSide'
  <2>1. Successive(wire, 0)'
    BY <1>0, <1>1 DEF WriteSide, Successive
  <2>2. "write" \in failed' => broken' /\ \A i \in DOMAIN ops' : ops'[i].late
    BY <1>0, <1>1, <1>3 DEF WriteSide
  <2>3. "write" \notin failed' => Behind'
    BY <1>1, <1>2 DEF Behind, Successive
  <2> QED
    BY <1>2, <2>1, <2>2, <2>3 DEF WriteSide
<1>8. ~UngetAfterFailure => ReadSide'
  BY <1>0, <1>1, <1>2, <1>4, ReadUndisturbed
<1> QED
  BY <1>5, <1>6, <1>7, <1>8 DEF StreamInv

\* The end of flushOutput(), and of xsputn()
LEMMA FlushedKeeps == ASSUME StreamAssumption, StreamInv, Flushed PROVE StreamInv'
<1>0. /\ call.op = "flush" /\ ~asleep /\ UNCHANGED <<written, Reading>>
  BY DEF Flushed
<1>1. /\ ops = <<>> /\ call \in StreamCalls /\ call.rest \in Seq(Nat)
      /\ out \in Seq(Nat) /\ wire \in Seq(Nat) /\ written \in Nat
      /\ Kept \in Seq(Nat)
      /\ m_async_error => broken
      /\ "write" \notin failed /\ ~m_async_error =>
           /\ Kept = <<>>
           /\ Successive(call.rest, Len(wire)) /\ Len(wire) + Len(call.rest) = written
  BY <1>0, AfterFlush
<1>2. WRITE_BUFFER_SIZE \in Nat /\ WRITE_BUFFER_SIZE >= 2
  BY DEF StreamAssumption
<1>3. CASE /\ m_async_error /\ out' = Kept /\ call' = NoCall
           /\ failed' = failed \cup {"write"} /\ UNCHANGED <<asleep, async, connection>>
  BY <1>0, <1>1, <1>3, WriteReturns
<1>4. CASE /\ ~m_async_error /\ Len(call.rest) < WRITE_BUFFER_SIZE - 1
           /\ out' = IF call.rest = <<>> THEN Kept ELSE Overwritten(Kept, call.rest)
           /\ call' = NoCall
           /\ UNCHANGED <<failed, asleep, async, connection>>
  <2>1. out' \in Seq(Nat)
    BY <1>1, <1>4, OverSome
  <2>2. ASSUME "write" \notin failed
        PROVE  /\ Successive(out', Len(wire)) /\ Len(wire) + Len(out') = written
               /\ Len(out') < WRITE_BUFFER_SIZE
    <3>1. /\ Kept = <<>>
          /\ Successive(call.rest, Len(wire)) /\ Len(wire) + Len(call.rest) = written
      BY <1>1, <1>4, <2>2
    <3>2. out' = call.rest
      BY <1>1, <1>4, <3>1, OverNothing
    <3>3. Len(call.rest) \in Nat /\ Len(call.rest) < WRITE_BUFFER_SIZE - 1
      BY <1>1, <1>4
    <3> QED
      BY <1>2, <3>1, <3>2, <3>3
  <2>3. failed' = failed /\ UNCHANGED <<asleep, async, connection>>
    BY <1>4
  <2> QED
    BY <1>0, <1>4, <2>1, <2>2, <2>3, WriteReturns
<1>5. CASE /\ ~m_async_error /\ Len(call.rest) >= WRITE_BUFFER_SIZE - 1
           /\ out' = Kept
           /\ Await([op |-> "direct", rest |-> call.rest],
                    [op |-> "write", bytes |-> call.rest, late |-> FALSE])
           /\ UNCHANGED failed
  <2> DEFINE c == [op |-> "direct", rest |-> call.rest]
  <2>1. Typed /\ WriteSide /\ (~UngetAfterFailure => ReadSide)
    BY DEF StreamInv
  <2>2. [[op |-> "write", bytes |-> call.rest, late |-> FALSE] EXCEPT !.late = broken]
          = [op |-> "write", bytes |-> call.rest, late |-> broken]
    OBVIOUS
  <2>3. /\ call' = c /\ asleep' = TRUE /\ m_bytes_transferred' = 0
        /\ ops' = <<[op |-> "write", bytes |-> call.rest, late |-> broken]>>
        /\ m_async_error' = m_async_error /\ wire' = wire /\ fetched' = fetched
        /\ broken' = broken
    BY <1>1, <1>5, <2>2, AwaitStarts
  <2>4. c \in StreamCalls /\ c.op = "direct" /\ c.rest = call.rest
    BY <1>1, WriteCall
  <2>5. /\ m_read_buf' = m_read_buf /\ get' = get /\ taken' = taken /\ failed' = failed
        /\ written' = written /\ out' = Kept
    BY <1>0, <1>5 DEF Reading
  <2> HIDE DEF c
  <2>6. Typed'
    BY <1>1, <2>1, <2>3, <2>4, <2>5 DEF Typed
  <2>7. StreamWaiting'
    <3>1. Awaited(broken)' = [op |-> "write", bytes |-> call.rest, late |-> broken]
      BY <2>3, <2>4 DEF Awaited
    <3>2. broken \in BOOLEAN
      BY <2>1 DEF Typed
    <3> QED
      BY <2>3, <2>4, <3>1, <3>2 DEF StreamWaiting, Awaited
  <2>8. WriteSide'
    <3>1. Successive(wire, 0)'
      BY <2>1, <2>3 DEF WriteSide, Successive
    <3>2. "write" \in failed' => broken' /\ \A i \in DOMAIN ops' : ops'[i].late
      BY <2>1, <2>3, <2>5 DEF WriteSide
    <3>3. "write" \notin failed' => Behind'
      BY <1>1, <1>5, <2>3, <2>4, <2>5 DEF Behind, Successive
    <3> QED
      BY <2>3, <2>4, <3>1, <3>2, <3>3 DEF WriteSide
  <2>9. ~UngetAfterFailure => ReadSide'
    BY <1>0, <2>1, <2>3, <2>4, <2>5, ReadUndisturbed
  <2> QED
    BY <2>6, <2>7, <2>8, <2>9 DEF StreamInv
<1> QED
  BY <1>3, <1>4, <1>5 DEF Flushed

\* The end of xsputn() without the buffer
LEMMA SentKeeps == ASSUME StreamAssumption, StreamInv, Sent PROVE StreamInv'
<1>0. /\ call.op = "direct" /\ ~asleep /\ call' = NoCall
      /\ failed' = IF m_bytes_transferred < Len(call.rest) THEN failed \cup {"write"} ELSE failed
      /\ UNCHANGED <<out, written, Reading, asleep, async, connection>>
  BY DEF Sent
<1>1. out' = out /\ out \in Seq(Nat) /\ WRITE_BUFFER_SIZE >= 2 /\ WRITE_BUFFER_SIZE \in Nat
  BY <1>0 DEF StreamInv, Typed, StreamAssumption
<1>2. CASE "write" \in failed
  <2>1. failed' = failed
    BY <1>0, <1>2
  <2> QED
    BY <1>0, <1>1, <1>2, <2>1, WriteReturns
<1>3. CASE "write" \notin failed
  <2>1. /\ out = <<>>
        /\ \/ m_bytes_transferred = Len(call.rest) /\ Len(wire) = written
           \/ m_bytes_transferred < Len(call.rest) /\ broken
    BY <1>0, <1>3 DEF StreamInv, WriteSide, Behind
  <2>2. wire \in Seq(Nat) /\ Len(wire) \in Nat /\ m_bytes_transferred \in Nat
    BY DEF StreamInv, Typed
  <2>3. CASE m_bytes_transferred < Len(call.rest) /\ broken
    BY <1>0, <1>1, <2>3, WriteReturns
  <2>4. CASE m_bytes_transferred = Len(call.rest) /\ Len(wire) = written
    <3>1. failed' = failed
      BY <1>0, <2>2, <2>4
    <3>2. /\ Successive(out', Len(wire)) /\ Len(wire) + Len(out') = written
          /\ Len(out') < WRITE_BUFFER_SIZE
      BY <1>1, <2>1, <2>2, <2>4 DEF Successive
    <3> QED
      BY <1>0, <1>1, <3>1, <3>2, WriteReturns
  <2> QED
    BY <2>1, <2>3, <2>4
<1> QED
  BY <1>2, <1>3

-----------------------------------------------------------------------------
(* The connection *)

\* What is over when an operation is: the one the user waits for.
LEMMA Finished ==
    ASSUME Typed, StreamWaiting, ops # <<>>
    PROVE  /\ asleep /\ call.op \in {"flush", "direct", "underflow"}
           /\ \E isLate \in BOOLEAN :
                ops = <<Awaited(isLate)>> /\ Head(ops) = Awaited(isLate) /\ Tail(ops) = <<>>
<1>1. asleep
  BY DEF StreamWaiting, Typed
<1>2. PICK isLate \in BOOLEAN : ops = <<Awaited(isLate)>>
  BY <1>1 DEF StreamWaiting
<1>3. \A x : Head(<<x>>) = x /\ Tail(<<x>>) = <<>>
  OBVIOUS
<1>4. Head(ops) = Awaited(isLate) /\ Tail(ops) = <<>>
  BY <1>2, <1>3
<1> QED
  BY <1>1, <1>2, <1>4 DEF StreamWaiting

\* A write is over.
LEMMA WrittenKeeps ==
    ASSUME StreamInv, call.op \in {"flush", "direct"}, asleep, NEW isLate \in BOOLEAN,
           ops = <<Awaited(isLate)>>, Written(Awaited(isLate)), ops' = <<>>, asleep' = FALSE,
           UNCHANGED <<out, written, get, taken, call, failed, broken>>
    PROVE  StreamInv'
<1>0. Typed /\ WriteSide /\ (~UngetAfterFailure => ReadSide)
  BY DEF StreamInv
<1> DEFINE bytes == IF call.op = "flush" THEN out ELSE call.rest
<1>1. Awaited(isLate) = [op |-> "write", bytes |-> bytes, late |-> isLate]
  BY DEF Awaited
<1>2. Awaited(isLate).bytes = bytes /\ Awaited(isLate).late = isLate
  BY <1>1
<1>3. call \in StreamCalls /\ call.rest \in Seq(Nat) /\ out \in Seq(Nat) /\ wire \in Seq(Nat)
  BY <1>0, CallFields DEF Typed
<1>4. bytes \in Seq(Nat)
  BY <1>3
<1>5. "write" \in failed => isLate
  <2>1. ops[1] = Awaited(isLate) /\ 1 \in DOMAIN ops
    OBVIOUS
  <2> QED
    BY <1>0, <1>2, <2>1 DEF WriteSide
<1>6. "write" \notin failed => Successive(bytes, Len(wire))
  BY <1>0 DEF WriteSide, Behind
<1> HIDE DEF bytes
<1>7. PICK k \in 0..Len(bytes) :
        /\ k = Len(bytes) \/ broken
        /\ isLate => k = 0
        /\ m_async_error' = (k < Len(bytes))
        /\ m_bytes_transferred' = k
        /\ wire' = wire \o SubSeq(bytes, 1, k)
        /\ m_read_buf' = m_read_buf /\ fetched' = fetched
  BY <1>2 DEF Written
<1> DEFINE sent == SubSeq(bytes, 1, k)
<1>8. /\ sent \in Seq(Nat) /\ Len(sent) = k
      /\ \A from \in Nat : Successive(bytes, from) => Successive(sent, from)
  BY <1>4, Beginning
<1>9. wire' = wire \o sent
  BY <1>7
<1> HIDE DEF sent
<1>10. wire' \in Seq(Nat) /\ Len(wire') = Len(wire) + k
  <2>1. wire \in Seq(Nat) /\ sent \in Seq(Nat) /\ Len(sent) = k
    BY <1>3, <1>8
  <2>2. wire \o sent \in Seq(Nat) /\ Len(wire \o sent) = Len(wire) + Len(sent)
    BY <2>1, Together
  <2> QED
    BY <1>9, <2>1, <2>2
<1>11. Successive(wire', 0)
  <2>1. Successive(wire, 0) /\ Len(wire) \in Nat
    BY <1>0, <1>3 DEF WriteSide
  <2>2. CASE "write" \in failed
    <3>1. Len(sent) = 0
      BY <1>5, <1>7, <1>8, <2>2
    <3>2. Successive(sent, Len(wire))
      BY <3>1 DEF Successive
    <3> QED
      BY <1>3, <1>8, <1>9, <2>1, <3>2, Joined
  <2>3. CASE "write" \notin failed
    <3>1. Successive(sent, Len(wire))
      BY <1>6, <1>8, <2>1, <2>3
    <3> QED
      BY <1>3, <1>8, <1>9, <2>1, <3>1, Joined
  <2> QED
    BY <2>2, <2>3
<1>12. k \in Nat /\ Len(bytes) \in Nat /\ Len(wire) \in Nat /\ (k < Len(bytes)) \in BOOLEAN
  BY <1>3, <1>4, <1>7
<1>13. /\ m_async_error' \in BOOLEAN /\ m_async_error' => broken
       /\ ~m_async_error' => k = Len(bytes)
       /\ m_bytes_transferred' = k /\ (k = Len(bytes) \/ (broken /\ k < Len(bytes)))
  <2>1. m_async_error' = (k < Len(bytes))
    BY <1>7
  <2>2. k < Len(bytes) \/ k = Len(bytes)
    BY <1>12, <1>7
  <2>3. (k < Len(bytes)) => k # Len(bytes)
    BY <1>12
  <2> QED
    BY <1>7, <2>1, <2>2, <2>3, Zenon
<1>14. Typed'
  BY <1>0, <1>7, <1>10, <1>12, <1>13 DEF Typed
<1>15. StreamWaiting'
  BY DEF StreamWaiting
<1>16. WriteSide'
  <2>1. "write" \in failed => broken' /\ \A i \in DOMAIN ops' : ops'[i].late
    BY <1>0 DEF WriteSide
  <2>2. (call.op = "flush") => m_bytes_transferred' <= Len(out) /\ (m_async_error' => broken)
    <3>1. m_bytes_transferred' <= Len(bytes)
      BY <1>12, <1>13
    <3> QED
      BY <1>13, <3>1 DEF bytes
  <2>3. "write" \notin failed => Behind'
    <3>1. SUFFICES ASSUME "write" \notin failed PROVE Behind'
      OBVIOUS
    <3>2. CASE call.op = "flush"
      <4>1. bytes = out
        BY <3>2 DEF bytes
      <4>2. /\ Successive(call.rest, Len(wire) + Len(out))
            /\ Len(wire) + Len(out) + Len(call.rest) = written
        BY <1>0, <3>1, <3>2 DEF WriteSide, Behind
      <4>3. ~m_async_error' => k = Len(out)
        BY <1>13, <4>1
      <4>4. ~m_async_error' => /\ m_bytes_transferred' = Len(out)
                               /\ Len(wire') = Len(wire) + Len(out)
        BY <1>10, <1>13, <4>3
      <4>5. call' = call /\ out' = out /\ written' = written
        OBVIOUS
      <4> QED
        BY <3>2, <4>2, <4>4, <4>5 DEF Behind, Successive
    <3>3. CASE call.op = "direct"
      <4>1. bytes = call.rest
        BY <3>3 DEF bytes
      <4>2. out = <<>> /\ Len(wire) + Len(call.rest) = written
        BY <1>0, <3>1, <3>3 DEF WriteSide, Behind
      <4>3. \/ m_bytes_transferred' = Len(call.rest) /\ Len(wire') = written
            \/ m_bytes_transferred' < Len(call.rest) /\ broken
        BY <1>10, <1>12, <1>13, <4>1, <4>2
      <4>4. call' = call /\ out' = out /\ written' = written /\ broken' = broken
        OBVIOUS
      <4> QED
        BY <3>3, <4>2, <4>3, <4>4 DEF Behind
    <3> QED
      BY <3>2, <3>3
  <2> QED
    BY <1>11, <2>1, <2>2, <2>3 DEF WriteSide, Successive
<1>17. ~UngetAfterFailure => ReadSide'
  BY <1>0, <1>7, ReadUndisturbed DEF Reading
<1> QED
  BY <1>14, <1>15, <1>16, <1>17 DEF StreamInv

\* A read is over.
LEMMA ReceivedKeeps ==
    ASSUME StreamAssumption, StreamInv, call.op = "underflow", asleep, Received, ops' = <<>>,
           asleep' = FALSE, UNCHANGED <<out, written, get, taken, call, failed, broken>>
    PROVE  StreamInv'
<1>0. Typed /\ WriteSide /\ (~UngetAfterFailure => ReadSide)
  BY DEF StreamInv
<1>1. /\ PUT_BACK_MAX \in Nat /\ READ_BUFFER_SIZE \in Nat /\ READ_BUFFER_SIZE > PUT_BACK_MAX
      /\ MaxSent \in Nat
  BY DEF StreamAssumption
<1>2. wire' = wire
  BY DEF Received
<1>3. /\ m_read_buf \in [0..READ_BUFFER_SIZE - 1 -> Int] /\ fetched \in 0..MaxSent
      /\ taken \in Int /\ call.kept \in 0..PUT_BACK_MAX
  BY <1>0, CallFields DEF Typed
<1>4. StreamWaiting'
  BY DEF StreamWaiting
<1>5. WriteSide'
  <2>1. UNCHANGED <<out, written, wire, broken>>
    BY <1>2
  <2>2. broken => \A i \in DOMAIN ops' : ops'[i].late
    OBVIOUS
  <2> QED
    BY <1>0, <2>1, <2>2, WriteUndisturbed
<1>6. ASSUME NEW k \in 1..Least(MaxSent - fetched, READ_BUFFER_SIZE - PUT_BACK_MAX),
             m_async_error' = FALSE, m_bytes_transferred' = k,
             m_read_buf' = [i \in DOMAIN m_read_buf |->
                              IF i \in PUT_BACK_MAX..PUT_BACK_MAX + k - 1
                              THEN fetched + 1 + i - PUT_BACK_MAX ELSE m_read_buf[i]],
             fetched' = fetched + k
      PROVE  Typed' /\ (~UngetAfterFailure => ReadSide')
  <2>1. /\ k \in Nat /\ PUT_BACK_MAX + k <= READ_BUFFER_SIZE /\ fetched + k \in 0..MaxSent
    BY <1>1, <1>3 DEF Least
  <2>2. /\ m_read_buf' \in [0..READ_BUFFER_SIZE - 1 -> Int]
        /\ \A i \in 0..READ_BUFFER_SIZE - 1 :
              m_read_buf'[i] = IF i \in PUT_BACK_MAX..PUT_BACK_MAX + k - 1
                               THEN fetched + 1 + i - PUT_BACK_MAX ELSE m_read_buf[i]
    BY <1>1, <1>3, <1>6, <2>1
  <2>3. Typed'
    BY <1>0, <1>2, <1>6, <2>1, <2>2 DEF Typed
  <2>4. ASSUME ReadSide PROVE ReadSide'
    <3>1. get.gptr = get.egptr /\ fetched = taken
      BY <2>4 DEF ReadSide
    <3>2. "read" \notin failed => Holds(PUT_BACK_MAX - call.kept, PUT_BACK_MAX, PUT_BACK_MAX)
      BY <2>4 DEF ReadSide
    <3>3. "read" \notin failed =>
            \A i \in 0..READ_BUFFER_SIZE - 1 :
                PUT_BACK_MAX - call.kept <= i /\ i < PUT_BACK_MAX
                    => m_read_buf'[i] = taken + 1 + i - PUT_BACK_MAX
      BY <1>1, <1>3, <2>2, <3>2 DEF Holds
    <3>4. \A i \in 0..READ_BUFFER_SIZE - 1 :
            PUT_BACK_MAX <= i /\ i < PUT_BACK_MAX + k
                => m_read_buf'[i] = taken + 1 + i - PUT_BACK_MAX
      BY <1>1, <1>3, <2>1, <2>2, <3>1
    <3>5. get' = get /\ taken' = taken /\ call' = call /\ failed' = failed
      OBVIOUS
    <3> QED
      BY <1>6, <2>1, <3>1, <3>3, <3>4, <3>5 DEF ReadSide, Holds
  <2> QED
    BY <1>0, <2>3, <2>4
<1>7. ASSUME broken, m_async_error' = TRUE, m_bytes_transferred' = 0,
             m_read_buf' = m_read_buf, fetched' = fetched
      PROVE  Typed' /\ (~UngetAfterFailure => ReadSide')
  <2>1. Typed'
    BY <1>0, <1>2, <1>7 DEF Typed
  <2>2. ReadSide => ReadSide'
    BY <1>7 DEF ReadSide, Holds
  <2> QED
    BY <1>0, <2>1, <2>2
<1>8. Typed' /\ (~UngetAfterFailure => ReadSide')
  BY <1>6, <1>7 DEF Received
<1> QED
  BY <1>4, <1>5, <1>8 DEF StreamInv

\* operationFinished()
LEMMA FinishedKeeps == ASSUME StreamAssumption, StreamInv, OperationFinished PROVE StreamInv'
<1>0. /\ ops # <<>>
      /\ IF Head(ops).op = "write" THEN Written(Head(ops)) ELSE Received
      /\ ops' = Tail(ops) /\ asleep' = FALSE
      /\ UNCHANGED <<out, written, get, taken, call, failed, broken>>
  BY DEF OperationFinished
<1>1. Typed /\ StreamWaiting
  BY DEF StreamInv
<1>2. asleep /\ call.op \in {"flush", "direct", "underflow"}
  BY <1>0, <1>1, Finished
<1>3. PICK isLate \in BOOLEAN :
        ops = <<Awaited(isLate)>> /\ Head(ops) = Awaited(isLate) /\ Tail(ops) = <<>>
  BY <1>0, <1>1, Finished
<1>4. CASE call.op = "underflow"
  <2>1. Awaited(isLate).op = "read"
    BY <1>4 DEF Awaited
  <2>2. Received
    BY <1>0, <1>3, <2>1
  <2> QED
    BY <1>0, <1>2, <1>3, <1>4, <2>2, ReceivedKeeps
<1>5. CASE call.op \in {"flush", "direct"}
  <2>1. Awaited(isLate).op = "write"
    BY <1>5 DEF Awaited
  <2>2. Written(Awaited(isLate))
    BY <1>0, <1>3, <2>1
  <2> QED
    BY <1>0, <1>2, <1>3, <1>5, <2>2, WrittenKeeps
<1> QED
  BY <1>2, <1>4, <1>5

\* The connection is closed.
LEMMA CloseKeeps == ASSUME StreamInv, Close PROVE StreamInv'
<1>0. Typed /\ StreamWaiting /\ WriteSide /\ (~UngetAfterFailure => ReadSide)
  BY DEF StreamInv
<1>1. /\ ~broken /\ broken' = TRUE
      /\ out' = out /\ written' = written /\ m_read_buf' = m_read_buf /\ get' = get
      /\ taken' = taken /\ call' = call /\ asleep' = asleep /\ failed' = failed
      /\ m_async_error' = m_async_error /\ m_bytes_transferred' = m_bytes_transferred
      /\ ops' = ops /\ wire' = wire /\ fetched' = fetched
  BY DEF Close, buffers, async
<1>2. Typed'
  BY <1>0, <1>1 DEF Typed
<1>3. StreamWaiting'
  BY <1>0, <1>1 DEF StreamWaiting, Awaited
<1>4. WriteSide'
  <2>1. "write" \notin failed
    BY <1>0, <1>1 DEF WriteSide
  <2>2. Behind'
    BY <1>0, <1>1, <2>1 DEF WriteSide, Behind, Successive
  <2> QED
    BY <1>0, <1>1, <2>1, <2>2 DEF WriteSide, Successive
<1>5. ReadSide => ReadSide'
  BY <1>1 DEF ReadSide, Holds
<1> QED
  BY <1>0, <1>2, <1>3, <1>4, <1>5 DEF StreamInv

-----------------------------------------------------------------------------
(* Reading *)

\* A step of the read side that starts nothing, and after which nothing is under way.
LEMMA ReadSteps ==
    ASSUME StreamInv, ~asleep, call.op \notin {"flush", "direct"}, call'.op \in {"none", "get"},
           UNCHANGED <<out, written, asleep, async, connection>>,
           "write" \in failed' <=> "write" \in failed
    PROVE  WriteSide' /\ StreamWaiting'
<1>1. ops = <<>> /\ WriteSide
  BY DEF StreamInv, StreamWaiting
<1>2. ops' = ops /\ asleep' = asleep /\ UNCHANGED <<out, written, wire, broken>>
  BY DEF connection
<1>3. WriteSide'
  BY <1>1, <1>2, WriteUndisturbed
<1>4. StreamWaiting'
  BY <1>1, <1>2 DEF StreamWaiting
<1> QED
  BY <1>3, <1>4

\* xsgetn() and sgetc() begin.
LEMMA ReadKeeps == ASSUME StreamAssumption, StreamInv, NEW n \in 0..MaxCall, Read(n) PROVE StreamInv'
<1>0. Typed /\ StreamWaiting /\ (~UngetAfterFailure => ReadSide)
  BY DEF StreamInv
<1> DEFINE c == [op |-> "get", want |-> n, peek |-> n = 0, kept |-> 0]
<1>1. /\ call = NoCall /\ call' = c
      /\ UNCHANGED <<out, written, m_read_buf, get, taken, asleep, failed, async, connection>>
  BY DEF Read
<1>2. c \in StreamCalls /\ c.op = "get"
  <2>1. (n = 0) \in BOOLEAN /\ n \in Nat /\ 0 \in 0..PUT_BACK_MAX
    BY DEF StreamAssumption
  <2> QED
    BY <2>1 DEF StreamCalls
<1> HIDE DEF c
<1>3. ~asleep /\ call.op = "none"
  BY <1>0, <1>1, StreamIdle
<1>4. /\ out' = out /\ written' = written /\ m_read_buf' = m_read_buf /\ get' = get
      /\ taken' = taken /\ asleep' = asleep /\ failed' = failed
      /\ m_async_error' = m_async_error /\ m_bytes_transferred' = m_bytes_transferred
      /\ ops' = ops /\ wire' = wire /\ fetched' = fetched /\ broken' = broken
  BY <1>1 DEF async, connection
<1>5. Typed'
  BY <1>0, <1>1, <1>2, <1>4 DEF Typed
<1>6. WriteSide' /\ StreamWaiting'
  BY <1>1, <1>2, <1>3, ReadSteps
<1>7. ReadSide => ReadSide'
  BY <1>1, <1>2, <1>3, <1>4 DEF ReadSide, Holds
<1> QED
  BY <1>0, <1>5, <1>6, <1>7 DEF StreamInv

\* A move of gptr() keeps what memory holds around it.
LEMMA Moved ==
    ASSUME Typed, NEW n \in Int, get' = [get EXCEPT !.gptr = @ + n], taken' = taken + n,
           m_read_buf' = m_read_buf, UNCHANGED fetched,
           get.eback <= get.gptr + n, get.gptr + n <= get.egptr,
           call.op # "underflow", call'.op # "underflow",
           "read" \in failed' <=> "read" \in failed
    PROVE  /\ get' \in [eback : Nat, gptr : Nat, egptr : Nat]
           /\ get'.eback <= get'.gptr /\ get'.gptr <= get'.egptr
           /\ get'.egptr <= READ_BUFFER_SIZE
           /\ (n >= 0 \/ "read" \notin failed) /\ ReadSide => ReadSide'
<1>1. /\ get \in [eback : Nat, gptr : Nat, egptr : Nat] /\ taken \in Int /\ fetched \in Int
      /\ get.egptr <= READ_BUFFER_SIZE /\ get.eback <= get.gptr /\ get.gptr <= get.egptr
  BY DEF Typed
<1>2. /\ get'.eback = get.eback /\ get'.gptr = get.gptr + n /\ get'.egptr = get.egptr
      /\ get' \in [eback : Nat, gptr : Nat, egptr : Nat]
  <2>1. get.gptr + n \in Nat /\ get.eback \in Nat /\ get.gptr \in Nat /\ get.egptr \in Nat
    BY <1>1
  <2> QED
    BY <1>1, <2>1
<1>3. ASSUME n >= 0 \/ "read" \notin failed, ReadSide PROVE ReadSide'
  <2> DEFINE l == get.gptr
             h == get.egptr
             b == get.eback
  <2>1. l \in Nat /\ h \in Nat /\ b \in Nat /\ taken \in Int
    BY <1>1
  <2>2. fetched = taken + h - l
    BY <1>3 DEF ReadSide
  <2>3. \A i \in 0..READ_BUFFER_SIZE - 1 : l <= i /\ i < h => m_read_buf[i] = taken + 1 + i - l
    BY <1>3 DEF ReadSide, Holds
  <2>4. "read" \notin failed =>
          \A i \in 0..READ_BUFFER_SIZE - 1 : b <= i /\ i < l => m_read_buf[i] = taken + 1 + i - l
    BY <1>3 DEF ReadSide, Holds
  <2> HIDE DEF l, h, b
  <2>5. fetched = (taken + n) + h - (l + n)
    BY <2>1, <2>2
  <2>6. \A i \in 0..READ_BUFFER_SIZE - 1 :
          l + n <= i /\ i < h => m_read_buf[i] = (taken + n) + 1 + i - (l + n)
    <3> SUFFICES ASSUME NEW i \in 0..READ_BUFFER_SIZE - 1, l + n <= i, i < h
                 PROVE  m_read_buf[i] = (taken + n) + 1 + i - (l + n)
      OBVIOUS
    <3>1. (taken + n) + 1 + i - (l + n) = taken + 1 + i - l /\ i \in Int
      BY <2>1
    <3>2. CASE l <= i
      BY <2>3, <3>1, <3>2
    <3>3. CASE i < l
      <4>1. "read" \notin failed /\ b <= i
        BY <1>3, <2>1, <3>1, <3>3 DEF b, l
      <4> QED
        BY <2>4, <3>1, <3>3, <4>1
    <3> QED
      BY <2>1, <3>1, <3>2, <3>3
  <2>7. "read" \notin failed =>
          \A i \in 0..READ_BUFFER_SIZE - 1 :
            b <= i /\ i < l + n => m_read_buf[i] = (taken + n) + 1 + i - (l + n)
    <3> SUFFICES ASSUME "read" \notin failed, NEW i \in 0..READ_BUFFER_SIZE - 1,
                        b <= i, i < l + n
                 PROVE  m_read_buf[i] = (taken + n) + 1 + i - (l + n)
      OBVIOUS
    <3>1. (taken + n) + 1 + i - (l + n) = taken + 1 + i - l /\ i \in Int
      BY <2>1
    <3>2. CASE l <= i
      <4>1. i < h
        BY <2>1, <3>1 DEF l, h
      <4> QED
        BY <2>3, <3>1, <3>2, <4>1
    <3>3. CASE i < l
      BY <2>4, <3>1, <3>3
    <3> QED
      BY <2>1, <3>1, <3>2, <3>3
  <2>8. get'.eback = b /\ get'.gptr = l + n /\ get'.egptr = h
    BY <1>2 DEF l, h, b
  <2> QED
    BY <2>5, <2>6, <2>7, <2>8 DEF ReadSide, Holds
<1> QED
  BY <1>1, <1>2, <1>3

\* sungetc()
LEMMA PutBackKeeps == ASSUME StreamInv, PutBack PROVE StreamInv'
<1>0. Typed /\ StreamWaiting /\ (~UngetAfterFailure => ReadSide)
  BY DEF StreamInv
<1>1. /\ call = NoCall /\ ("read" \in failed => UngetAfterFailure) /\ get.gptr > get.eback
      /\ get' = [get EXCEPT !.gptr = @ - 1] /\ taken' = taken - 1
      /\ UNCHANGED <<out, written, m_read_buf, call, asleep, failed, async, connection>>
  BY DEF PutBack
<1>2. ~asleep /\ call.op = "none"
  BY <1>0, <1>1, StreamIdle
<1>3. /\ out' = out /\ written' = written /\ m_read_buf' = m_read_buf /\ call' = call
      /\ asleep' = asleep /\ failed' = failed
      /\ m_async_error' = m_async_error /\ m_bytes_transferred' = m_bytes_transferred
      /\ ops' = ops /\ wire' = wire /\ fetched' = fetched /\ broken' = broken
  BY <1>1 DEF async, connection
<1>4. /\ get \in [eback : Nat, gptr : Nat, egptr : Nat] /\ taken \in Int
      /\ get.gptr <= get.egptr
  BY <1>0 DEF Typed
<1>5. /\ get' = [get EXCEPT !.gptr = @ + (-1)] /\ taken' = taken + (-1) /\ -1 \in Int
      /\ get.eback <= get.gptr + (-1) /\ get.gptr + (-1) <= get.egptr
  <2>1. get.gptr - 1 = get.gptr + (-1) /\ taken - 1 = taken + (-1)
    BY <1>4
  <2> QED
    BY <1>1, <1>4, <2>1
<1>6. /\ get' \in [eback : Nat, gptr : Nat, egptr : Nat]
      /\ get'.eback <= get'.gptr /\ get'.gptr <= get'.egptr /\ get'.egptr <= READ_BUFFER_SIZE
      /\ "read" \notin failed /\ ReadSide => ReadSide'
  BY <1>0, <1>2, <1>3, <1>5, Moved
<1>7. taken' \in Int
  BY <1>4, <1>5
<1>8. Typed'
  BY <1>0, <1>2, <1>3, <1>6, <1>7 DEF Typed
<1>9. WriteSide' /\ StreamWaiting'
  BY <1>1, <1>2, <1>3, ReadSteps
<1> QED
  BY <1>0, <1>1, <1>6, <1>8, <1>9 DEF StreamInv

\* A round of xsgetn() that copies bytes, and the last one of the call.
LEMMA CopyKeeps ==
    ASSUME StreamInv, call.op = "get", NEW n \in Nat, n <= get.egptr - get.gptr,
           get' = [get EXCEPT !.gptr = @ + n], taken' = taken + n,
           call' \in StreamCalls, call'.op \in {"none", "get"},
           UNCHANGED <<m_read_buf, asleep, async, connection>>, UNCHANGED <<out, written, failed>>
    PROVE  StreamInv'
<1>0. Typed /\ StreamWaiting /\ (~UngetAfterFailure => ReadSide)
  BY DEF StreamInv
<1>1. ~asleep
  BY <1>0, StreamIdle
<1>2. /\ out' = out /\ written' = written /\ m_read_buf' = m_read_buf
      /\ asleep' = asleep /\ failed' = failed
      /\ m_async_error' = m_async_error /\ m_bytes_transferred' = m_bytes_transferred
      /\ ops' = ops /\ wire' = wire /\ fetched' = fetched /\ broken' = broken
  BY DEF async, connection
<1>3. /\ get \in [eback : Nat, gptr : Nat, egptr : Nat] /\ taken \in Int
      /\ get.eback <= get.gptr /\ get.gptr <= get.egptr
  BY <1>0 DEF Typed
<1>4. n >= 0 /\ n \in Int /\ get.eback <= get.gptr + n /\ get.gptr + n <= get.egptr
  BY <1>3
<1>5. /\ get' \in [eback : Nat, gptr : Nat, egptr : Nat]
      /\ get'.eback <= get'.gptr /\ get'.gptr <= get'.egptr /\ get'.egptr <= READ_BUFFER_SIZE
      /\ ReadSide => ReadSide'
  BY <1>0, <1>2, <1>4, Moved
<1>6. taken' \in Int
  BY <1>3
<1>7. Typed'
  BY <1>0, <1>2, <1>5, <1>6 DEF Typed
<1>8. WriteSide' /\ StreamWaiting'
  BY <1>1, <1>2, ReadSteps
<1> QED
  BY <1>0, <1>5, <1>7, <1>8 DEF StreamInv

\* underflow(): the bytes to be put back are moved to where the next ones will begin.
LEMMA UnderflowKeeps ==
    ASSUME StreamAssumption, StreamInv, call.op = "get", get.gptr = get.egptr,
           Underflow([call EXCEPT !.op = "underflow"]),
           UNCHANGED <<get, taken>>, UNCHANGED <<out, written, failed>>
    PROVE  StreamInv'
<1>0. Typed /\ StreamWaiting /\ WriteSide /\ (~UngetAfterFailure => ReadSide)
  BY DEF StreamInv
<1>1. ~asleep /\ ops = <<>>
  BY <1>0, StreamIdle
<1>2. /\ PUT_BACK_MAX \in Nat /\ READ_BUFFER_SIZE \in Nat /\ READ_BUFFER_SIZE > PUT_BACK_MAX
  BY DEF StreamAssumption
<1>3. /\ get.eback \in Nat /\ get.gptr \in Nat /\ get.egptr \in Nat
      /\ get.eback <= get.gptr /\ get.gptr <= READ_BUFFER_SIZE
      /\ m_read_buf \in [0..READ_BUFFER_SIZE - 1 -> Int] /\ taken \in Int /\ fetched \in Int
      /\ broken \in BOOLEAN
  BY <1>0 DEF Typed
<1> DEFINE k == put_back_num
           waits == [call EXCEPT !.op = "underflow"]
           c == [waits EXCEPT !.kept = put_back_num]
<1>4. k \in 0..PUT_BACK_MAX /\ k <= get.gptr - get.eback
  BY <1>2, <1>3 DEF put_back_num, Least
<1>5. /\ m_read_buf' = [i \in DOMAIN m_read_buf |->
                          IF i \in PUT_BACK_MAX - k..PUT_BACK_MAX - 1
                          THEN m_read_buf[get.gptr - PUT_BACK_MAX + i] ELSE m_read_buf[i]]
      /\ Await(c, [op |-> "read", late |-> FALSE])
  BY DEF Underflow
<1>6. c \in StreamCalls /\ c.op = "underflow" /\ c.kept = k
  <2>1. call \in StreamCalls
    BY <1>0 DEF Typed
  <2>2. waits \in StreamCalls /\ waits.op = "underflow"
    BY <2>1, ReadCall
  <2> HIDE DEF waits, k
  <2>3. \A m \in 0..PUT_BACK_MAX :
            /\ [waits EXCEPT !.kept = m] \in StreamCalls
            /\ [waits EXCEPT !.kept = m].op = waits.op /\ [waits EXCEPT !.kept = m].kept = m
    BY <2>2, ReadCall
  <2> QED
    BY <1>4, <2>2, <2>3 DEF k
<1>7. [[op |-> "read", late |-> FALSE] EXCEPT !.late = broken] = [op |-> "read", late |-> broken]
  OBVIOUS
<1> HIDE DEF k, waits, c
<1>8. /\ call' = c /\ asleep' = TRUE /\ m_bytes_transferred' = 0
      /\ ops' = <<[op |-> "read", late |-> broken]>>
      /\ m_async_error' = m_async_error /\ wire' = wire /\ fetched' = fetched
      /\ broken' = broken
  BY <1>1, <1>5, <1>7, AwaitStarts
<1>9. \A i \in PUT_BACK_MAX - k..PUT_BACK_MAX - 1 :
        /\ get.gptr - PUT_BACK_MAX + i \in 0..READ_BUFFER_SIZE - 1
        /\ get.eback <= get.gptr - PUT_BACK_MAX + i
        /\ get.gptr - PUT_BACK_MAX + i < get.gptr
  <2> SUFFICES ASSUME NEW i \in PUT_BACK_MAX - k..PUT_BACK_MAX - 1
               PROVE  /\ get.gptr - PUT_BACK_MAX + i \in 0..READ_BUFFER_SIZE - 1
                      /\ get.eback <= get.gptr - PUT_BACK_MAX + i
                      /\ get.gptr - PUT_BACK_MAX + i < get.gptr
    OBVIOUS
  <2>1. k \in Nat /\ i \in Int /\ PUT_BACK_MAX - k <= i /\ i < PUT_BACK_MAX
    BY <1>2, <1>4
  <2> DEFINE j == get.gptr - PUT_BACK_MAX + i
  <2>2. j \in Int /\ get.gptr - k <= j /\ j < get.gptr
    BY <1>2, <1>3, <2>1
  <2>3. get.eback <= get.gptr - k
    BY <1>3, <1>4, <2>1
  <2> HIDE DEF j
  <2>4. get.eback <= j /\ j < READ_BUFFER_SIZE /\ 0 <= j /\ j < get.gptr
    BY <1>2, <1>3, <2>1, <2>2, <2>3
  <2> QED
    BY <1>2, <2>2, <2>4 DEF j
<1>10. /\ m_read_buf' \in [0..READ_BUFFER_SIZE - 1 -> Int]
       /\ \A i \in 0..READ_BUFFER_SIZE - 1 : i \in PUT_BACK_MAX - k..PUT_BACK_MAX - 1
             => m_read_buf'[i] = m_read_buf[get.gptr - PUT_BACK_MAX + i]
  BY <1>3, <1>5, <1>9
<1>11. Typed'
  BY <1>0, <1>6, <1>8, <1>10 DEF Typed
<1>12. StreamWaiting'
  <2>1. Awaited(broken)' = [op |-> "read", late |-> broken]
    BY <1>6, <1>8 DEF Awaited
  <2> QED
    BY <1>3, <1>6, <1>8, <2>1 DEF StreamWaiting, Awaited
<1>13. WriteSide'
  <2>1. broken => \A i \in DOMAIN ops' : ops'[i].late
    BY <1>8
  <2>2. UNCHANGED <<out, written, wire, broken>>
    BY <1>8
  <2> QED
    BY <1>0, <1>6, <1>8, <2>1, <2>2, WriteUndisturbed
<1>14. ASSUME ReadSide PROVE ReadSide'
  <2>1. /\ fetched = taken + get.egptr - get.gptr
        /\ "read" \notin failed => Holds(get.eback, get.gptr, get.gptr)
    BY <1>14 DEF ReadSide
  <2>2. fetched = taken
    BY <1>3, <2>1
  <2>3. ASSUME "read" \notin failed, NEW i \in 0..READ_BUFFER_SIZE - 1,
               PUT_BACK_MAX - k <= i, i < PUT_BACK_MAX
        PROVE  m_read_buf'[i] = taken + 1 + i - PUT_BACK_MAX
    <3> DEFINE j == get.gptr - PUT_BACK_MAX + i
    <3>1. i \in PUT_BACK_MAX - k..PUT_BACK_MAX - 1
      BY <1>2, <1>4, <2>3
    <3>2. m_read_buf'[i] = m_read_buf[j]
      BY <1>10, <3>1
    <3>3. j \in 0..READ_BUFFER_SIZE - 1 /\ get.eback <= j /\ j < get.gptr
      BY <1>9, <3>1
    <3>4. taken + 1 + j - get.gptr = taken + 1 + i - PUT_BACK_MAX
      BY <1>2, <1>3
    <3> HIDE DEF j
    <3>5. m_read_buf[j] = taken + 1 + j - get.gptr
      BY <2>1, <2>3, <3>3 DEF Holds
    <3> QED
      BY <3>2, <3>4, <3>5
  <2> QED
    BY <1>6, <1>8, <2>2, <2>3 DEF ReadSide, Holds
<1> QED
  BY <1>0, <1>11, <1>12, <1>13, <1>14 DEF StreamInv

\* A round of xsgetn()
LEMMA GetKeeps == ASSUME StreamAssumption, StreamInv, Get PROVE StreamInv'
<1> DEFINE n == Least(call.want, get.egptr - get.gptr)
           empty == get.gptr + n = get.egptr
<1>0. /\ call.op = "get" /\ ~asleep /\ UNCHANGED <<out, written, failed>>
      /\ IF n < call.want \/ (call.peek /\ empty)
         THEN IF n > 0
              THEN /\ get' = [get EXCEPT !.gptr = @ + n]
                   /\ taken' = taken + n
                   /\ call' = [call EXCEPT !.want = @ - n]
                   /\ UNCHANGED <<m_read_buf, asleep, async, connection>>
              ELSE /\ Underflow([call EXCEPT !.op = "underflow"])
                   /\ UNCHANGED <<get, taken>>
         ELSE /\ get' = [get EXCEPT !.gptr = @ + n]
              /\ taken' = taken + n
              /\ call' = NoCall
              /\ UNCHANGED <<m_read_buf, asleep, async, connection>>
  BY DEF Get
<1>1. /\ call \in StreamCalls /\ get.gptr \in Nat /\ get.egptr \in Nat /\ get.gptr <= get.egptr
  BY DEF StreamInv, Typed
<1>2. call.want \in Nat
  BY <1>0, <1>1, CallFields
<1>3. /\ n \in Nat /\ n <= call.want /\ n <= get.egptr - get.gptr
      /\ n = call.want \/ n = get.egptr - get.gptr
  BY <1>1, <1>2 DEF Least
<1> HIDE DEF n
<1>4. CASE /\ n < call.want \/ (call.peek /\ empty)
           /\ n > 0
  <2>1. call' = [call EXCEPT !.want = call.want - n]
    BY <1>0, <1>4
  <2>2. call.want - n \in Nat
    BY <1>2, <1>3
  <2>3. call' \in StreamCalls /\ call'.op = "get"
    BY <1>0, <1>1, <2>1, <2>2, ReadCall
  <2>4. /\ get' = [get EXCEPT !.gptr = @ + n] /\ taken' = taken + n
        /\ UNCHANGED <<m_read_buf, asleep, async, connection>>
    BY <1>0, <1>4
  <2> QED
    BY <1>0, <1>3, <2>3, <2>4, CopyKeeps
<1>5. CASE /\ n < call.want \/ (call.peek /\ empty)
           /\ ~(n > 0)
  <2>1. get.gptr = get.egptr
    BY <1>1, <1>2, <1>3, <1>5
  <2>2. Underflow([call EXCEPT !.op = "underflow"]) /\ UNCHANGED <<get, taken>>
    BY <1>0, <1>5
  <2> QED
    BY <1>0, <2>1, <2>2, UnderflowKeeps
<1>6. CASE ~(n < call.want \/ (call.peek /\ empty))
  <2>1. NoCall \in StreamCalls /\ NoCall.op = "none"
    BY DEF StreamCalls, NoCall
  <2>2. /\ get' = [get EXCEPT !.gptr = @ + n] /\ taken' = taken + n /\ call' = NoCall
        /\ UNCHANGED <<m_read_buf, asleep, async, connection>>
    BY <1>0, <1>6
  <2> QED
    BY <1>0, <1>3, <2>1, <2>2, CopyKeeps
<1> QED
  BY <1>4, <1>5, <1>6

\* The end of underflow()
LEMMA UnderflownKeeps == ASSUME StreamAssumption, StreamInv, Underflown PROVE StreamInv'
<1>0. Typed /\ StreamWaiting /\ (~UngetAfterFailure => ReadSide)
  BY DEF StreamInv
<1>1. /\ call.op = "underflow" /\ ~asleep
      /\ IF m_async_error
         THEN call' = NoCall /\ failed' = failed \cup {"read"} /\ UNCHANGED get
         ELSE /\ call' = [call EXCEPT !.op = "get"]
              /\ get' = [eback |-> PUT_BACK_MAX - call.kept,
                         gptr |-> PUT_BACK_MAX,
                         egptr |-> PUT_BACK_MAX + m_bytes_transferred]
              /\ UNCHANGED failed
      /\ UNCHANGED <<out, written, m_read_buf, taken, asleep, async, connection>>
  BY DEF Underflown
<1>2. /\ out' = out /\ written' = written /\ m_read_buf' = m_read_buf /\ taken' = taken
      /\ asleep' = asleep
      /\ m_async_error' = m_async_error /\ m_bytes_transferred' = m_bytes_transferred
      /\ ops' = ops /\ wire' = wire /\ fetched' = fetched /\ broken' = broken
  BY <1>1 DEF async, connection
<1>3. PUT_BACK_MAX \in Nat /\ READ_BUFFER_SIZE \in Nat /\ m_bytes_transferred \in Nat
  BY <1>0 DEF StreamAssumption, Typed
<1>4. CASE m_async_error
  <2>1. call' = NoCall /\ failed' = failed \cup {"read"} /\ get' = get
    BY <1>1, <1>4
  <2>2. call' \in StreamCalls /\ call'.op = "none"
    BY <2>1 DEF StreamCalls, NoCall
  <2>3. Typed'
    BY <1>0, <1>2, <2>1, <2>2 DEF Typed
  <2>4. WriteSide' /\ StreamWaiting'
    <3>1. "write" \in failed' <=> "write" \in failed
      BY <2>1
    <3> QED
      BY <1>1, <2>2, <3>1, ReadSteps
  <2>5. ASSUME ReadSide PROVE ReadSide'
    <3>1. get.gptr = get.egptr /\ fetched = taken
      BY <1>1, <1>4, <2>5 DEF ReadSide
    <3>2. get.gptr \in Nat /\ get.egptr \in Nat /\ taken \in Int
      BY <1>0 DEF Typed
    <3>3. fetched = taken + get.egptr - get.gptr
      BY <3>1, <3>2
    <3>4. \A i \in 0..READ_BUFFER_SIZE - 1 : ~(get.gptr <= i /\ i < get.egptr)
      BY <1>3, <3>1, <3>2
    <3>5. "read" \in failed'
      BY <2>1
    <3> QED
      BY <1>2, <2>1, <2>2, <3>3, <3>4, <3>5 DEF ReadSide, Holds
  <2> QED
    BY <1>0, <2>3, <2>4, <2>5 DEF StreamInv
<1>5. CASE ~m_async_error
  <2> DEFINE b == PUT_BACK_MAX - call.kept
             h == PUT_BACK_MAX + m_bytes_transferred
  <2>1. /\ call' = [call EXCEPT !.op = "get"] /\ failed' = failed
        /\ get' = [eback |-> b, gptr |-> PUT_BACK_MAX, egptr |-> h]
    BY <1>1, <1>5
  <2>2. call \in StreamCalls
    BY <1>0 DEF Typed
  <2>3. call' \in StreamCalls /\ call'.op = "get" /\ call.kept \in 0..PUT_BACK_MAX
    BY <1>1, <2>1, <2>2, ReadCall, CallFields
  <2>4. h <= READ_BUFFER_SIZE
    BY <1>0, <1>1, <1>5 DEF Typed
  <2>5. b \in Nat /\ h \in Nat /\ b <= PUT_BACK_MAX /\ PUT_BACK_MAX <= h
    BY <1>3, <2>3
  <2>6. Typed'
    <3> HIDE DEF b, h
    <3>1. /\ get' \in [eback : Nat, gptr : Nat, egptr : Nat]
          /\ get'.eback <= get'.gptr /\ get'.gptr <= get'.egptr
          /\ get'.egptr <= READ_BUFFER_SIZE
      BY <1>3, <2>1, <2>4, <2>5
    <3> QED
      BY <1>0, <1>2, <2>1, <2>3, <3>1 DEF Typed
  <2>7. WriteSide' /\ StreamWaiting'
    BY <1>1, <2>1, <2>3, ReadSteps
  <2>8. ASSUME ReadSide PROVE ReadSide'
    <3>1. /\ "read" \notin failed => Holds(b, PUT_BACK_MAX, PUT_BACK_MAX)
          /\ fetched = taken + m_bytes_transferred
          /\ Holds(PUT_BACK_MAX, h, PUT_BACK_MAX)
      BY <1>1, <1>5, <2>8 DEF ReadSide
    <3>2. taken \in Int
      BY <1>0 DEF Typed
    <3>3. fetched = taken + h - PUT_BACK_MAX
      BY <1>3, <3>1, <3>2
    <3> HIDE DEF b, h
    <3>4. get'.eback = b /\ get'.gptr = PUT_BACK_MAX /\ get'.egptr = h
      BY <2>1
    <3> QED
      BY <1>2, <2>1, <2>3, <3>1, <3>3, <3>4 DEF ReadSide, Holds
  <2> QED
    BY <1>0, <2>6, <2>7, <2>8 DEF StreamInv
<1> QED
  BY <1>4, <1>5

-----------------------------------------------------------------------------
(* The theorems *)

\* The stream set up on an open connection satisfies the invariant.
LEMMA StreamInitially == ASSUME StreamAssumption, StreamInit PROVE StreamInv
<1>1. call \in StreamCalls /\ call.op = "none"
  BY DEF StreamInit, NoCall, StreamCalls
<1>2. /\ out = <<>> /\ written = 0 /\ wire = <<>> /\ taken = 0 /\ fetched = 0 /\ ops = <<>>
      /\ asleep = FALSE /\ m_async_error = FALSE /\ m_bytes_transferred = 0 /\ broken = FALSE
      /\ failed = {} /\ m_read_buf = [i \in 0..READ_BUFFER_SIZE - 1 |-> 0]
      /\ get = [eback |-> PUT_BACK_MAX, gptr |-> PUT_BACK_MAX, egptr |-> PUT_BACK_MAX]
  BY DEF StreamInit
<1>3. Typed
  <2>1. get.egptr <= READ_BUFFER_SIZE
    BY <1>2 DEF StreamAssumption
  <2> QED
    BY <1>1, <1>2, <2>1 DEF Typed, StreamAssumption
<1>4. StreamWaiting
  BY <1>2 DEF StreamWaiting
<1>5. WriteSide
  BY <1>1, <1>2 DEF WriteSide, Behind, Successive, StreamAssumption
<1>6. ReadSide
  BY <1>1, <1>2 DEF ReadSide, Holds, StreamAssumption
<1> QED
  BY <1>3, <1>4, <1>5, <1>6 DEF StreamInv

\* Every step keeps the invariant, as long as no wait ends without its signal.
LEMMA StreamStep ==
    ASSUME StreamAssumption, ~Spurious, StreamInv, [StreamNext]_streamVars PROVE StreamInv'
<1>1. CASE Put
  BY <1>1, PutKeeps
<1>2. CASE sync
  BY <1>2, SyncKeeps
<1>3. CASE Flushed
  BY <1>3, FlushedKeeps
<1>4. CASE Sent
  BY <1>4, SentKeeps
<1>5. CASE \E n \in 1..MaxCall : xsputn(n)
  BY <1>5, XsputnKeeps
<1>6. CASE \E n \in 0..MaxCall : Read(n)
  BY <1>6, ReadKeeps
<1>7. CASE Get
  BY <1>7, GetKeeps
<1>8. CASE Underflown
  BY <1>8, UnderflownKeeps
<1>9. CASE PutBack
  BY <1>9, PutBackKeeps
<1>10. CASE OperationFinished
  BY <1>10, FinishedKeeps
<1>11. CASE Close
  BY <1>11, CloseKeeps
<1>12. CASE WakeUp
  BY <1>12 DEF WakeUp
<1>13. CASE UNCHANGED streamVars
  BY <1>13, StreamStands
<1> QED
  BY <1>1, <1>2, <1>3, <1>4, <1>5, <1>6, <1>7, <1>8, <1>9, <1>10, <1>11, <1>12, <1>13
     DEF StreamNext

\* The invariant holds in every behaviour in which a wait ends only with its signal.
LEMMA StreamInvariance == ASSUME StreamAssumption, ~Spurious PROVE StreamSpec => []StreamInv
<1>1. StreamInit => StreamInv
  BY StreamInitially
<1>2. StreamInv /\ [StreamNext]_streamVars => StreamInv'
  BY StreamStep
<1> QED
  BY <1>1, <1>2, PTL DEF StreamSpec

\* What the peer has is the beginning of what was written.
LEMMA Prefix == ASSUME StreamInv PROVE PeerGetsPrefix
<1>1. wire \in Seq(Nat) /\ Successive(wire, 0)
  BY DEF StreamInv, Typed, WriteSide
<1> QED
  BY <1>1 DEF PeerGetsPrefix, Successive

\* Together with the buffer it is all that was written.
LEMMA Whereabouts == ASSUME StreamInv PROVE NothingLost
<1> SUFFICES ASSUME call = NoCall, "write" \notin failed PROVE wire \o out = Numbers(0, written)
  BY DEF NothingLost
<1>1. call.op = "none"
  BY DEF NoCall
<1>2. /\ wire \in Seq(Nat) /\ out \in Seq(Nat) /\ written \in Nat /\ Len(wire) \in Nat
      /\ Successive(wire, 0)
  BY DEF StreamInv, Typed, WriteSide
<1>3. Successive(out, Len(wire)) /\ Len(wire) + Len(out) = written
  BY <1>1 DEF StreamInv, WriteSide, Behind
<1>4. 0 + Len(wire) = Len(wire) /\ 0 \in Nat
  BY <1>2
<1>5. /\ wire \o out \in Seq(Nat) /\ Len(wire \o out) = Len(wire) + Len(out)
      /\ Successive(wire \o out, 0)
  BY <1>2, <1>3, <1>4, Joined
<1> QED
  BY <1>2, <1>3, <1>5, AllNumbers

\* Memory around gptr() is what the peer sent.
LEMMA InOrder == ASSUME StreamAssumption, ~UngetAfterFailure, StreamInv PROVE ReadsInOrder
<1> SUFFICES ASSUME call = NoCall, NEW i \in get.eback..get.egptr - 1,
                    "read" \notin failed \/ i >= get.gptr
             PROVE  m_read_buf[i] = taken + 1 + i - get.gptr
  BY DEF ReadsInOrder
<1>1. call.op = "none"
  BY DEF NoCall
<1>2. /\ Holds(get.gptr, get.egptr, get.gptr)
      /\ "read" \notin failed => Holds(get.eback, get.gptr, get.gptr)
  BY <1>1 DEF StreamInv, ReadSide
<1>3. /\ get.eback \in Nat /\ get.gptr \in Nat /\ get.egptr \in Nat
      /\ get.egptr <= READ_BUFFER_SIZE /\ READ_BUFFER_SIZE \in Nat
  BY DEF StreamInv, Typed, StreamAssumption
<1>4. /\ i \in 0..READ_BUFFER_SIZE - 1 /\ get.eback <= i /\ i < get.egptr
      /\ get.gptr <= i \/ i < get.gptr
  BY <1>3
<1> QED
  BY <1>2, <1>3, <1>4 DEF Holds

\* What the peer receives is what was written, in that order, each byte once, and as long
\* as no write has failed nothing is lost when a call returns: for buffers of any size, any
\* calls, and a connection that may break at any time, whatever is put back.
THEOREM WritesArrive ==
    ASSUME StreamAssumption, ~Spurious
    PROVE  StreamSpec => [](PeerGetsPrefix /\ NothingLost)
<1>1. StreamInv => PeerGetsPrefix /\ NothingLost
  BY Prefix, Whereabouts
<1> QED
  BY <1>1, StreamInvariance, PTL

\* Where nothing is put back after a failed read, what is read, also after bytes were put
\* back, is what the peer sent as well.
THEOREM StreamsKeepOrder ==
    ASSUME StreamAssumption, ~Spurious, ~UngetAfterFailure
    PROVE  StreamSpec => []StreamsInOrder
<1>1. StreamInv => StreamsInOrder
  BY Prefix, Whereabouts, InOrder DEF StreamsInOrder
<1> QED
  BY <1>1, StreamInvariance, PTL

=============================================================================
