------------------------------ MODULE HTTPAuth ------------------------------
(***************************************************************************)
(* The authentication a server may be given (net/src/HTTPAuth.cpp,         *)
(* HTTPBasicAuth.cpp, HTTPCookieAuth.cpp, PionUser.hpp): a user manager,   *)
(* the lists of AuthResources, and a cache from credentials (basic) or     *)
(* session cookies (cookie) to users, entries of which expire when they    *)
(* are not used.                                                           *)
(*                                                                         *)
(* handleRequest() runs in several threads of the pool at once.  It reads  *)
(* the clock once and then takes the lock of the cache twice, to clean up  *)
(* and to look up; a login reads the clock and then takes the lock to      *)
(* insert its session; each of these is a step.  Passwords and cookies are     *)
(* members of small sets, a drawn cookie one that nobody has yet.          *)
(***************************************************************************)
EXTENDS AuthResources

CONSTANTS
    Requests,    \* the requests handled at the same time
    Users, Passwords, Cookies,
    Scheme,      \* "basic" or "cookie"
    Login, Logout, Redirect,   \* the paths of the cookie scheme
    NoRedirect,  \* m_redirect is empty
    Expiration,  \* CACHE_EXPIRATION
    Changing,    \* users and lists change while requests are handled, or are set up before
    RacyRandom,  \* m_random_die, used without a lock, may give two threads the same bytes
    MaxTime,     \* bound: the clock
    MaxDelay,    \* bound: how long a request is held up between the clock and the cache
    None

VARIABLES
    m_users,       \* the password of each user that is defined
    m_user_cache,  \* [time, user] of each key that is cached
    m_cache_cleanup_time,
    now,
    pc,
    request,       \* the path and the key (or the user and password) of each request
    time_now,
    user,          \* the user a request has been given
    answer,
    cookie,        \* the cookie drawn for a login
    given,         \* the cookies that have been sent to users
    ended,         \* the cookies whose logout has been answered
    late,          \* a request that arrived with a cookie after its logout was answered
    lastUsed       \* when each key was last let in

vars == <<lists, m_users, m_user_cache, m_cache_cleanup_time, now, pc, request, time_now, user, answer,
          cookie, given, ended, late, lastUsed>>
history == <<given, ended, late, lastUsed>>
config == <<lists, m_users>>

Credentials == Users \X Passwords
Keys == IF Scheme = "basic" THEN Credentials ELSE Cookies
Entry == [time : Nat, user : Users]
Drawn == {cookie[r] : r \in Requests} \cup {g[1] : g \in given} \cup ended

\* None is no user, no key and no entry, and the times are whole seconds.
AuthAssumption ==
    /\ None \notin Users
    /\ None \notin Keys
    /\ None \notin Entry
    /\ None \notin {"pass", "204", "302", "401"}
    /\ Expiration \in Nat
    /\ MaxDelay \in Nat

Init ==
    /\ IF Changing
       THEN /\ ResourcesInit
            /\ m_users = [u \in Users |-> None]
       ELSE /\ m_restrict_list = {stripTrailingSlash(path) : path \in Paths}
            /\ m_white_list = {}
            /\ m_users = [u \in Users |-> CHOOSE p \in Passwords : TRUE]
    /\ m_user_cache = [k \in Keys |-> None]
    /\ m_cache_cleanup_time = 0
    /\ now = 0
    /\ pc = [r \in Requests |-> "out"]
    /\ request = [r \in Requests |-> None]
    /\ time_now = [r \in Requests |-> 0]
    /\ user = [r \in Requests |-> None]
    /\ answer = [r \in Requests |-> None]
    /\ cookie = [r \in Requests |-> None]
    /\ given = {}
    /\ ended = {}
    /\ late = [r \in Requests |-> FALSE]
    /\ lastUsed = [k \in Keys |-> 0]

Tick ==
    /\ now < MaxTime
    /\ \A r \in Requests : pc[r] \in {"expire", "lookup", "insert"} => now - time_now[r] < MaxDelay
    /\ now' = now + 1
    /\ UNCHANGED <<config, m_user_cache, m_cache_cleanup_time, pc, request, time_now, user, answer,
                   cookie, history>>

-----------------------------------------------------------------------------
(* PionUserManager, addRestrict() and addPermit() *)

Admin == UNCHANGED <<m_user_cache, m_cache_cleanup_time, now, pc, request, time_now, user, answer,
                     cookie, history>>

AddUser(u, p) ==
    /\ m_users[u] = None
    /\ m_users' = [m_users EXCEPT ![u] = p]
    /\ UNCHANGED lists
    /\ Admin

UpdateUser(u, p) ==
    /\ m_users[u] # None
    /\ m_users' = [m_users EXCEPT ![u] = p]
    /\ UNCHANGED lists
    /\ Admin

RemoveUser(u) ==
    /\ m_users[u] # None
    /\ m_users' = [m_users EXCEPT ![u] = None]
    /\ UNCHANGED lists
    /\ Admin

Configure(path) ==
    /\ AddRestrict(path) \/ AddPermit(path)
    /\ UNCHANGED m_users
    /\ Admin

getUser(u, p) == IF m_users[u] = p THEN u ELSE None

-----------------------------------------------------------------------------
(* handleRequest() *)

Answer(r, a) ==
    /\ answer' = [answer EXCEPT ![r] = a]
    /\ pc' = [pc EXCEPT ![r] = "done"]

Unauthorized == IF Scheme = "cookie" /\ ~NoRedirect THEN "302" ELSE "401"

\* A new request: a path with credentials or a cookie, or with none of these.
\* There are logins as long as the bounded set has cookies left for them.
Arrive(r) ==
    /\ pc[r] = "out"
    /\ \E path \in Paths, key \in Keys \cup {None} : request' = [request EXCEPT ![r] = [path |-> path, key |-> key]]
    /\ LET key == request'[r].key
       IN /\ Scheme = "cookie" => key \in {None} \cup {g[1] : g \in given}
          /\ late' = [late EXCEPT ![r] = key \in ended]
    /\ pc' = [pc EXCEPT ![r] = IF Scheme = "cookie" THEN "processLogin" ELSE "need"]
    /\ Cardinality({q \in Requests : pc'[q] \in {"processLogin", "draw"}
                                     /\ stripTrailingSlash(request'[q].path) = Login})
            <= Cardinality(Cookies \ Drawn)
    /\ UNCHANGED <<config, m_user_cache, m_cache_cleanup_time, now, time_now, user, answer, cookie, given,
                   ended, lastUsed>>

Resource(r) == stripTrailingSlash(request[r].path)

\* processLogin(): a login with a user and a password.
ProcessLogin(r) ==
    /\ pc[r] = "processLogin"
    /\ Resource(r) = Login
    /\ \E u \in Users, p \in Passwords :
        IF getUser(u, p) = None
        THEN Answer(r, Unauthorized) /\ UNCHANGED user
        ELSE /\ user' = [user EXCEPT ![r] = u]
             /\ pc' = [pc EXCEPT ![r] = "draw"]
             /\ UNCHANGED answer
    /\ UNCHANGED <<config, m_user_cache, m_cache_cleanup_time, now, request, time_now, cookie, history>>

\* The random bytes, and the clock for the session's entry.  The generator has no
\* lock: threads that use it at the same time may read the same state.
DrawCookie(r) ==
    /\ pc[r] = "draw"
    /\ \E k \in Cookies :
        /\ \/ k \notin Drawn /\ k = CHOOSE c \in Cookies : c \notin Drawn
           \/ RacyRandom /\ \E q \in Requests \ {r} : pc[q] = "insert" /\ cookie[q] = k
        /\ cookie' = [cookie EXCEPT ![r] = k]
    /\ time_now' = [time_now EXCEPT ![r] = now]
    /\ pc' = [pc EXCEPT ![r] = "insert"]
    /\ UNCHANGED <<config, m_user_cache, m_cache_cleanup_time, now, request, user, answer, history>>

\* std::map::insert() leaves an entry that is there alone.
Inserted(k, time, u) ==
    IF m_user_cache[k] = None
    THEN [m_user_cache EXCEPT ![k] = [time |-> time, user |-> u]] ELSE m_user_cache

InsertSession(r) ==
    /\ pc[r] = "insert"
    /\ m_user_cache' = Inserted(cookie[r], time_now[r], user[r])
    /\ lastUsed' = [lastUsed EXCEPT ![cookie[r]] = now]
    /\ given' = given \cup {<<cookie[r], user[r]>>}
    /\ user' = [user EXCEPT ![r] = None]
    /\ \/ Answer(r, "204")
       \/ Answer(r, "302")
    /\ UNCHANGED <<config, m_cache_cleanup_time, now, request, time_now, cookie, ended, late>>

\* Mutant: the session stays.
ProcessLogoutOnly(r) ==
    /\ pc[r] = "processLogin"
    /\ Resource(r) = Logout
    /\ ended' = IF request[r].key = None THEN ended ELSE ended \cup {request[r].key}
    /\ Answer(r, "204")
    /\ UNCHANGED <<config, m_user_cache, m_cache_cleanup_time, now, request, time_now, user, cookie, given,
                   late, lastUsed>>

\* processLogin(): a logout.
ProcessLogout(r) ==
    /\ pc[r] = "processLogin"
    /\ Resource(r) = Logout
    /\ LET k == request[r].key
       IN IF k = None THEN UNCHANGED <<m_user_cache, ended>>
          ELSE /\ m_user_cache' = [m_user_cache EXCEPT ![k] = None]
               /\ ended' = ended \cup {k}
    /\ \/ Answer(r, "204")
       \/ Answer(r, "302")
    /\ UNCHANGED <<config, m_cache_cleanup_time, now, request, time_now, user, cookie, given, late, lastUsed>>

NoLogin(r) ==
    /\ pc[r] = "processLogin"
    /\ Resource(r) \notin {Login, Logout}
    /\ pc' = [pc EXCEPT ![r] = "need"]
    /\ UNCHANGED <<config, m_user_cache, m_cache_cleanup_time, now, request, time_now, user, answer, cookie,
                   history>>

needAuthentication(r) ==
    /\ \E u \in Users : m_users[u] # None
    /\ isRestricted(request[r].path)
    /\ ~(Scheme = "cookie" /\ ~NoRedirect /\ request[r].path = Redirect)

\* The request passes, or the clock is read and the cleanup decided on.
NeedAuthentication(r) ==
    /\ pc[r] = "need"
    /\ IF needAuthentication(r)
       THEN /\ time_now' = [time_now EXCEPT ![r] = now]
            /\ pc' = [pc EXCEPT ![r] = IF now > m_cache_cleanup_time + Expiration
                                       THEN "expire" ELSE "lookup"]
            /\ UNCHANGED answer
       ELSE Answer(r, "pass") /\ UNCHANGED time_now
    /\ UNCHANGED <<config, m_user_cache, m_cache_cleanup_time, now, request, user, cookie, history>>

\* Mutant: an entry is dropped in the last second of its time.
ExpiredAt(time, k) == m_user_cache[k] # None /\ time >= m_user_cache[k].time + Expiration

Expired(time, k) == m_user_cache[k] # None /\ time > m_user_cache[k].time + Expiration

\* expireCache()
ExpireCache(r) ==
    /\ pc[r] = "expire"
    /\ m_user_cache' = [k \in Keys |-> IF Expired(time_now[r], k) THEN None ELSE m_user_cache[k]]
    /\ m_cache_cleanup_time' = time_now[r]
    /\ pc' = [pc EXCEPT ![r] = "lookup"]
    /\ UNCHANGED <<config, now, request, time_now, user, answer, cookie, history>>

\* A key that is cached is let in, and its time set to the request's.
LetIn(r, k, u) ==
    /\ user' = [user EXCEPT ![r] = u]
    /\ lastUsed' = [lastUsed EXCEPT ![k] = now]
    /\ Answer(r, "pass")

Found(r) ==
    LET k == request[r].key
    IN /\ k # None
       /\ m_user_cache[k] # None
       /\ m_user_cache' = [m_user_cache EXCEPT ![k].time = time_now[r]]
       /\ LetIn(r, k, m_user_cache[k].user)

\* Basic credentials that are not cached are matched with the users.
Matched(r) ==
    LET k == request[r].key
    IN /\ Scheme = "basic"
       /\ k # None
       /\ m_user_cache[k] = None
       /\ getUser(k[1], k[2]) # None
       /\ m_user_cache' = Inserted(k, time_now[r], k[1])
       /\ LetIn(r, k, k[1])

Refused(r) ==
    LET k == request[r].key
    IN /\ k # None => m_user_cache[k] = None
       /\ (Scheme = "basic" /\ k # None) => getUser(k[1], k[2]) = None
       /\ Answer(r, Unauthorized)
       /\ UNCHANGED <<m_user_cache, user, lastUsed>>

Lookup(r) ==
    /\ pc[r] = "lookup"
    /\ Found(r) \/ Matched(r) \/ Refused(r)
    /\ UNCHANGED <<config, m_cache_cleanup_time, now, request, time_now, cookie, given, ended, late>>

\* The response is written, or the request goes on to its handler.
Leave(r) ==
    /\ pc[r] = "done"
    /\ pc' = [pc EXCEPT ![r] = "out"]
    /\ request' = [request EXCEPT ![r] = None]
    /\ time_now' = [time_now EXCEPT ![r] = 0]
    /\ user' = [user EXCEPT ![r] = None]
    /\ answer' = [answer EXCEPT ![r] = None]
    /\ cookie' = [cookie EXCEPT ![r] = None]
    /\ late' = [late EXCEPT ![r] = FALSE]
    /\ UNCHANGED <<config, m_user_cache, m_cache_cleanup_time, now, given, ended, lastUsed>>

Next ==
    \/ Tick
    \/ /\ Changing
       /\ \/ \E u \in Users, p \in Passwords : AddUser(u, p) \/ UpdateUser(u, p)
          \/ \E u \in Users : RemoveUser(u)
          \/ \E path \in Paths : Configure(path)
    \/ \E r \in Requests :
        \/ Arrive(r) \/ ProcessLogin(r) \/ DrawCookie(r) \/ InsertSession(r) \/ ProcessLogout(r)
        \/ NoLogin(r) \/ NeedAuthentication(r) \/ ExpireCache(r) \/ Lookup(r) \/ Leave(r)

Spec == Init /\ [][Next]_vars

-----------------------------------------------------------------------------
(* Properties *)

\* The key k is let in by this step of r after it has not been used for n seconds.
Idle(r, k, n) ==
    /\ pc[r] = "lookup"
    /\ request[r].key = k
    /\ m_user_cache[k] # None
    /\ user'[r] # None
    /\ time_now[r] - lastUsed[k] > n

NeverIdleFor(n) == \A r \in Requests, k \in Keys : ~Idle(r, k, n)

\* The cache is cleaned up at most once in Expiration seconds: what it still
\* holds may be idle for twice that time, however requests overlap
\* (expireCache, handleRequest).
IdleBound == [][NeverIdleFor(2 * Expiration)]_vars

\* "number of seconds after which entries in the user cache will be expired"
\* (HTTPCookieAuth.hpp, HTTPBasicAuth.hpp).
IdleForExpiration == [][NeverIdleFor(Expiration)]_vars

\* A session that this step ends is logged out or has not been used for Expiration
\* seconds, MaxDelay seconds apart.
EndsForAReason ==
    \A k \in Keys : (m_user_cache[k] # None /\ m_user_cache'[k] = None) =>
        \/ k \in ended'
        \/ \E r \in Requests : /\ pc[r] = "expire" /\ pc'[r] = "lookup"
                               /\ time_now[r] > lastUsed[k] + Expiration - MaxDelay

\* A session ends by its logout, or when it has not been used for
\* Expiration seconds.  A request that was held up sets the time of the
\* entry back to when it read the clock: that is all a session can lose.
KeptWhileUsed == [][EndsForAReason]_vars

\* A cookie is let in as the user it was sent to: "a random cookie is created
\* and associated with given user session" (HTTPCookieAuth.hpp 59-62).
SessionIsOwn ==
    \A r \in Requests : \A g \in given :
        (answer[r] = "pass" /\ user[r] # None /\ request[r].key = g[1]) => user[r] = g[2]

\* No request that arrives after the logout of its session was answered is
\* let in with that session, whatever requests of the session are under way.
LogoutEnds == \A r \in Requests : (late[r] /\ answer[r] = "pass") => user[r] = None

\* Both, if no two cookies are drawn alike.
SessionsAreOwn == Scheme = "cookie" /\ ~RacyRandom => SessionIsOwn /\ LogoutEnds

\* An entry of the cache lets in no one after it was idle for twice its expiration, and it
\* ends for a reason.
EndsInTime == NeverIdleFor(2 * Expiration) /\ EndsForAReason
SessionsEndInTime == [][EndsInTime]_vars
=============================================================================
