----------------------------- MODULE WebServer -----------------------------
(***************************************************************************)
(* The life of web services in a server (net/src/WebServer.cpp and         *)
(* net/include/pion/net/WebServer.hpp over TCPServer and HTTPServer):      *)
(* services are loaded and bound to resources, started before the server   *)
(* listens, stopped after it has stopped, and destroyed by clear() or with *)
(* the server, while connections bring requests to them.                   *)
(*                                                                         *)
(* A service is an object with a number of its own.  The search for the    *)
(* resource of a request is that of HTTPServer; here a request names the   *)
(* resource it is for.  stop() waits for the connections in both of its    *)
(* modes, with m_mutex released; the modes differ in that one closes the   *)
(* sockets, which ends connections that may end anyway here.               *)
(***************************************************************************)
EXTENDS Integers, FiniteSets

CONSTANTS
    Controllers,   \* threads that configure, start and stop the server
    Connections,   \* connections a client may open
    Resources,     \* numbers of the resources services are bound to
    MaxServices,   \* bound: services made in a behaviour
    Careful,       \* the controllers take turns
    NULL

VARIABLES
    m_is_listening,
    m_services,    \* m_services[r]: the service managed for resource r
    m_resources,   \* m_resources[r]: the service that handles requests for r
    made,          \* the number of services made
    alive,         \* the services that exist
    started,       \* the services whose start() has not been followed by stop()
    ctl,           \* where each controller stands
    then,          \* where it goes on when stop() is done
    new,           \* the resource it binds a service to
    conn,          \* the state of each connection, and the service it is in
    orderly,       \* no service was loaded into a server that listens
    thrown         \* a start() or stop() of the server has thrown

serverVars ==
    <<m_is_listening, m_services, m_resources, made, alive, started, ctl, then, new, conn, orderly, thrown>>

server == <<m_is_listening, m_services, m_resources, made, alive, started, orderly, thrown>>

Services == 1..MaxServices

\* No service is the null pointer.
WebServerAssumption == MaxServices \in Nat /\ NULL \notin Services

Closed  == [at |-> "closed", in |-> NULL]
Waiting == [at |-> "waiting", in |-> NULL]  \* a connection between requests

ServerInit ==
    /\ m_is_listening = FALSE
    /\ m_services = [r \in Resources |-> NULL]
    /\ m_resources = [r \in Resources |-> NULL]
    /\ made = 0
    /\ alive = {}
    /\ started = {}
    /\ ctl = [t \in Controllers |-> "out"]
    /\ then = [t \in Controllers |-> "out"]
    /\ new = [t \in Controllers |-> NULL]
    /\ conn = [c \in Connections |-> Closed]
    /\ orderly = TRUE
    /\ thrown = FALSE

Managed == {m_services[r] : r \in Resources} \ {NULL}

Goto(t, p) == ctl' = [ctl EXCEPT ![t] = p]

\* Where the destructor runs, and where it has run.
Dying == {"~services", "~resources", "gone"}

\* A controller begins a call, on a server that is not being destroyed.
Calls(t) ==
    /\ ctl[t] = "out"
    /\ \A s \in Controllers : ctl[s] \notin Dying /\ then[s] \notin Dying
    /\ Careful => \A s \in Controllers : ctl[s] = "out"

-----------------------------------------------------------------------------
(* Loading: addService() and loadService() put the service into m_services *)
(* and then bind it.                                                       *)

LoadService(t, r) ==
    /\ Calls(t)
    /\ m_services[r] = NULL
    /\ made < MaxServices
    /\ made' = made + 1
    /\ alive' = alive \cup {made'}
    /\ m_services' = [m_services EXCEPT ![r] = made']
    /\ new' = [new EXCEPT ![t] = [resource |-> r, service |-> made']]
    /\ Goto(t, "bind")
    /\ orderly' = (orderly /\ ~m_is_listening)
    /\ UNCHANGED <<m_is_listening, m_resources, started, then, conn, thrown>>

AddResource(t) ==
    LET r == new[t].resource
    IN /\ ctl[t] = "bind"
       /\ m_resources' = IF m_resources[r] = NULL
                         THEN [m_resources EXCEPT ![r] = new[t].service] ELSE m_resources
       /\ new' = [new EXCEPT ![t] = NULL]
       /\ Goto(t, "out")
       /\ UNCHANGED <<m_is_listening, m_services, made, alive, started, then, conn, orderly, thrown>>

-----------------------------------------------------------------------------
(* start() and stop() *)

\* beforeStarting(), then bind() and listen().
Start(t) ==
    /\ Calls(t)
    /\ ~m_is_listening
    /\ started' = started \cup Managed
    /\ m_is_listening' = TRUE
    /\ UNCHANGED <<m_services, m_resources, made, alive, ctl, then, new, conn, orderly, thrown>>

\* The services of the resources before k, in whose order run() calls them.
Before(k) == {m_services[r] : r \in {q \in Resources : q < k}} \ {NULL}

\* The start() of a service throws, or bind() fails after all of them.  The
\* services before it have been started.
StartThrows(t) ==
    /\ Calls(t)
    /\ ~m_is_listening
    /\ Managed # {}
    /\ \E k \in Resources :
        started' = started \cup Before(k) \/ started' = started \cup Managed
    /\ thrown' = TRUE
    /\ UNCHANGED <<m_is_listening, m_services, m_resources, made, alive, ctl, then, new, conn, orderly>>

\* stop() begins, to go on at p; a server that does not listen is left alone.
StopThen(t, p) ==
    \/ /\ m_is_listening
       /\ m_is_listening' = FALSE
       /\ Goto(t, "stopping")
       /\ then' = [then EXCEPT ![t] = p]
    \/ /\ ~m_is_listening
       /\ Goto(t, p)
       /\ UNCHANGED <<m_is_listening, then>>

Stop(t) ==
    /\ Calls(t) /\ m_is_listening
    /\ StopThen(t, "out")
    /\ UNCHANGED <<m_services, m_resources, made, alive, started, new, conn, orderly, thrown>>

\* No connection is left; afterStopping().
StopDone(t) ==
    /\ ctl[t] = "stopping"
    /\ \A c \in Connections : conn[c] = Closed
    /\ started' = started \ Managed
    /\ Goto(t, then[t])
    /\ then' = [then EXCEPT ![t] = "out"]
    /\ UNCHANGED <<m_is_listening, m_services, m_resources, made, alive, new, conn, orderly, thrown>>

\* The stop() of a service throws: those after it are not stopped, and the exception leaves
\* stop() and the clear() that called it.  In a destructor the members are destroyed then.
StopThrows(t) ==
    /\ ctl[t] = "stopping"
    /\ \A c \in Connections : conn[c] = Closed
    /\ \E k \in Resources : m_services[k] # NULL /\ started' = started \ Before(k)
    /\ thrown' = TRUE
    /\ Goto(t, IF then[t] \in Dying THEN then[t] ELSE "out")
    /\ then' = [then EXCEPT ![t] = "out"]
    /\ UNCHANGED <<m_is_listening, m_services, m_resources, made, alive, new, conn, orderly>>

-----------------------------------------------------------------------------
(* clear() and the destructor *)

\* Mutant: the server is not stopped.
ClearAtOnce(t) ==
    /\ Calls(t)
    /\ Goto(t, "services")
    /\ UNCHANGED <<server, then, new, conn>>

Clear(t) ==
    /\ Calls(t)
    /\ StopThen(t, "services")
    /\ UNCHANGED <<m_services, m_resources, made, alive, started, new, conn, orderly, thrown>>

\* ~WebServer() calls clear() while it still is a WebServer.  Nobody else uses
\* the server any more.
Destroy(t) ==
    /\ \A s \in Controllers : ctl[s] = "out"
    /\ StopThen(t, "~services")
    /\ UNCHANGED <<m_services, m_resources, made, alive, started, new, conn, orderly, thrown>>

\* m_services.clear()
ClearServices(t) ==
    /\ ctl[t] \in {"services", "~services"}
    /\ alive' = alive \ Managed
    /\ m_services' = [r \in Resources |-> NULL]
    /\ Goto(t, IF ctl[t] = "services" THEN "resources" ELSE "~resources")
    /\ UNCHANGED <<m_is_listening, m_resources, made, started, then, new, conn, orderly, thrown>>

\* HTTPServer::clear() looks again whether the server listens.
ClearResources(t) ==
    /\ ctl[t] \in {"resources", "~resources"}
    /\ IF m_is_listening THEN StopThen(t, ctl[t]) /\ UNCHANGED m_resources
       ELSE /\ m_resources' = [r \in Resources |-> NULL]
            /\ Goto(t, IF ctl[t] = "resources" THEN "out" ELSE "gone")
            /\ UNCHANGED <<m_is_listening, then>>
    /\ UNCHANGED <<m_services, made, alive, started, new, conn, orderly, thrown>>

\* Another server is made.
Construct(t) ==
    /\ ctl[t] = "gone"
    /\ m_resources' = [r \in Resources |-> NULL]
    /\ Goto(t, "out")
    /\ UNCHANGED <<m_is_listening, m_services, made, alive, started, then, new, conn, orderly, thrown>>

-----------------------------------------------------------------------------
(* Connections *)

Accept(c) ==
    /\ m_is_listening
    /\ conn[c] = Closed
    /\ conn' = [conn EXCEPT ![c] = Waiting]
    /\ UNCHANGED <<server, ctl, then, new>>

\* A request has been read; one for a resource nobody handles is answered
\* at once.
Request(c, r) ==
    /\ conn[c] = Waiting
    /\ m_resources[r] # NULL
    /\ conn' = [conn EXCEPT ![c] = [at |-> "serving", in |-> m_resources[r]]]
    /\ UNCHANGED <<server, ctl, then, new>>

\* finishConnection(): a connection is kept alive while the server listens.
Respond(c) ==
    /\ conn[c].at = "serving"
    /\ \/ m_is_listening /\ conn' = [conn EXCEPT ![c] = Waiting]
       \/ conn' = [conn EXCEPT ![c] = Closed]
    /\ UNCHANGED <<server, ctl, then, new>>

CloseConnection(c) ==
    /\ conn[c] = Waiting
    /\ conn' = [conn EXCEPT ![c] = Closed]
    /\ UNCHANGED <<server, ctl, then, new>>

ServerNext ==
    \/ \E t \in Controllers :
        \/ \E r \in Resources : LoadService(t, r)
        \/ AddResource(t) \/ Start(t) \/ StartThrows(t)
        \/ Stop(t) \/ StopDone(t) \/ StopThrows(t)
        \/ Clear(t) \/ ClearServices(t) \/ ClearResources(t) \/ Destroy(t) \/ Construct(t)
    \/ \E c \in Connections :
        \/ Accept(c) \/ Respond(c) \/ CloseConnection(c)
        \/ \E r \in Resources : Request(c, r)

ServerSpec == ServerInit /\ [][ServerNext]_serverVars

-----------------------------------------------------------------------------
(* Properties *)

Serving == {conn[c].in : c \in {d \in Connections : conn[d].at = "serving"}}

\* A request is in a service that exists: clear() and the destructor wait
\* for the requests that run before they destroy the services.
ServesLiving == Serving \subseteq alive

\* A request is in a service that has been started and not stopped: start()
\* comes before the first request and stop() after the last.
ServesStarted == Serving \subseteq started

\* A service that has been started is stopped before it is destroyed.
StoppedFirst == started \subseteq alive

\* What holds of a server whose controllers take turns: a request is in a service that
\* exists; as long as no service was loaded while the server listened, it is in one that
\* has been started and not stopped; and as long as no start() or stop() has thrown, a
\* service that was started is stopped before it is destroyed (beforeStarting,
\* afterStopping, clear, ~WebServer).
ServicesInOrder ==
    /\ Careful => ServesLiving
    /\ Careful /\ orderly => ServesStarted
    /\ Careful /\ ~thrown => StoppedFirst
=============================================================================
