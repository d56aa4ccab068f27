---------------------------- MODULE HTTPServer ----------------------------
(***************************************************************************)
(* How a request finds its handler (net/src/HTTPServer.cpp): redirections, *)
(* then authentication, then the search for the resource, with the search  *)
(* of PluginManager.hpp, which is meant to do the same, beside it.         *)
(*                                                                         *)
(* A handler is known by the resource it was added under.  Some user is    *)
(* defined, and the request carries no credentials.  A path has at most    *)
(* one slash at its end.                                                   *)
(***************************************************************************)
EXTENDS AuthResources

CONSTANTS
    MAX_REDIRECTS,
    MaxHandlers,       \* bound: resources with a handler
    MaxRedirections    \* bound: redirections configured

VARIABLES
    m_resources,   \* the resources that have a handler
    m_redirects    \* a function from some resources to resources

vars == <<m_resources, m_redirects, m_restrict_list, m_white_list>>

Init ==
    /\ m_resources = {}
    /\ m_redirects = [r \in {} |-> r]
    /\ ResourcesInit

AddResource(path) ==
    /\ m_resources' = m_resources \cup {stripTrailingSlash(path)}
    /\ Cardinality(m_resources') <= MaxHandlers
    /\ UNCHANGED <<m_redirects, lists>>

RemoveResource(path) ==
    /\ stripTrailingSlash(path) \in m_resources
    /\ m_resources' = m_resources \ {stripTrailingSlash(path)}
    /\ UNCHANGED <<m_redirects, lists>>

\* The first redirection of a resource stays.
AddRedirect(path, new) ==
    LET requested == stripTrailingSlash(path)
    IN /\ requested \notin DOMAIN m_redirects
       /\ Cardinality(DOMAIN m_redirects) < MaxRedirections
       /\ m_redirects' = [r \in DOMAIN m_redirects \cup {requested} |->
                            IF r = requested THEN stripTrailingSlash(new) ELSE m_redirects[r]]
       /\ UNCHANGED <<m_resources, lists>>

Clear ==
    /\ m_resources # {}
    /\ m_resources' = {}
    /\ UNCHANGED <<m_redirects, lists>>

Next ==
    \/ \E path \in Paths :
        \/ AddResource(path) \/ RemoveResource(path)
        \/ (AddRestrict(path) \/ AddPermit(path)) /\ UNCHANGED <<m_resources, m_redirects>>
        \/ \E new \in Paths : AddRedirect(path, new)
    \/ Clear

Spec == Init /\ [][Next]_vars

-----------------------------------------------------------------------------
(* handleRequest() *)

Follow(r) == IF r \in DOMAIN m_redirects THEN m_redirects[r] ELSE r

\* Where the redirections lead; the limit is passed when the result is
\* redirected again.
Redirected(path) ==
    LET at[k \in 0..MAX_REDIRECTS] ==
            IF k = 0 THEN stripTrailingSlash(path) ELSE Follow(at[k - 1])
    IN at[MAX_REDIRECTS]

Matches(resource, e) ==
    IsPrefix(e, resource) /\ (Len(resource) = Len(e) \/ resource[Len(e) + 1] = Slash)

\* The resources before upper_bound().
Candidates(resource) == {e \in m_resources : ~Less(resource, e)}

NotFound == <<"not found">>
TooMany  == <<"too many redirections">>
Refused  == <<"unauthorized">>

\* The walk goes down from upper_bound() to the first match.
findRequestHandler(resource) ==
    LET fit == {e \in Candidates(resource) : Matches(resource, e)}
    IN IF fit = {} THEN NotFound
       ELSE <<"handled", CHOOSE e \in fit : \A f \in fit : ~Less(e, f)>>

\* Mutant: the request is authenticated for the resource it asked for.
handleRequestAuthFirst(path) ==
    IF Redirected(path) \in DOMAIN m_redirects THEN TooMany
    ELSE IF isRestricted(path) THEN Refused
    ELSE findRequestHandler(Redirected(path))

\* Authentication looks at the resource of the request, which is changed by
\* a redirection and has its trailing slash stripped again.
handleRequest(path) ==
    IF Redirected(path) \in DOMAIN m_redirects THEN TooMany
    ELSE IF isRestricted(IF stripTrailingSlash(path) \in DOMAIN m_redirects
                         THEN Redirected(path) ELSE path) THEN Refused
    ELSE findRequestHandler(Redirected(path))

-----------------------------------------------------------------------------
(* PluginManager::find(): the walk gives up at an entry that does not match *)
(* unless the entry before it is shorter.                                   *)

\* The entries the walk comes to, the greatest first.
Walk(resource) == SetToSortSeq(Candidates(resource), LAMBDA a, b : Less(b, a))

find(resource) ==
    LET walk == Walk(resource)
        stops(i) == /\ ~IsPrefix(walk[i], resource)
                    /\ i = Len(walk) \/ Len(walk[i + 1]) >= Len(walk[i])
        fit == {i \in DOMAIN walk :
                  /\ Matches(resource, walk[i])
                  /\ \A j \in 1..(i - 1) : ~stops(j) /\ ~Matches(resource, walk[j])}
    IN IF fit = {} THEN NotFound ELSE <<"handled", walk[CHOOSE i \in fit : TRUE]>>

-----------------------------------------------------------------------------
(* Properties *)

PartsBelow(resource, e) == IsPrefix(Parts(e), Parts(resource))

\* The resource nearest above the one asked for, part by part.
NearestAbove(resource) ==
    LET above == {e \in m_resources : PartsBelow(resource, e)}
    IN IF above = {} THEN NotFound
       ELSE <<"handled", CHOOSE e \in above : \A f \in above : Len(Parts(f)) <= Len(Parts(e))>>

\* A request goes to the handler of the nearest resource above the one it
\* asks for, part by part, whatever else is registered beside it
\* (findRequestHandler).
NearestHandler ==
    \A path \in Paths : findRequestHandler(stripTrailingSlash(path))
                            = NearestAbove(stripTrailingSlash(path))

\* The same for the search of PluginManager::find.
FindsNearest ==
    \A path \in Paths : find(stripTrailingSlash(path)) = NearestAbove(stripTrailingSlash(path))

\* No detour of redirections leads to the handler of a restricted resource
\* without authentication, when nothing at, above or below that resource is
\* permitted (handleRequest, needAuthentication).
RestrictedHandlersRefuse ==
    \A path \in Paths, e \in m_resources :
        (/\ \E r \in m_restrict_list : PartsBelow(e, r)
         /\ ~ \E w \in m_white_list : PartsBelow(e, w) \/ PartsBelow(w, e))
        => handleRequest(path) # <<"handled", e>>

\* The resources a request is led through, in turn.
Leads(path, n, r) ==
    \E way \in [0..n -> Paths \cup {stripTrailingSlash(p) : p \in Paths}] :
        /\ way[0] = stripTrailingSlash(path) /\ way[n] = r
        /\ \A k \in 1..n : way[k - 1] \in DOMAIN m_redirects /\ way[k] = m_redirects[way[k - 1]]

\* A request is answered with a server error exactly when its redirections
\* go in a circle or are more than MAX_REDIRECTS.
StopsOnlyCircles ==
    \A path \in Paths :
        handleRequest(path) = TooMany <=>
            \E r \in DOMAIN m_redirects : Leads(path, MAX_REDIRECTS, r)
=============================================================================
