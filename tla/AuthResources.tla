--------------------------- MODULE AuthResources ---------------------------
(***************************************************************************)
(* Which resources need authentication (net/src/HTTPAuth.cpp): a list of   *)
(* restricted resources and a list of exceptions, both searched for a      *)
(* resource or one of the resources it lies below.                         *)
(*                                                                         *)
(* A path is a sequence of characters.  Slash has characters below and     *)
(* above it: findResource() walks a sorted set down from upper_bound(), so *)
(* the order of paths matters.                                             *)
(***************************************************************************)
EXTENDS Integers, Sequences, FiniteSets, SequencesExt

CONSTANTS
    Paths,         \* the paths that may be asked for or configured
    MaxResources   \* bound: the size of each list

Slash == 1

VARIABLES m_restrict_list, m_white_list

lists == <<m_restrict_list, m_white_list>>

ResourcesInit ==
    /\ m_restrict_list = {}
    /\ m_white_list = {}

stripTrailingSlash(path) ==
    IF path # <<>> /\ Last(path) = Slash THEN Front(path) ELSE path

\* The order of std::string.
Less(a, b) ==
    \/ IsStrictPrefix(a, b)
    \/ \E i \in DOMAIN a \cap DOMAIN b : a[i] < b[i] /\ \A j \in 1..(i - 1) : a[j] = b[j]

findResource(resources, resource) ==
    \E e \in resources :
        /\ ~Less(resource, e)
        /\ IsPrefix(e, resource)
        /\ Len(resource) = Len(e) \/ resource[Len(e) + 1] = Slash

\* needAuthentication() when some user is defined.
isRestricted(path) ==
    LET resource == stripTrailingSlash(path)
    IN /\ findResource(m_restrict_list, resource)
       /\ ~findResource(m_white_list, resource)

AddRestrict(path) ==
    /\ Cardinality(m_restrict_list \cup {stripTrailingSlash(path)}) <= MaxResources
    /\ m_restrict_list' = m_restrict_list \cup {stripTrailingSlash(path)}
    /\ UNCHANGED m_white_list

AddPermit(path) ==
    /\ Cardinality(m_white_list \cup {stripTrailingSlash(path)}) <= MaxResources
    /\ m_white_list' = m_white_list \cup {stripTrailingSlash(path)}
    /\ UNCHANGED m_restrict_list

ResourcesNext == \E path \in Paths : AddRestrict(path) \/ AddPermit(path)

ResourcesSpec == ResourcesInit /\ [][ResourcesNext]_lists

-----------------------------------------------------------------------------
(* Properties *)

\* The parts of a path between its slashes.
Parts(path) ==
    LET cut == {0, Len(path) + 1} \cup {i \in DOMAIN path : path[i] = Slash}
        at == SetToSortSeq(cut, LAMBDA x, y : x < y)
    IN [i \in 1..(Len(at) - 1) |-> SubSeq(path, at[i] + 1, at[i + 1] - 1)]

Below(path, resource) == IsPrefix(Parts(resource), Parts(stripTrailingSlash(path)))

\* A path is restricted exactly when it is, or lies below, a restricted
\* resource part by part, and neither is nor lies below a permitted one:
\* /ab is not below /a, /a/b is (needAuthentication, findResource).
RestrictedByParts ==
    \A path \in Paths :
        isRestricted(path) <=>
            /\ \E e \in m_restrict_list : Below(path, e)
            /\ ~ \E e \in m_white_list : Below(path, e)
=============================================================================
