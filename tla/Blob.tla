-------------------------------- MODULE Blob --------------------------------
(***************************************************************************)
(* PionBlob (common/include/pion/PionBlob.hpp): blobs share the memory of  *)
(* their content, which carries an atomic count of the further copies;     *)
(* the blob that lets go last gives the memory back.                       *)
(*                                                                         *)
(* A blob is changed by one thread at a time and is not changed while      *)
(* another thread copies it; blobs that share memory are used by           *)
(* different threads at once.  A constructor is the second half of an      *)
(* assignment to a blob without memory, the destructor is clear().         *)
(***************************************************************************)
EXTENDS Integers, FiniteSets

CONSTANTS
    Objects,     \* PionBlob objects
    Addresses,   \* where the allocator may place a BlobData
    Contents,    \* contents of blobs
    Concurrent,  \* different threads use blobs at once
    SelfAssign,  \* a blob may be assigned to itself
    NULL

ASSUME BlobAssumption ==
    /\ IsFiniteSet(Objects)
    /\ IsFiniteSet(Addresses)
    /\ NULL \notin Objects \cup Addresses \cup Contents
    /\ Objects \cap Contents = {}
    /\ {Concurrent, SelfAssign} \subseteq BOOLEAN

VARIABLES
    allocated,   \* the addresses in use
    payload,     \* payload[a]: the content kept at a
    m_copies,    \* m_copies[a]: the count kept at a
    m_blob_ptr,  \* m_blob_ptr[o]: the memory of blob o
    step,        \* step[o]: what the call on blob o does next
    source       \* source[o]: the blob or content it is to hold afterwards

blobVars == <<allocated, payload, m_copies, m_blob_ptr, step, source>>

BlobInit ==
    /\ allocated = {}
    /\ payload \in [Addresses -> Contents]
    /\ m_copies = [a \in Addresses |-> 0]
    /\ m_blob_ptr = [o \in Objects |-> NULL]
    /\ step = [o \in Objects |-> "idle"]
    /\ source = [o \in Objects |-> NULL]

\* The blob may be changed, or copied, by the thread that calls.
Changeable(o) == step[o] = "idle" /\ \A p \in Objects : source[p] # o
Readable(p) == step[p] = "idle"

\* Bound: the calls under way find memory.
MemoryLeft ==
    Cardinality(allocated) + Cardinality({o \in Objects : source[o] \in Contents}) < Cardinality(Addresses)

\* What follows the release: nothing for clear(), reset() and the destructor.
Following(s) == IF s = NULL THEN "idle" ELSE "grab"

\* operator=, set(), clear(): the first half of release() reads the count.
Start(o, s) ==
    /\ Changeable(o)
    /\ Concurrent \/ \A p \in Objects : step[p] = "idle"
    /\ s \in Objects => Readable(s) /\ (SelfAssign \/ s # o)
    /\ s \in Contents => MemoryLeft
    /\ step' = [step EXCEPT ![o] = IF m_blob_ptr[o] = NULL THEN Following(s)
                                   ELSE IF m_copies[m_blob_ptr[o]] = 0 THEN "free"
                                   ELSE "decrement"]
    /\ source' = [source EXCEPT ![o] = s]
    /\ UNCHANGED <<allocated, payload, m_copies, m_blob_ptr>>

Free(o) ==
    /\ step[o] = "free"
    /\ allocated' = allocated \ {m_blob_ptr[o]}
    /\ m_blob_ptr' = [m_blob_ptr EXCEPT ![o] = NULL]
    /\ step' = [step EXCEPT ![o] = Following(source[o])]
    /\ UNCHANGED <<payload, m_copies, source>>

\* Mutant: the memory is given back where the count drops to one.
DecrementFreeing(o) ==
    /\ step[o] = "decrement"
    /\ m_copies' = [m_copies EXCEPT ![m_blob_ptr[o]] = @ - 1]
    /\ allocated' = IF m_copies[m_blob_ptr[o]] <= 1 THEN allocated \ {m_blob_ptr[o]} ELSE allocated
    /\ m_blob_ptr' = [m_blob_ptr EXCEPT ![o] = NULL]
    /\ step' = [step EXCEPT ![o] = Following(source[o])]
    /\ UNCHANGED <<payload, source>>

Decrement(o) ==
    /\ step[o] = "decrement"
    /\ m_copies' = [m_copies EXCEPT ![m_blob_ptr[o]] = @ - 1]
    /\ m_blob_ptr' = [m_blob_ptr EXCEPT ![o] = NULL]
    /\ step' = [step EXCEPT ![o] = Following(source[o])]
    /\ UNCHANGED <<allocated, payload, source>>

\* Mutant: a copy that is not counted.
GrabUncounted(o) ==
    /\ step[o] = "grab"
    /\ source[o] \in Objects
    /\ m_blob_ptr' = [m_blob_ptr EXCEPT ![o] = m_blob_ptr[source[o]]]
    /\ step' = [step EXCEPT ![o] = "idle"]
    /\ source' = [source EXCEPT ![o] = NULL]
    /\ UNCHANGED <<allocated, payload, m_copies>>

\* m_blob_ptr = blob.grab()
Grab(o) ==
    /\ step[o] = "grab"
    /\ source[o] \in Objects
    /\ m_copies' = [a \in Addresses |-> IF a = m_blob_ptr[source[o]] THEN m_copies[a] + 1 ELSE m_copies[a]]
    /\ m_blob_ptr' = [m_blob_ptr EXCEPT ![o] = m_blob_ptr[source[o]]]
    /\ step' = [step EXCEPT ![o] = "idle"]
    /\ source' = [source EXCEPT ![o] = NULL]
    /\ UNCHANGED <<allocated, payload>>

\* m_blob_ptr = create(); memcpy()
Create(o) ==
    /\ step[o] = "grab"
    /\ source[o] \in Contents
    /\ \E a \in Addresses \ allocated :
        /\ allocated' = allocated \cup {a}
        /\ m_copies' = [m_copies EXCEPT ![a] = 0]
        /\ payload' = [payload EXCEPT ![a] = source[o]]
        /\ m_blob_ptr' = [m_blob_ptr EXCEPT ![o] = a]
    /\ step' = [step EXCEPT ![o] = "idle"]
    /\ source' = [source EXCEPT ![o] = NULL]

BlobNext ==
    \E o \in Objects :
        \/ \E s \in Objects \cup Contents \cup {NULL} : Start(o, s)
        \/ Free(o)
        \/ Decrement(o)
        \/ Grab(o)
        \/ Create(o)

BlobSpec == BlobInit /\ [][BlobNext]_blobVars

\* use_count()
use_count(o) == IF m_blob_ptr[o] = NULL THEN 0 ELSE m_copies[m_blob_ptr[o]] + 1

\* get() and size(): the empty content where there is no memory.
get(o) == IF m_blob_ptr[o] = NULL THEN NULL ELSE payload[m_blob_ptr[o]]

-----------------------------------------------------------------------------
(* Properties                                                              *)

\* The types of the variables.
BlobTypeOK ==
    /\ allocated \subseteq Addresses
    /\ payload \in [Addresses -> Contents]
    /\ m_copies \in [Addresses -> Int]
    /\ m_blob_ptr \in [Objects -> Addresses \cup {NULL}]
    /\ step \in [Objects -> {"idle", "free", "decrement", "grab"}]
    /\ source \in [Objects -> Objects \cup Contents \cup {NULL}]

Holders(a) == {o \in Objects : m_blob_ptr[o] = a}

\* Memory that a blob refers to has not been given back: whatever the order in
\* which threads copy and release blobs that share it (PionBlob.hpp 79-100).
NeverFreedInUse == \A o \in Objects : m_blob_ptr[o] # NULL => m_blob_ptr[o] \in allocated

\* use_count() is the number of blobs that share the memory, so that unique()
\* tells a blob that may be changed in place (PionBlob.hpp 245-252).
CountsHolders ==
    \A o \in Objects : m_blob_ptr[o] # NULL => use_count(o) = Cardinality(Holders(m_blob_ptr[o]))

\* A blob keeps its content until a call on that very blob replaces it; the
\* source of an assignment keeps it (PionBlob.hpp 176-186).
ContentKept ==
    [][\A o \in Objects :
            get(o)' # get(o) => step[o] # "idle" /\ \A p \in Objects : source[p] # o]_blobVars

\* Memory no blob refers to has been given back: "releases pointer ... and
\* frees memory if no more references" (PionBlob.hpp 77-88).
NothingLeaks == \A a \in allocated : Holders(a) # {}
=============================================================================
