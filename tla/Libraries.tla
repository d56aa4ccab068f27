----------------------------- MODULE Libraries -----------------------------
(***************************************************************************)
(* What PionPlugin promises the objects that refer to plug-ins: objects    *)
(* that hold a plug-in of the same name share it, a shared library is      *)
(* loaded when the first of them takes it and stays loaded until the last  *)
(* of them lets it go.  Reference counts, the map of plug-ins and the      *)
(* steps of the operations do not appear.                                  *)
(***************************************************************************)
CONSTANTS Handles, Names, Closed

VARIABLES
    holds,   \* the plug-in each object refers to
    loaded   \* the plug-ins whose shared library is loaded

vars == <<holds, loaded>>

Held(h) == {h[x] : x \in Handles} \ {Closed}

Init ==
    /\ holds = [x \in Handles |-> Closed]
    /\ loaded = {}

Drop(x) ==
    /\ holds' = [holds EXCEPT ![x] = Closed]
    /\ loaded' = loaded \cap Held(holds')

\* A plug-in nobody holds is loaded, unless it is linked into the program.
Take(x, n) ==
    /\ holds[x] = Closed
    /\ holds' = [holds EXCEPT ![x] = n]
    /\ \/ loaded' = loaded
       \/ n \notin Held(holds) /\ loaded' = loaded \cup {n}

Copy(x, y) ==
    /\ holds[x] = Closed
    /\ holds' = [holds EXCEPT ![x] = holds[y]]
    /\ UNCHANGED loaded

Next ==
    \E x \in Handles :
        \/ Drop(x)
        \/ \E n \in Names : Take(x, n)
        \/ \E y \in Handles : Copy(x, y)

Spec == Init /\ [][Next]_vars
=============================================================================
