----------------------------- MODULE MCLiveness -----------------------------
(***************************************************************************)
(* RequestService under fairness.  Two threads and two callers together    *)
(* make a graph too large for liveness, so that one of them stays out of   *)
(* each behaviour: either a thread or a caller (absent).                   *)
(***************************************************************************)
EXTENDS RequestService

CONSTANT Others  \* the threads and callers of which one stays out

VARIABLE absent

StaysOut ==
    /\ UNCHANGED absent
    /\ absent \in Worker => pc'[absent] = pc[absent]
    /\ absent \in Caller => ctl'[absent] = ctl[absent]

\* The fairness of RequestService, for those who take part.
FairToPresent ==
    /\ \A w \in Worker : SF_vars(Run(w) /\ StaysOut)
    /\ \A c \in Conn : SF_vars((\E w \in Worker : Aborted(w, c)) /\ StaysOut)
    /\ \A c \in Conn : SF_vars(StaleTimerRuns(c) /\ StaysOut)
    /\ \A k \in Caller : SF_vars(StopWakes(k) /\ StaysOut)

PresentSpec ==
    /\ Init /\ absent \in Others
    /\ [][Next /\ StaysOut]_<<vars, absent>>
    /\ FairToPresent

=============================================================================
