-------------------------- MODULE MCRequestService --------------------------
(* Instances of RequestService for TLC.                                    *)
EXTENDS RequestService, TLC

\* Connection objects, threads and callers are interchangeable.
Symmetry == Permutations(Conn) \cup Permutations(Worker) \cup Permutations(Caller)

=============================================================================
