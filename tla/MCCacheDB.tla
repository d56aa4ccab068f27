----------------------------- MODULE MCCacheDB ------------------------------
(* Instances of CacheDB for TLC.                                           *)
EXTENDS CacheDB, TLC

\* Backend processes are interchangeable.
Symmetry == Permutations(Backend)

=============================================================================
