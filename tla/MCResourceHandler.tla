-------------------------- MODULE MCResourceHandler -------------------------
(* Instances of ResourceHandler for TLC.                                   *)
EXTENDS ResourceHandler

=============================================================================
