-------------------------- MODULE MCResolverLeases --------------------------
(* Instances of ResolverLeases for TLC.  The calls of a session differ only   *)
(* in their names, so they are interchangeable.                               *)
EXTENDS ResolverLeases, TLC

Interchangeable == Permutations(Ids)
=============================================================================
