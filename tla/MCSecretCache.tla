---------------------------- MODULE MCSecretCache ----------------------------
(* Instances of SecretCache: manifests over two stores. *)
EXTENDS SecretCache, TLC

CONSTANTS s1, s2

\* Two of one route and one of another, with two ages.
FallbackConfigs ==
  {[sources |-> <<s1, s2>>, maxAge |-> 1], [sources |-> <<s1, s2>>, maxAge |-> 2],
   [sources |-> <<s2>>, maxAge |-> 2]}
Commands == Permutations(Procs)
==============================================================================
