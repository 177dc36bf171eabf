--------------------------- MODULE MCRpcCallbacks ---------------------------
(* Instances of RpcCallbacks for TLC. *)
EXTENDS RpcCallbacks, TLC

\* Habits are permissions: the last application does all the others do.
MCApplications == {{"panics"}, {"panics", "drifts"}, {"panics", "spawns"}, Habits}

\* Only detached tasks with a patient client make more callbacks than the limit:
\* enough to exceed it.
MCCallbacks ==
  habits = {"panics", "spawns"} \/ \E k \in Callers : caller[k] = "idle"

Interchangeable == Permutations(Parents) \cup Permutations(Callers)
=============================================================================
