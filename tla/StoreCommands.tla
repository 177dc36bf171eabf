--------------------------- MODULE StoreCommands ---------------------------
(***************************************************************************)
(* What the models of the providers share: clients that run set and delete *)
(* calls on one store, each a sequence of steps that others may interleave *)
(* with and that may go wrong.  ItemStores and DocumentStores say what the *)
(* steps are.                                                              *)
(***************************************************************************)
EXTENDS Integers, FiniteSets

CONSTANTS
  Clients,      \* whoever uses the provider: processes or threads, each with its instance
  None,         \* no value
  MaxCommands,  \* bound: set and delete calls
  MaxMishaps    \* bound: failures, lost answers, crashes, writes of others

ASSUME CommandAssumption == MaxCommands \in Nat /\ MaxMishaps \in Nat

VARIABLES
  kind,      \* the provider
  client,    \* the call each client is in
  commands,  \* calls so far: the next value
  mishaps    \* what has gone wrong so far

\* Every set stores a value of its own, the number of its command; so does
\* every write of another program.
Values == (1..(MaxCommands + MaxMishaps)) \cup {None}

At(a, point) == client[a].at = point
Quiet == UNCHANGED mishaps
Mishap == mishaps < MaxMishaps /\ mishaps' = mishaps + 1
============================================================================
