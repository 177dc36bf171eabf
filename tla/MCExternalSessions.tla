------------------------- MODULE MCExternalSessions -------------------------
(* Instances of ExternalSessions for TLC. *)
EXTENDS ExternalSessions, TLC

Interchangeable == Permutations(Callers)
=============================================================================
