------------------------- MODULE RpcServerContract -------------------------
(* RpcServer implements CallContract: the refinement mapping. *)
EXTENDS RpcServer

\* Where a run_call task is, as the application sees it.
PhaseOf(state) ==
  CASE state = "none" -> "idle"
    [] state \in HandlerRunning -> "handling"
    [] state \in {"respond", "send", "override", "committing"} -> "returned"
    [] state \in {"committed", "uncommitted"} -> "reporting"
    [] state = "done" -> "finished"
    [] state \in {"panicked", "aborted"} -> "lost"

ReportOf(id) ==
  IF task[id] \in {"committed", "uncommitted"} THEN task[id] ELSE finished[id]

\* Between CancelAll and the end of serve(); the response to rpc.shutdown is
\* committed in the same states as any other.
Closing == loop \in {"aborting", "releasing", "closing", "done"}
           \/ reply.kind = "shutdown"

Contract == INSTANCE CallContract WITH
  phase     <- [id \in Ids |-> PhaseOf(task[id])],
  report    <- [id \in Ids |-> ReportOf(id)],
  delivered <- {id \in Ids : Wrote(id, {"app"})},
  closing   <- Closing,
  broken    <- disconnected

\* serve() keeps its promises to the application: a call is handed over only
\* while a permit is free and the session is not closing, request_finished
\* reports a commit only of what the peer has received, whatever the peer
\* receives after it was reported lost arrives on a session that is ending,
\* and shutdown() runs after every call.
ImplementsContract == Contract!ContractSpec
============================================================================
