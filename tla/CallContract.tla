---------------------------- MODULE CallContract ----------------------------
(***************************************************************************)
(* What one session of serve() promises the application behind it (the     *)
(* Handler trait of crates/monosecret_rpc/src/server.rs): when a call is   *)
(* handed over, what request_finished may report about it, and when the    *)
(* session's resources are released.  Queues, frames, the writer and the   *)
(* deadlines are not visible here.  RpcServer implements this              *)
(* specification and ResolverLeases is an application built on it.         *)
(***************************************************************************)
EXTENDS Naturals, FiniteSets

CONSTANTS
  Ids,         \* bound: the request IDs of the calls a session makes
  MaxInFlight  \* negotiated limits.max_in_flight

ASSUME ContractAssumption == IsFiniteSet(Ids) /\ MaxInFlight \in Nat \ {0}

VARIABLES
  phase,      \* where each call is
  report,     \* what request_finished is told
  delivered,  \* calls whose own outcome the peer has received completely
  cancelled,  \* calls whose cancellation token is cancelled
  broken,     \* the session has given up on its transport
  closing,    \* no further call is handed over
  released    \* shutdown() has run

contractVars == <<phase, report, delivered, cancelled, broken, closing, released>>

Open == {"handling", "returned", "reporting"}
Phases == Open \cup {"idle", "finished", "lost"}
Reports == {"none", "committed", "uncommitted"}

ContractInit ==
  /\ phase = [id \in Ids |-> "idle"]
  /\ report = [id \in Ids |-> "none"]
  /\ delivered = {}
  /\ cancelled = {}
  /\ broken = FALSE
  /\ closing = FALSE
  /\ released = FALSE

Move(id, to) == phase' = [phase EXCEPT ![id] = to]

\* Handler::call is entered.
Start(id) ==
  /\ phase[id] = "idle"
  /\ ~closing
  /\ Cardinality({i \in Ids : phase[i] = "handling"}) < MaxInFlight
  /\ Move(id, "handling")
  /\ UNCHANGED <<report, delivered, cancelled, broken, closing, released>>

\* The peer, the deadline, the completion of the response or the end of the
\* session cancels a call; one that panicked is still registered.
Cancel(id) ==
  /\ phase[id] \in Open \cup {"lost"}
  /\ cancelled' = cancelled \cup {id}
  /\ UNCHANGED <<phase, report, delivered, broken, closing, released>>

\* The handler's future completes and its outcome is to be sent.
Return(id) ==
  /\ phase[id] = "handling"
  /\ Move(id, "returned")
  /\ UNCHANGED <<report, delivered, cancelled, broken, closing, released>>

\* The outcome is not sent, or the session gives up on it before it is known
\* to be written; in the second case the transport is given up as well.
Discard(id) ==
  /\ phase[id] \in {"handling", "returned"}
  /\ id \notin delivered
  /\ Move(id, "reporting")
  /\ report' = [report EXCEPT ![id] = "uncommitted"]
  /\ broken' \in {broken, TRUE}
  /\ UNCHANGED <<delivered, cancelled, closing, released>>

\* The last byte of the outcome is written.  After the session has given up on
\* a call this still happens, but only on a transport it has given up too.
Deliver(id) ==
  /\ id \notin delivered
  /\ \/ phase[id] = "returned"
     \/ phase[id] \in {"reporting", "finished"} /\ report[id] = "uncommitted" /\ broken
     \/ phase[id] = "lost" /\ closing
  /\ delivered' = delivered \cup {id}
  /\ UNCHANGED <<phase, report, cancelled, broken, closing, released>>

Confirm(id) ==
  /\ phase[id] = "returned"
  /\ id \in delivered
  /\ Move(id, "reporting")
  /\ report' = [report EXCEPT ![id] = "committed"]
  /\ UNCHANGED <<delivered, cancelled, broken, closing, released>>

\* request_finished(id, report[id]) has returned.
Finish(id) ==
  /\ phase[id] = "reporting"
  /\ Move(id, "finished")
  /\ UNCHANGED <<report, delivered, cancelled, broken, closing, released>>

\* A panic, or the abort of the call's task at any of its suspension points.
Lose(id) ==
  /\ phase[id] = "handling" \/ (phase[id] \in Open /\ closing)
  /\ Move(id, "lost")
  /\ report' = [report EXCEPT ![id] = "none"]
  /\ UNCHANGED <<delivered, cancelled, broken, closing, released>>

Break ==
  /\ broken' = TRUE
  /\ UNCHANGED <<phase, report, delivered, cancelled, closing, released>>

\* The session ends: its calls are cancelled, to be aborted afterwards.
Close ==
  /\ ~closing
  /\ closing' = TRUE
  /\ cancelled' = cancelled \cup {id \in Ids : phase[id] \in Open \cup {"lost"}}
  /\ UNCHANGED <<phase, report, delivered, broken, released>>

\* Mutant of Release: it does not wait for the calls that were aborted.
Release_NoJoin ==
  /\ closing
  /\ released' = TRUE
  /\ UNCHANGED <<phase, report, delivered, cancelled, broken, closing>>

\* Handler::shutdown runs, after every call has ended.
Release ==
  /\ closing
  /\ \A id \in Ids : phase[id] \notin Open
  /\ released' = TRUE
  /\ UNCHANGED <<phase, report, delivered, cancelled, broken, closing>>

ContractNext ==
  \/ \E id \in Ids : \/ Start(id) \/ Cancel(id) \/ Return(id) \/ Discard(id)
                     \/ Deliver(id) \/ Confirm(id) \/ Finish(id) \/ Lose(id)
  \/ Break \/ Close \/ Release

ContractSpec == ContractInit /\ [][ContractNext]_contractVars
=============================================================================
