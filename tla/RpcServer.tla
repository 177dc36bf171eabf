----------------------------- MODULE RpcServer -----------------------------
(***************************************************************************)
(* One session of the IPC endpoint, crates/monosecret_rpc/src/server.rs:   *)
(* the read loop of serve(), one run_call task per accepted application    *)
(* request, and the single writer task behind a bounded queue.             *)
(*                                                                         *)
(* The tasks run on a multi-threaded executor, so one action is what a     *)
(* task does between two accesses to shared state: the writer queue, the   *)
(* semaphore, the cancellation tokens and the commit acknowledgements.     *)
(* The peer is the environment: every frame it can send is a choice of     *)
(* the read loop, it may stop reading, and it may vanish.  Frame contents  *)
(* are reduced to what the session tells apart.                            *)
(***************************************************************************)
EXTENDS Naturals, Sequences, FiniteSets

CONSTANTS
  MaxId,        \* bound: request IDs the peer may use are 1 .. MaxId
  MaxInFlight,  \* negotiated limits.max_in_flight
  QueueCap      \* capacity of the writer channel, config max_in_flight + 2

ASSUME BoundsAssumption ==
  /\ MaxId \in Nat \ {0}
  /\ MaxInFlight \in Nat \ {0}
  /\ QueueCap \in Nat \ {0}

Ids == 1 .. MaxId

VARIABLES
  loop,         \* where serve() is
  initialized,  \* serve(): initialized
  lastSeen,     \* serve(): last_seen_id, 0 for None
  reply,        \* the out-of-band response the read loop is committing
  replyAck,     \* the oneshot `committed` of that response
  shutdown,     \* serve(): shutdown_request, 0 for None
  drained,      \* serve(): drained
  released,     \* handler.shutdown() has run
  expired,      \* requests whose deadline instant has passed
  task,         \* state of run_call per request
  resp,         \* what the handler's outcome encodes to
  inflight,     \* keys of the in-flight map
  cancelled,    \* requests whose cancellation token is cancelled
  slots,        \* requests whose semaphore permit is not yet dropped
  acks,         \* the oneshot `committed` of a call's own response
  finished,     \* the request_finished(committed) report, per request
  terminals,    \* responses handed to the writer queue, per request
  writer,       \* state of the writer task
  queue,        \* the writer channel
  current,      \* the frame the writer task is writing
  written,      \* frames completely written to the peer
  disconnected  \* the `disconnected` token

loopVars   == <<loop, initialized, lastSeen, reply, shutdown, drained, released>>
callVars   == <<task, resp, inflight, cancelled, finished, terminals>>
writerVars == <<writer, queue, current, written>>
vars == <<loopVars, callVars, writerVars, replyAck, expired, slots, acks, disconnected>>

----------------------------------------------------------------------------
(* Frames of the writer queue *)

AppKinds  == {"app", "replaced"}    \* the handler's outcome, or its substitute
CallKinds == AppKinds \cup {"cancelled", "deadline"}
Kinds     == CallKinds \cup {"oob", "shutdown"}
Acks      == {"none", "ok", "err"}

\* WriterCommand: `ack` names who holds the other end of `committed`, and
\* `slot` says that the command carries the permit of a completed call.
Frames  == [id : Ids \cup {0}, kind : Kinds, ack : {"none", "loop", "call"}, slot : BOOLEAN]
NoFrame == [id |-> 0, kind |-> "none", ack |-> "none", slot |-> FALSE]
Frame(id, kind, ack, slot) == [id |-> id, kind |-> kind, ack |-> ack, slot |-> slot]

NoReply == [id |-> 0, kind |-> "none", ok |-> "none", err |-> "none"]
LoopStates == {"select", "reading", "initializing", "sending", "awaiting",
               "teardown", "aborting", "releasing", "closing", "done"}
Continuations == {"select", "ready", "teardown", "closing"}
Replies == [id : Ids \cup {0}, kind : {"oob", "shutdown"},
            ok : Continuations, err : Continuations]

\* States of run_call in which the handler's future has not completed.
HandlerRunning == {"running", "terminal", "late"}
Ended == {"done", "panicked", "aborted"}
TaskStates == HandlerRunning \cup Ended \cup
  {"none", "respond", "send", "override", "committing", "committed", "uncommitted"}
Live(id) == task[id] \notin Ended \cup {"none"}
Accepted == {id \in Ids : task[id] # "none"}

HasRoom == writer # "closed" /\ Len(queue) < QueueCap
Enqueue(f) == queue' = Append(queue, f)

\* Dropping a command drops the permit it carries and its acknowledgement.
SlotsIn(fs) == {fs[i].id : i \in {j \in DOMAIN fs : fs[j].slot}}
CallAcksIn(fs) == {fs[i].id : i \in {j \in DOMAIN fs : fs[j].ack = "call"}}
LoopAckIn(fs) == \E i \in DOMAIN fs : fs[i].ack = "loop"

\* The read loop gave up on its response: nobody holds the other end any more.
Disown(f) == IF f.ack = "loop" THEN [f EXCEPT !.ack = "none"] ELSE f

----------------------------------------------------------------------------
Init ==
  /\ loop = "select"
  /\ initialized = FALSE
  /\ lastSeen = 0
  /\ reply = NoReply
  /\ replyAck = "none"
  /\ shutdown = 0
  /\ drained = FALSE
  /\ released = FALSE
  /\ expired = {}
  /\ task = [id \in Ids |-> "none"]
  /\ resp = [id \in Ids |-> "none"]
  /\ inflight = {}
  /\ cancelled = {}
  /\ slots = {}
  /\ acks = [id \in Ids |-> "none"]
  /\ finished = [id \in Ids |-> "none"]
  /\ terminals = [id \in Ids |-> 0]
  /\ writer = "open"
  /\ queue = <<>>
  /\ current = NoFrame
  /\ written = {}
  /\ disconnected = FALSE

----------------------------------------------------------------------------
(* The read loop *)

\* Mutant of StartCommit: the response is not remembered.
StartCommit_NoReply(id, kind, ok, err) ==
  /\ loop' = "sending"
  /\ UNCHANGED reply

\* commit(): hand one response to the writer and wait for its bytes, at most
\* COMMIT_TIMEOUT; `ok` and `err` say where serve() goes with the outcome.
StartCommit(id, kind, ok, err) ==
  /\ loop' = "sending"
  /\ reply' = [id |-> id, kind |-> kind, ok |-> ok, err |-> err]

Continue(next) ==
  /\ loop' = IF next = "ready" THEN "select" ELSE next
  /\ initialized' = (initialized \/ next = "ready")
  /\ reply' = NoReply
  /\ replyAck' = "none"
  /\ UNCHANGED <<lastSeen, shutdown, drained, released, callVars, writer, written,
                 expired, slots, acks, disconnected>>

CommitSend ==
  /\ loop = "sending"
  /\ HasRoom
  /\ Enqueue(Frame(reply.id, reply.kind, "loop", FALSE))
  /\ loop' = "awaiting"
  /\ UNCHANGED <<initialized, lastSeen, reply, shutdown, drained, released,
                 callVars, writer, current, written, replyAck, expired, slots,
                 acks, disconnected>>

CommitDone ==
  /\ loop = "awaiting"
  /\ replyAck # "none"
  /\ Continue(IF replyAck = "ok" THEN reply.ok ELSE reply.err)
  /\ UNCHANGED <<queue, current>>

\* Mutant of CommitFails: commit() without COMMIT_TIMEOUT.
CommitFails_NoTimeout ==
  /\ loop \in {"sending", "awaiting"}
  /\ replyAck = "none"
  /\ writer = "closed"
  /\ Continue(reply.err)
  /\ UNCHANGED <<queue, current>>

\* COMMIT_TIMEOUT (or, for the shutdown reply, its deadline) elapsed, or the
\* writer was gone before the frame was queued.
CommitFails ==
  /\ loop \in {"sending", "awaiting"}
  /\ replyAck = "none"
  /\ Continue(reply.err)
  /\ queue' = [i \in DOMAIN queue |-> Disown(queue[i])]
  /\ current' = Disown(current)

\* One poll of the biased select: a disconnect first, then the shutdown
\* deadline, then ended tasks, then the next frame.  Other tasks run between
\* the first checks and the frame, so they are steps of their own.
LoopPolls ==
  /\ loop = "select"
  /\ ~disconnected
  /\ shutdown \notin expired
  /\ \A id \in Ids : task[id] # "panicked"
  /\ loop' = "reading"
  /\ UNCHANGED <<initialized, lastSeen, reply, shutdown, drained, released,
                 callVars, writerVars, replyAck, expired, slots, acks, disconnected>>

\* The pending select is woken by one of the branches before the frame.
LoopWakes ==
  /\ loop = "reading"
  /\ disconnected \/ shutdown \in expired \/ \E id \in Ids : task[id] = "panicked"
  /\ loop' = "select"
  /\ UNCHANGED <<initialized, lastSeen, reply, shutdown, drained, released,
                 callVars, writerVars, replyAck, expired, slots, acks, disconnected>>

LeaveLoop ==
  /\ loop' = "teardown"
  /\ UNCHANGED <<initialized, lastSeen, reply, shutdown, released, callVars,
                 writerVars, replyAck, expired, slots, acks, disconnected>>

LoopDisconnected ==
  /\ loop = "select"
  /\ disconnected
  /\ LeaveLoop
  /\ UNCHANGED drained

LoopDeadline ==
  /\ loop = "select"
  /\ ~disconnected
  /\ shutdown \in expired
  /\ drained' = TRUE
  /\ LeaveLoop

\* Mutant of LoopDrained: the drain does not wait for the accepted calls.
LoopDrained_AtOnce ==
  /\ loop \in {"select", "reading"}
  /\ shutdown # 0
  /\ drained' = TRUE
  /\ LeaveLoop

\* Draining, and the last task has been joined: seen at the top of the loop
\* and again in the join arm of the select.
LoopDrained ==
  /\ loop \in {"select", "reading"}
  /\ shutdown # 0
  /\ \A id \in Ids : task[id] \in {"none", "done"}
  /\ drained' = TRUE
  /\ LeaveLoop

\* join_next reports a task that panicked.
LoopJoinFails ==
  /\ loop = "select"
  /\ ~disconnected
  /\ shutdown \notin expired
  /\ \E id \in Ids : task[id] = "panicked"
  /\ LeaveLoop
  /\ UNCHANGED drained

\* EOF, a read error, a response that answers no callback, or a discovery
\* document that cannot be built ends the session without a response.
ReadEnds ==
  /\ loop = "reading"
  /\ LeaveLoop
  /\ UNCHANGED drained

FreshRequest(id) ==
  /\ loop = "reading"
  /\ id > lastSeen
  /\ lastSeen' = id

\* A malformed frame, a reused ID, a second rpc.initialize, a shutdown with
\* bad parameters, or a request that is not allowed before initialization:
\* one error response, then close.
ReadViolation ==
  /\ loop = "reading"
  /\ \E id \in Ids \cup {0} :
       /\ lastSeen' = IF id > lastSeen THEN id ELSE lastSeen
       /\ StartCommit(id, "oob", "teardown", "teardown")
  /\ UNCHANGED <<initialized, shutdown, drained, released, callVars, writerVars,
                 replyAck, expired, slots, acks, disconnected>>

\* rpc.discover, before or after initialization.  A failed commit is fatal.
ReadDiscover ==
  /\ \E id \in Ids : /\ FreshRequest(id)
                     /\ StartCommit(id, "oob", "select", "teardown")
  /\ UNCHANGED <<initialized, shutdown, drained, released, callVars, writerVars,
                 replyAck, expired, slots, acks, disconnected>>

\* rpc.initialize runs the application's initialize handler.
ReadInitialize ==
  /\ ~initialized
  /\ \E id \in Ids :
       /\ FreshRequest(id)
       /\ loop' = "initializing"
       /\ reply' = [id |-> id, kind |-> "oob", ok |-> "ready", err |-> "teardown"]
  /\ UNCHANGED <<initialized, shutdown, drained, released, callVars, writerVars,
                 replyAck, expired, slots, acks, disconnected>>

\* The initialize handler succeeded; its result is committed under the
\* pre-negotiation limit and only then do application calls start.
InitializeSucceeds ==
  /\ loop = "initializing"
  /\ loop' = "sending"
  /\ UNCHANGED <<initialized, lastSeen, reply, shutdown, drained, released, callVars,
                 writerVars, replyAck, expired, slots, acks, disconnected>>

\* The request failed its checks, the handler failed, its deadline passed, the
\* peer cancelled it or sent something other than a callback response (one
\* error response), or the stream ended (none).
InitializeFails ==
  /\ loop = "initializing"
  /\ \/ StartCommit(reply.id, "oob", "teardown", "teardown")
     \/ loop' = "teardown" /\ reply' = NoReply
  /\ UNCHANGED <<initialized, lastSeen, shutdown, drained, released, callVars,
                 writerVars, replyAck, expired, slots, acks, disconnected>>

\* A request refused without ending the session: the session is shutting down,
\* the method is unknown or was not advertised, its deadline has passed, or no
\* permit is left.
ReadReject ==
  /\ initialized
  /\ \E id \in Ids : /\ FreshRequest(id)
                     /\ StartCommit(id, "oob", "select", "select")
  /\ UNCHANGED <<initialized, shutdown, drained, released, callVars, writerVars,
                 replyAck, expired, slots, acks, disconnected>>

\* An application request that passes every check takes a permit, registers
\* its cancellation token and starts its own task.
ReadCall ==
  /\ initialized
  /\ shutdown = 0
  /\ Cardinality(slots) < MaxInFlight
  /\ \E id \in Ids :
       /\ FreshRequest(id)
       /\ task' = [task EXCEPT ![id] = "running"]
       /\ slots' = slots \cup {id}
       /\ inflight' = inflight \cup {id}
  /\ loop' = "select"
  /\ UNCHANGED <<initialized, reply, shutdown, drained, released, resp, cancelled,
                 finished, terminals, writerVars, replyAck, expired, acks,
                 disconnected>>

\* rpc.cancel: only a registered request has a token to cancel.
ReadCancel ==
  /\ initialized
  /\ loop = "reading"
  /\ \E id \in inflight : cancelled' = cancelled \cup {id}
  /\ loop' = "select"
  /\ UNCHANGED <<initialized, lastSeen, reply, shutdown, drained, released, task, resp,
                 inflight, finished, terminals, writerVars, replyAck, expired,
                 slots, acks, disconnected>>

\* rpc.shutdown with valid parameters starts draining.
ReadShutdown ==
  /\ initialized
  /\ shutdown = 0
  /\ \E id \in Ids : FreshRequest(id) /\ shutdown' = id
  /\ loop' = "select"
  /\ UNCHANGED <<initialized, reply, drained, released, callVars, writerVars,
                 replyAck, expired, slots, acks, disconnected>>

----------------------------------------------------------------------------
(* One accepted call: run_call *)

Goto(id, state) == task' = [task EXCEPT ![id] = state]

\* The permit a call still owns itself; one that travels with its response in
\* the writer queue is the writer's to release.
OwnSlot(id) == {id} \ SlotsIn(queue)

\* The instant of a deadline passes.  Only where a task or the drain can still
\* observe it does this make a difference.
Expire(id) ==
  /\ id \notin expired
  /\ \/ task[id] \in {"running", "respond", "committing"}
     \/ id = shutdown /\ loop \in {"select", "reading"}
  /\ expired' = expired \cup {id}
  /\ UNCHANGED <<loopVars, callVars, writerVars, replyAck, slots, acks, disconnected>>

\* The handler's future completes; an outcome that cannot be encoded within
\* the frame limit is replaced by an error response.
HandlerReturns(id) ==
  /\ task[id] = "running"
  /\ Goto(id, "respond")
  /\ \E r \in AppKinds : resp' = [resp EXCEPT ![id] = r]
  /\ UNCHANGED <<loopVars, inflight, cancelled, finished, terminals, writerVars,
                 replyAck, expired, slots, acks, disconnected>>

\* A panic unwinds the task: the permit goes, the in-flight entry stays.
HandlerPanics(id) ==
  /\ task[id] \in {"running", "late"}
  /\ Goto(id, "panicked")
  /\ slots' = slots \ {id}
  /\ UNCHANGED <<loopVars, resp, inflight, cancelled, finished, terminals, writerVars,
                 replyAck, expired, acks, disconnected>>

\* Mutant of HandlerInterrupted: no deadline branch, only the token.
HandlerInterrupted_NoDeadline(id) ==
  /\ task[id] = "running"
  /\ id \in cancelled
  /\ Goto(id, "terminal")
  /\ resp' = [resp EXCEPT ![id] = "cancelled"]
  /\ UNCHANGED <<loopVars, inflight, cancelled, finished, terminals, writerVars,
                 replyAck, expired, slots, acks, disconnected>>

\* The deadline, then the token, come before the handler's result in the
\* biased select; a passed deadline cancels the token for the handler.
HandlerInterrupted(id) ==
  /\ task[id] = "running"
  /\ id \in expired \cup cancelled
  /\ Goto(id, "terminal")
  /\ resp' = [resp EXCEPT ![id] = IF id \in expired THEN "deadline" ELSE "cancelled"]
  /\ cancelled' = cancelled \cup {id}
  /\ UNCHANGED <<loopVars, inflight, finished, terminals, writerVars, replyAck, expired,
                 slots, acks, disconnected>>

\* Mutant of SendTerminal: the permit goes with the response although the
\* handler is still running.
SendTerminal_FreesSlot(id) ==
  /\ task[id] \in {"terminal", "override"}
  /\ HasRoom
  /\ Goto(id, IF task[id] = "terminal" THEN "late" ELSE "uncommitted")
  /\ Enqueue(Frame(id, resp[id], "none", FALSE))
  /\ terminals' = [terminals EXCEPT ![id] = @ + 1]
  /\ slots' = slots \ {id}
  /\ UNCHANGED <<loopVars, resp, inflight, cancelled, finished, writer, current, written,
                 replyAck, expired, acks, disconnected>>

\* send_terminal(): wait for room in the queue, not for the bytes.  With the
\* writer gone the error is ignored.
SendTerminal(id) ==
  /\ task[id] \in {"terminal", "override"}
  /\ Goto(id, IF task[id] = "terminal" THEN "late" ELSE "uncommitted")
  /\ \/ /\ HasRoom
        /\ Enqueue(Frame(id, resp[id], "none", FALSE))
        /\ terminals' = [terminals EXCEPT ![id] = @ + 1]
     \/ /\ writer = "closed"
        /\ UNCHANGED <<queue, terminals>>
  /\ UNCHANGED <<loopVars, resp, inflight, cancelled, finished, writer, current, written,
                 replyAck, expired, slots, acks, disconnected>>

\* The handler that lost to its deadline or token returns; its outcome is
\* discarded, and only now does the call give up its permit (in Finish).
LateReturn(id) ==
  /\ task[id] = "late"
  /\ Goto(id, "uncommitted")
  /\ UNCHANGED <<loopVars, resp, inflight, cancelled, finished, terminals, writerVars,
                 replyAck, expired, slots, acks, disconnected>>

\* commit_application_before(): one poll of its biased select.
RespondPoll(id) ==
  /\ task[id] = "respond"
  /\ IF id \in expired \cup cancelled
       THEN \* The pending send is dropped, and the permit with it.
            /\ Goto(id, "override")
            /\ resp' = [resp EXCEPT ![id] =
                          IF id \in expired THEN "deadline" ELSE "cancelled"]
            /\ cancelled' = cancelled \cup {id}
            /\ slots' = slots \ {id}
       ELSE /\ Goto(id, "send")
            /\ UNCHANGED <<resp, cancelled, slots>>
  /\ UNCHANGED <<loopVars, inflight, finished, terminals, writerVars, replyAck, expired,
                 acks, disconnected>>

\* Its last branch: queue the response together with the permit, and end the
\* lifetime of the call's callbacks; or wait for room; or find the writer gone.
RespondSend(id) ==
  /\ task[id] = "send"
  /\ \/ /\ HasRoom
        /\ Enqueue(Frame(id, resp[id], "call", TRUE))
        /\ terminals' = [terminals EXCEPT ![id] = @ + 1]
        /\ cancelled' = cancelled \cup {id}
        /\ Goto(id, "committing")
        /\ UNCHANGED slots
     \/ /\ writer # "closed"
        /\ ~HasRoom
        /\ Goto(id, "respond")
        /\ UNCHANGED <<queue, terminals, cancelled, slots>>
     \/ /\ writer = "closed"
        /\ Goto(id, "uncommitted")
        /\ slots' = slots \ {id}
        /\ UNCHANGED <<queue, terminals, cancelled>>
  /\ UNCHANGED <<loopVars, resp, inflight, finished, writer, current, written, replyAck,
                 expired, acks, disconnected>>

\* Mutant of CommitAcked: any acknowledgement counts as a commit.
CommitAcked_AnyOutcome(id) ==
  /\ task[id] = "committing"
  /\ acks[id] # "none"
  /\ Goto(id, IF resp[id] = "app" THEN "committed" ELSE "uncommitted")
  /\ UNCHANGED <<loopVars, resp, inflight, cancelled, finished, terminals, writerVars,
                 replyAck, expired, slots, acks, disconnected>>

\* timeout_at(deadline, committed): the acknowledgement is polled first.  Only
\* the handler's own outcome counts as committed, not its replacement.
CommitAcked(id) ==
  /\ task[id] = "committing"
  /\ acks[id] = "ok"
  /\ Goto(id, IF resp[id] = "app" THEN "committed" ELSE "uncommitted")
  /\ UNCHANGED <<loopVars, resp, inflight, cancelled, finished, terminals, writerVars,
                 replyAck, expired, slots, acks, disconnected>>

\* Mutant of CommitLost: the deadline still replaces a response that is queued.
CommitLost_SecondResponse(id) ==
  /\ task[id] = "committing"
  /\ acks[id] = "none" /\ id \in expired
  /\ Goto(id, "override")
  /\ resp' = [resp EXCEPT ![id] = "deadline"]
  /\ UNCHANGED <<loopVars, inflight, cancelled, finished, terminals, writerVars,
                 replyAck, expired, slots, acks, disconnected>>

\* Mutant of CommitLost: the session goes on.
CommitLost_StaysConnected(id) ==
  /\ task[id] = "committing"
  /\ acks[id] = "err" \/ (acks[id] = "none" /\ id \in expired)
  /\ Goto(id, "uncommitted")
  /\ UNCHANGED <<loopVars, resp, inflight, cancelled, finished, terminals, writerVars,
                 replyAck, expired, slots, acks, disconnected>>

CommitLost(id) ==
  /\ task[id] = "committing"
  /\ acks[id] = "err" \/ (acks[id] = "none" /\ id \in expired)
  /\ Goto(id, "uncommitted")
  /\ disconnected' = TRUE
  /\ UNCHANGED <<loopVars, resp, inflight, cancelled, finished, terminals, writerVars,
                 replyAck, expired, slots, acks>>

\* handler.request_finished(id, committed), then the in-flight entry goes and
\* the task returns, dropping a permit it still owns.
Finish(id) ==
  /\ task[id] \in {"committed", "uncommitted"}
  /\ finished' = [finished EXCEPT ![id] = task[id]]
  /\ inflight' = inflight \ {id}
  /\ slots' = slots \ OwnSlot(id)
  /\ Goto(id, "done")
  /\ UNCHANGED <<loopVars, resp, cancelled, terminals, writerVars, replyAck, expired, acks,
                 disconnected>>

----------------------------------------------------------------------------
(* The writer task *)

\* The permit is released before the first byte is published.
WriterTake ==
  /\ writer = "open"
  /\ current = NoFrame
  /\ queue # <<>>
  /\ current' = Head(queue)
  /\ queue' = Tail(queue)
  /\ slots' = slots \ (IF Head(queue).slot THEN {Head(queue).id} ELSE {})
  /\ UNCHANGED <<loopVars, callVars, writer, written, replyAck, expired, acks,
                 disconnected>>

\* Complete the oneshots of these frames.
Acknowledge(fs, outcome) ==
  /\ acks' = [id \in Ids |-> IF id \in CallAcksIn(fs) THEN outcome ELSE acks[id]]
  /\ replyAck' = IF LoopAckIn(fs) THEN outcome ELSE replyAck

\* The peer may have the last byte before the writer task acknowledges it, or
\* before a flush fails: one step, because the peer of this model sends what it
\* sends whether it has read or not, and because a call that gives up waiting
\* just before this step ends like one that gives up between the two.
WriterWrites ==
  /\ writer = "open"
  /\ current # NoFrame
  /\ written' = written \cup {[id |-> current.id, kind |-> current.kind]}
  /\ Acknowledge(<<current>>, "ok")
  /\ current' = NoFrame
  /\ UNCHANGED <<loopVars, callVars, writer, queue, expired, slots, disconnected>>

\* The write fails: the task stops receiving, but it holds the channel open
\* until it has shut the stream down.
WriterFails ==
  /\ writer = "open"
  /\ current # NoFrame
  /\ Acknowledge(<<current>>, "err")
  /\ current' = NoFrame
  /\ writer' = "stopping"
  /\ disconnected' = TRUE
  /\ UNCHANGED <<loopVars, callVars, queue, written, expired, slots>>

\* Every sender is gone and the queue is empty.
WriterDrained ==
  /\ writer = "open"
  /\ loop = "closing"
  /\ current = NoFrame
  /\ queue = <<>>
  /\ writer' = "stopping"
  /\ UNCHANGED <<loopVars, callVars, queue, current, written, replyAck, expired, slots,
                 acks, disconnected>>

\* The channel is dropped, and every queued command with it: because the
\* stream has been shut down, or because serve() aborts the writer task.
WriterCloses ==
  /\ \/ writer = "stopping"
     \/ writer = "open" /\ loop = "closing"
  /\ writer' = "closed"
  /\ Acknowledge(queue, "err")
  /\ slots' = slots \ SlotsIn(queue)
  /\ queue' = <<>>
  /\ current' = NoFrame
  /\ UNCHANGED <<loopVars, callVars, written, expired, disconnected>>

----------------------------------------------------------------------------
(* The end of serve() *)

\* Fail the callbacks and cancel every registered request.
CancelAll ==
  /\ loop = "teardown"
  /\ cancelled' = cancelled \cup inflight
  /\ loop' = "aborting"
  /\ UNCHANGED <<initialized, lastSeen, reply, shutdown, drained, released, task, resp,
                 inflight, finished, terminals, writerVars, replyAck, expired,
                 slots, acks, disconnected>>

\* abort_all(): a task is dropped at its next suspension point.
AbortTask(id) ==
  /\ loop = "aborting"
  /\ Live(id)
  /\ Goto(id, "aborted")
  /\ slots' = slots \ OwnSlot(id)
  /\ UNCHANGED <<loopVars, resp, inflight, cancelled, finished, terminals, writerVars,
                 replyAck, expired, acks, disconnected>>

\* Every task has been joined.
JoinAll ==
  /\ loop = "aborting"
  /\ \A id \in Ids : ~Live(id)
  /\ loop' = "releasing"
  /\ UNCHANGED <<initialized, lastSeen, reply, shutdown, drained, released, callVars,
                 writerVars, replyAck, expired, slots, acks, disconnected>>

\* handler.shutdown(), and the response to a drained shutdown request.
Release ==
  /\ loop = "releasing"
  /\ released' = initialized
  /\ IF drained THEN StartCommit(shutdown, "shutdown", "closing", "closing")
                ELSE loop' = "closing" /\ UNCHANGED reply
  /\ UNCHANGED <<initialized, lastSeen, shutdown, drained, callVars, writerVars, replyAck,
                 expired, slots, acks, disconnected>>

\* serve() returns once the writer task has ended.
ServeReturns ==
  /\ loop = "closing"
  /\ writer = "closed"
  /\ loop' = "done"
  /\ UNCHANGED <<initialized, lastSeen, reply, shutdown, drained, released, callVars,
                 writerVars, replyAck, expired, slots, acks, disconnected>>

SessionOver == loop = "done" /\ UNCHANGED vars

----------------------------------------------------------------------------
ReadFrame ==
  \/ ReadEnds \/ ReadViolation \/ ReadDiscover \/ ReadInitialize \/ ReadReject
  \/ ReadCall \/ ReadCancel \/ ReadShutdown
Commit == CommitSend \/ CommitDone \/ CommitFails
LoopSelect == LoopPolls \/ LoopWakes \/ LoopDisconnected \/ LoopDeadline
              \/ LoopDrained \/ LoopJoinFails
Initialize == InitializeSucceeds \/ InitializeFails
Teardown == CancelAll \/ (\E id \in Ids : AbortTask(id)) \/ JoinAll \/ Release
            \/ ServeReturns
HandlerSteps(id) == HandlerReturns(id) \/ HandlerPanics(id) \/ LateReturn(id)
CallSteps(id) == HandlerInterrupted(id) \/ SendTerminal(id) \/ RespondPoll(id)
                 \/ RespondSend(id) \/ CommitAcked(id) \/ CommitLost(id) \/ Finish(id)
Writer == WriterTake \/ WriterWrites \/ WriterFails \/ WriterDrained \/ WriterCloses

Next ==
  \/ ReadFrame \/ Commit \/ LoopSelect \/ Initialize \/ Teardown \/ Writer
  \/ \E id \in Ids : Expire(id) \/ HandlerSteps(id) \/ CallSteps(id)
  \/ SessionOver

Spec == Init /\ [][Next]_vars

----------------------------------------------------------------------------
(* Fairness.  Every deadline passes, every wait of serve() is bounded by       *)
(* COMMIT_TIMEOUT, startup_timeout or a deadline, and the executor runs every  *)
(* ready task; a call takes finitely many steps, so it is enough that some     *)
(* call takes one whenever one can.  A handler need not return, a peer need    *)
(* not read or send, and a write need not end.                                 *)

Fairness ==
  /\ WF_vars(Commit \/ LoopSelect \/ Initialize \/ Teardown)
  /\ WF_vars(loop = "closing" /\ WriterCloses)
  /\ WF_vars(\E id \in Ids : Expire(id) \/ CallSteps(id))

FairSpec == Spec /\ Fairness

----------------------------------------------------------------------------
(* Properties *)

\* The types of the state; a response is chosen before it is handed over.
TypeOK ==
  /\ loop \in LoopStates
  /\ initialized \in BOOLEAN
  /\ lastSeen \in Ids \cup {0}
  /\ reply \in Replies \cup {NoReply}
  /\ loop \in {"initializing", "sending", "awaiting"} => reply \in Replies
  /\ replyAck \in Acks
  /\ shutdown \in Ids \cup {0}
  /\ drained \in BOOLEAN
  /\ released \in BOOLEAN
  /\ expired \subseteq Ids
  /\ task \in [Ids -> TaskStates]
  /\ resp \in [Ids -> CallKinds \cup {"none"}]
  /\ \A id \in Ids : task[id] \in {"respond", "send", "terminal", "override"}
                      => resp[id] \in CallKinds
  /\ inflight \subseteq Ids
  /\ cancelled \subseteq Ids
  /\ slots \subseteq Ids
  /\ acks \in [Ids -> Acks]
  /\ finished \in [Ids -> {"none", "committed", "uncommitted"}]
  /\ terminals \in [Ids -> Nat]
  /\ writer \in {"open", "stopping", "closed"}
  /\ queue \in Seq(Frames)
  /\ current \in Frames \cup {NoFrame}
  /\ written \subseteq [id : Ids \cup {0}, kind : Kinds]
  /\ disconnected \in BOOLEAN

Wrote(id, kinds) == \E k \in kinds : [id |-> id, kind |-> k] \in written

\* At most max_in_flight application handlers run at any time, those whose
\* request was already answered with a deadline or cancellation error and that
\* have not returned yet included (the permit in run_call).
HandlersBounded ==
  Cardinality({id \in Ids : task[id] \in HandlerRunning}) <= MaxInFlight

\* A call never hands two responses to the writer, whichever of the handler,
\* the deadline and the cancellation wins, and wherever the loser then is.
OneTerminal == \A id \in Ids : terminals[id] <= 1

\* request_finished(id, true) is reported only when every byte of the handler's
\* own response has been written (the resolver keeps the leases it delivered).
CommittedWasWritten ==
  \A id \in Ids : finished[id] = "committed" => Wrote(id, {"app"})

\* handler.shutdown() runs only after every handler has stopped, so nothing an
\* abandoned call does can recreate what the cleanup released.
ReleasedAfterHandlers == released => \A id \in Ids : ~Live(id)

\* Draining preserves accepted work: nothing is queued behind the response to
\* rpc.shutdown, and a peer that receives it in answer to a shutdown whose
\* deadline had not passed has received the response to each accepted call.
DrainPreservesWork ==
  /\ \A i \in DOMAIN queue : queue[i].kind = "shutdown" => i = Len(queue)
  /\ Wrote(shutdown, {"shutdown"}) /\ shutdown \notin expired
       => \A id \in Accepted : Wrote(id, CallKinds)

\* A disconnect, a shutdown request or a protocol failure ends serve(), though
\* handlers never return and the peer never reads another byte.
SessionEnds ==
  (disconnected \/ shutdown # 0 \/ loop = "teardown") ~> (loop = "done")

\* Every accepted call is answered at its deadline at the latest, or the session
\* ends, though its handler never returns: nothing but a peer that does not read
\* the frames it was sent can put that off.  (IDs are finite: when all calls have
\* been answered again and again, each one was.)
AnsweredOrEnded ==
  []<>(\/ loop = "done"
       \/ queue # <<>> \/ current # NoFrame
       \/ \A id \in Accepted : terminals[id] > 0)

----------------------------------------------------------------------------
(* The inductive invariant behind the safety properties *)

\* A call in one of these states has not handed a response to the writer.
Unanswered == {"none", "running", "terminal", "respond", "send", "override"}
\* A call in one of these states owns its permit.
OwnsPermit == HandlerRunning \cup {"respond", "send"}

\* Request IDs only grow, so a call's ID is never accepted a second time.
SeenInv == \A id \in Ids : task[id] # "none" => id <= lastSeen

\* A permit in the queue belongs to a call that no longer owns it.
SlotInv ==
  /\ Cardinality(slots) <= MaxInFlight
  /\ \A id \in Ids : task[id] \in OwnsPermit => id \in slots
  /\ \A i \in DOMAIN queue :
       queue[i].slot => /\ queue[i].id \in Ids
                        /\ task[queue[i].id] \notin OwnsPermit \cup {"none"}

TerminalInv ==
  \A id \in Ids : /\ terminals[id] <= 1
                  /\ task[id] \in Unanswered => terminals[id] = 0

\* A frame whose acknowledgement a call waits for carries that call's response.
FrameInv(f) ==
  f.ack = "call" => /\ f.id \in Ids
                    /\ task[f.id] \notin Unanswered
                    /\ f.kind = resp[f.id]
CommitInv ==
  /\ \A i \in DOMAIN queue : FrameInv(queue[i])
  /\ FrameInv(current)
  /\ \A id \in Ids : acks[id] = "ok" => /\ task[id] \notin Unanswered
                                        /\ Wrote(id, {resp[id]})
  /\ \A id \in Ids : task[id] = "committed" => Wrote(id, {"app"})
  /\ CommittedWasWritten

\* The only response that is committed after the tasks have been joined is the
\* one to rpc.shutdown, and serve() does nothing after it but close the stream.
ReleaseInv ==
  /\ loop \in {"releasing", "closing", "done"} => \A id \in Ids : ~Live(id)
  /\ reply.kind = "shutdown" => /\ loop \in {"sending", "awaiting"}
                                /\ reply.ok = "closing" /\ reply.err = "closing"
                                /\ \A id \in Ids : ~Live(id)
  /\ reply.kind = "oob" => "closing" \notin {reply.ok, reply.err}
  /\ released => loop \in {"closing", "done"} \/ reply.kind = "shutdown"

Inv == TypeOK /\ SeenInv /\ SlotInv /\ TerminalInv /\ CommitInv /\ ReleaseInv

============================================================================
