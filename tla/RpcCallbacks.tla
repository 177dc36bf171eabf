---------------------------- MODULE RpcCallbacks ----------------------------
(***************************************************************************)
(* Callbacks: requests an endpoint sends to its client while it serves one *)
(* of the client's own requests.  The endpoint's half is Peer in           *)
(* crates/monosecret_rpc/src/server.rs, the client's half the reader task  *)
(* and serve_callback in crates/monosecret_rpc/src/client.rs; a FIFO       *)
(* transport connects them.  The client closes the whole session when a    *)
(* callback names a request it no longer waits for, has a later deadline   *)
(* than that request, comes out of order or exceeds the negotiated limit,  *)
(* so the two sides must agree on all four although neither sees the       *)
(* other's state.  (The client also refuses a method it never advertised   *)
(* and a callback without a parent: Peer::call sends neither.)             *)
(***************************************************************************)
EXTENDS Integers, Sequences, FiniteSets

CONSTANTS
  Parents,       \* the client's requests, all of them accepted by the endpoint
  Callers,       \* bound: executions of Peer::call
  Limit,         \* negotiated limits.max_in_flight, for each direction
  MaxAbandoned,  \* MAX_ABANDONED_CALLBACKS
  QueueCap,      \* capacity of the endpoint's writer channel
  Applications,  \* the sets of habits an instance of the model is about
  NoOne          \* neither a parent nor a caller

ASSUME CallbackAssumption ==
  /\ IsFiniteSet(Parents) /\ IsFiniteSet(Callers)
  /\ Limit \in Nat \ {0} /\ MaxAbandoned \in Nat /\ Limit < MaxAbandoned
  /\ QueueCap \in Nat \ {0}
  /\ NoOne \notin Parents \cup Callers
  /\ \A h \in Applications : h \subseteq {"spawns", "abandons", "panics", "drifts"}

VARIABLES
  habits,     \* what the applications and clocks of the session may do (see Habits)
  answered,   \* parents whose terminal response the endpoint has queued
  stopped,    \* parents whose cancellation token is cancelled at the endpoint
  caller,     \* where each Peer::call is
  parent,     \* the parent a Peer::call serves
  callId,     \* the ID it allocated, 0 before
  nextId,     \* PeerInner::next_id
  order,      \* holder of PeerInner::request_order
  pending,    \* keys of PeerCalls::pending
  abandoned,  \* keys of PeerCalls::abandoned
  toClient,   \* the endpoint's writer queue and the transport behind it
  toServer,   \* the client's writer queue and the transport behind it
  waiting,    \* client: keys of pending
  givenUp,    \* client: abandoned
  ended,      \* client: parents whose callback cancellation is cancelled
  lastSeen,   \* client: inbound.last_seen_id
  callback,   \* client: the task that answers a callback
  active,     \* client: inbound.active
  failed      \* why a side closed the session, "no" while it runs

serverVars == <<answered, stopped, caller, parent, callId, nextId, order, pending,
                abandoned>>
clientVars == <<waiting, givenUp, ended, lastSeen, callback, active>>
vars == <<habits, serverVars, clientVars, toClient, toServer, failed>>

\* Handlers run Peer::call on tasks of their own; the client's callers drop a
\* call or let its deadline pass; the client's callback handler panics; time
\* passes between the two clock readings of a deadline, or a clock is set.
Habits == {"spawns", "abandons", "panics", "drifts"}
Spawned == "spawns" \in habits
Abandons == "abandons" \in habits
Panics == "panics" \in habits
Drifts == "drifts" \in habits

CallIds == 1 .. Cardinality(Callers)

\* States of Peer::call; those in which it owns a permit come first.
Holding == {"permit", "sending", "checked", "queued"}
Reasons == {"no", "parent", "deadline", "active", "order", "answer", "response"}

\* A callback's deadline is kept as what the client asks of it: whether it is
\* later than the deadline of its parent.
Callback(id, p, late) == [type |-> "callback", id |-> id, parent |-> p, late |-> late]
Response(p)     == [type |-> "response", id |-> 0, parent |-> p]
Answer(id)      == [type |-> "answer", id |-> id, parent |-> NoOne]
CancelFrame(p)  == [type |-> "cancel", id |-> 0, parent |-> p]

Init ==
  /\ habits \in Applications
  /\ answered = {} /\ stopped = {}
  /\ caller = [k \in Callers |-> "idle"]
  /\ parent = [k \in Callers |-> NoOne]
  /\ callId = [k \in Callers |-> 0]
  /\ nextId = 1 /\ order = NoOne
  /\ pending = {} /\ abandoned = {}
  /\ toClient = <<>> /\ toServer = <<>>
  /\ waiting = Parents /\ givenUp = {} /\ ended = {}
  /\ lastSeen = 0
  /\ callback = [id \in CallIds |-> "none"]
  /\ active = 0
  /\ failed = "no"

----------------------------------------------------------------------------
(* The endpoint: Peer::call *)

Goto(k, state) == caller' = [caller EXCEPT ![k] = state]

\* Permits are owned by running calls, and by abandoned ones until the client
\* answers them.
Permits == Cardinality({k \in Callers : caller[k] \in Holding}) + Cardinality(abandoned)

\* Peer::call derives the deadline from its parent's once it has a permit: it
\* reads the monotonic clock, then the wall clock.  Unless time passes between
\* the two or the wall clock is set, it comes out no later (see Deadline).
DerivedLate == IF Drifts THEN BOOLEAN ELSE {FALSE}

CallBegins(k) ==
  /\ failed = "no"
  /\ caller[k] = "idle"
  /\ \E p \in Parents \ stopped :
       /\ p \notin answered \/ Spawned
       /\ parent' = [parent EXCEPT ![k] = p]
  /\ Permits < Limit
  /\ Goto(k, "permit")
  /\ UNCHANGED <<answered, stopped, callId, nextId, order, pending, abandoned,
                 clientVars, toClient, toServer, failed>>

\* Mutant of CallOrders: the ID is allocated without holding the order lock.
CallOrders_NoLock(k) ==
  /\ failed = "no"
  /\ caller[k] = "permit"
  /\ parent[k] \notin stopped
  /\ callId' = [callId EXCEPT ![k] = nextId]
  /\ nextId' = nextId + 1
  /\ pending' = pending \cup {nextId}
  /\ Goto(k, "sending")
  /\ UNCHANGED <<answered, stopped, parent, order, abandoned, clientVars, toClient,
                 toServer, failed>>

\* Under request_order an ID is allocated and its answer is expected.
CallOrders(k) ==
  /\ failed = "no"
  /\ caller[k] = "permit"
  /\ parent[k] \notin stopped
  /\ order = NoOne
  /\ order' = k
  /\ callId' = [callId EXCEPT ![k] = nextId]
  /\ nextId' = nextId + 1
  /\ pending' = pending \cup {nextId}
  /\ Goto(k, "sending")
  /\ UNCHANGED <<answered, stopped, parent, abandoned, clientVars, toClient, toServer,
                 failed>>

\* A payload past the frame limit: its ID is used up, nothing is sent.
CallTooLarge(k) ==
  /\ failed = "no"
  /\ caller[k] = "permit"
  /\ parent[k] \notin stopped
  /\ order = NoOne
  /\ nextId' = nextId + 1
  /\ Goto(k, "done")
  /\ UNCHANGED <<answered, stopped, parent, callId, order, pending, abandoned, clientVars,
                 toClient, toServer, failed>>

\* The biased select around writer.send: the token first ...
CallChecks(k) ==
  /\ failed = "no"
  /\ caller[k] = "sending"
  /\ parent[k] \notin stopped
  /\ Goto(k, "checked")
  /\ UNCHANGED <<answered, stopped, parent, callId, nextId, order, pending, abandoned,
                 clientVars, toClient, toServer, failed>>

\* ... then the queue; the order lock is released once the frame is in it.
CallSends(k) ==
  /\ failed = "no"
  /\ caller[k] = "checked"
  /\ IF Len(toClient) < QueueCap
       THEN /\ \E late \in DerivedLate :
                 toClient' = Append(toClient, Callback(callId[k], parent[k], late))
            /\ order' = IF order = k THEN NoOne ELSE order
            /\ Goto(k, "queued")
       ELSE /\ Goto(k, "sending")
            /\ UNCHANGED <<toClient, order>>
  /\ UNCHANGED <<answered, stopped, parent, callId, nextId, pending, abandoned,
                 clientVars, toServer, failed>>

\* Cancelled (a passed deadline included) before the frame was queued.
CallWithdraws(k) ==
  /\ failed = "no"
  /\ caller[k] \in {"permit", "sending"}
  /\ parent[k] \in stopped
  /\ pending' = pending \ {callId[k]}
  /\ order' = IF order = k THEN NoOne ELSE order
  /\ Goto(k, "done")
  /\ UNCHANGED <<answered, stopped, parent, callId, nextId, abandoned, clientVars,
                 toClient, toServer, failed>>

\* Mutant of CallAbandons: the permit is dropped with the call.
CallAbandons_FreesPermit(k) ==
  /\ failed = "no"
  /\ caller[k] = "queued"
  /\ parent[k] \in stopped
  /\ Goto(k, "done")
  /\ UNCHANGED <<answered, stopped, parent, callId, nextId, order, pending, abandoned,
                 clientVars, toClient, toServer, failed>>

\* abandon_call(): unless the answer is already here, the marker keeps the
\* permit, as long as there is room for markers.
CallAbandons(k) ==
  /\ failed = "no"
  /\ caller[k] = "queued"
  /\ parent[k] \in stopped
  /\ pending' = pending \ {callId[k]}
  /\ abandoned' = IF callId[k] \in pending /\ Cardinality(abandoned) < MaxAbandoned
                    THEN abandoned \cup {callId[k]} ELSE abandoned
  /\ Goto(k, "done")
  /\ UNCHANGED <<answered, stopped, parent, callId, nextId, order, clientVars, toClient,
                 toServer, failed>>

\* The answer has been delivered.
CallReturns(k) ==
  /\ failed = "no"
  /\ caller[k] = "queued"
  /\ callId[k] \notin pending
  /\ Goto(k, "done")
  /\ UNCHANGED <<answered, stopped, parent, callId, nextId, order, pending, abandoned,
                 clientVars, toClient, toServer, failed>>

----------------------------------------------------------------------------
(* The endpoint: the parent's task and the read loop *)

Serving(p) == {k \in Callers : parent[k] = p /\ caller[k] \in Holding}

\* The parent's deadline passes, or its response has been queued.
Expires(p) ==
  /\ failed = "no"
  /\ p \notin stopped
  /\ stopped' = stopped \cup {p}
  /\ UNCHANGED <<answered, caller, parent, callId, nextId, order, pending, abandoned,
                 clientVars, toClient, toServer, failed>>

\* The terminal response is queued: the handler has returned, or the call was
\* cancelled and its handler may still be running.  A handler that makes its
\* callbacks itself shares run_call's task: nothing happens between the check
\* and the send of a callback, and no callback is left when it returns.
Responds(p) ==
  /\ failed = "no"
  /\ p \notin answered
  /\ p \in stopped \/ Spawned \/ Serving(p) = {}
  /\ Spawned \/ \A k \in Serving(p) : caller[k] # "checked"
  /\ Len(toClient) < QueueCap
  /\ toClient' = Append(toClient, Response(p))
  /\ answered' = answered \cup {p}
  /\ UNCHANGED <<stopped, caller, parent, callId, nextId, order, pending, abandoned,
                 clientVars, toServer, failed>>

\* Mutant of ServerReads: an answer nobody waits for any more is unexpected.
ServerReads_Strict ==
  /\ failed = "no"
  /\ toServer # <<>>
  /\ LET f == Head(toServer) IN
       /\ toServer' = Tail(toServer)
       /\ pending' = pending \ {f.id}
       /\ abandoned' = abandoned \ {f.id}
       /\ failed' = IF f.type = "answer" /\ f.id \notin pending THEN "answer" ELSE "no"
       /\ stopped' = IF f.type = "cancel" THEN stopped \cup {f.parent} ELSE stopped
  /\ UNCHANGED <<answered, caller, parent, callId, nextId, order, clientVars, toClient>>

\* Mutant of ServerReads: the answer to an abandoned callback is dropped and
\* its marker stays.
ServerReads_KeepsMarker ==
  /\ failed = "no"
  /\ toServer # <<>>
  /\ LET f == Head(toServer) IN
       /\ toServer' = Tail(toServer)
       /\ pending' = pending \ {f.id}
       /\ failed' = IF f.type = "answer" /\ f.id \notin pending \cup abandoned
                      THEN "answer" ELSE "no"
       /\ stopped' = IF f.type = "cancel" THEN stopped \cup {f.parent} ELSE stopped
  /\ UNCHANGED <<answered, caller, parent, callId, nextId, order, abandoned, clientVars,
                 toClient>>

\* The read loop: deliver() an answer, or cancel a request in flight.
ServerReads ==
  /\ failed = "no"
  /\ toServer # <<>>
  /\ LET f == Head(toServer) IN
       /\ toServer' = Tail(toServer)
       /\ pending' = pending \ {f.id}
       /\ abandoned' = abandoned \ {f.id}
       /\ failed' = IF f.type = "answer" /\ f.id \notin pending \cup abandoned
                      THEN "answer" ELSE "no"
       /\ stopped' = IF f.type = "cancel" THEN stopped \cup {f.parent} ELSE stopped
  /\ UNCHANGED <<answered, caller, parent, callId, nextId, order, clientVars, toClient>>

----------------------------------------------------------------------------
(* The client *)

\* serve_callback() refuses: the session is closed.
Refusal(f) ==
  IF f.parent \notin waiting THEN "parent"
  ELSE IF f.late THEN "deadline"
  ELSE IF active >= Limit THEN "active"
  ELSE IF f.id <= lastSeen THEN "order" ELSE "no"

ReadsCallback ==
  /\ failed = "no"
  /\ toClient # <<>>
  /\ LET f == Head(toClient) IN
       /\ f.type = "callback"
       /\ failed' = Refusal(f)
       /\ IF Refusal(f) = "no"
            THEN /\ lastSeen' = f.id
                 /\ active' = active + 1
                 /\ callback' = [callback EXCEPT ![f.id] = "running"]
            ELSE UNCHANGED <<lastSeen, active, callback>>
  /\ toClient' = Tail(toClient)
  /\ UNCHANGED <<serverVars, waiting, givenUp, ended, toServer>>

\* A response ends its request and the callbacks that serve it.
ReadsResponse ==
  /\ failed = "no"
  /\ toClient # <<>>
  /\ LET p == Head(toClient).parent IN
       /\ Head(toClient).type = "response"
       /\ failed' = IF p \in waiting \cup givenUp THEN "no" ELSE "response"
       /\ ended' = IF p \in waiting THEN ended \cup {p} ELSE ended
       /\ waiting' = waiting \ {p}
       /\ givenUp' = givenUp \ {p}
  /\ toClient' = Tail(toClient)
  /\ UNCHANGED <<serverVars, lastSeen, callback, active, toServer>>

\* The client's handler returns, the callback's deadline passes or its parent
\* has ended: the slot is free before the answer is queued.
CallbackEnds(id) ==
  /\ failed = "no"
  /\ callback[id] = "running"
  /\ callback' = [callback EXCEPT ![id] = "answering"]
  /\ active' = active - 1
  /\ UNCHANGED <<serverVars, waiting, givenUp, ended, lastSeen, toClient, toServer, failed>>

\* One terminal answer, value-free when the parent has ended meanwhile.
CallbackAnswers(id) ==
  /\ failed = "no"
  /\ callback[id] = "answering"
  /\ callback' = [callback EXCEPT ![id] = "answered"]
  /\ toServer' = Append(toServer, Answer(id))
  /\ UNCHANGED <<serverVars, waiting, givenUp, ended, lastSeen, active, toClient, failed>>

\* The task dies with the handler: its slot is not given back, nothing is sent.
CallbackPanics(id) ==
  /\ Panics
  /\ failed = "no"
  /\ callback[id] = "running"
  /\ callback' = [callback EXCEPT ![id] = "panicked"]
  /\ UNCHANGED <<serverVars, waiting, givenUp, ended, lastSeen, active, toClient, toServer,
                 failed>>

\* Call::cancel: the request stays pending, its callbacks are cancelled; the
\* notification may still be waiting for room when the deadline passes.
ClientCancels(p) ==
  /\ failed = "no"
  /\ p \in waiting \ ended
  /\ ended' = ended \cup {p}
  /\ toServer' \in {toServer, Append(toServer, CancelFrame(p))}
  /\ UNCHANGED <<serverVars, waiting, givenUp, lastSeen, callback, active, toClient, failed>>

\* abandon_request() and try_queue_cancel(): a dropped call, or its deadline.
ClientAbandons(p) ==
  /\ Abandons
  /\ failed = "no"
  /\ p \in waiting
  /\ waiting' = waiting \ {p}
  /\ givenUp' = givenUp \cup {p}
  /\ ended' = ended \cup {p}
  /\ toServer' \in {toServer, Append(toServer, CancelFrame(p))}
  /\ UNCHANGED <<serverVars, lastSeen, callback, active, toClient, failed>>

----------------------------------------------------------------------------
Quiet ==
  /\ \/ failed # "no"
     \/ answered = Parents /\ toClient = <<>> /\ toServer = <<>>
  /\ UNCHANGED vars

PeerCall(k) == \/ CallBegins(k) \/ CallOrders(k) \/ CallTooLarge(k) \/ CallChecks(k) \/ CallSends(k)
               \/ CallWithdraws(k) \/ CallAbandons(k) \/ CallReturns(k)
Reader == ReadsCallback \/ ReadsResponse
Answering(id) == CallbackEnds(id) \/ CallbackAnswers(id)

Step ==
  \/ \E k \in Callers : PeerCall(k)
  \/ \E p \in Parents : Expires(p) \/ Responds(p) \/ ClientCancels(p) \/ ClientAbandons(p)
  \/ ServerReads \/ Reader
  \/ \E id \in CallIds : Answering(id) \/ CallbackPanics(id)
  \/ Quiet

Next == Step /\ UNCHANGED habits

Spec == Init /\ [][Next]_vars

----------------------------------------------------------------------------
(* Properties *)

\* The types of the state.
TypeOK ==
  /\ habits \subseteq Habits
  /\ answered \subseteq Parents /\ stopped \subseteq Parents
  /\ caller \in [Callers -> Holding \cup {"idle", "done"}]
  /\ parent \in [Callers -> Parents \cup {NoOne}]
  /\ callId \in [Callers -> CallIds \cup {0}]
  /\ nextId \in Nat
  /\ order \in Callers \cup {NoOne}
  /\ pending \subseteq CallIds /\ abandoned \subseteq CallIds
  /\ waiting \subseteq Parents /\ givenUp \subseteq Parents /\ ended \subseteq Parents
  /\ lastSeen \in CallIds \cup {0}
  /\ callback \in [CallIds -> {"none", "running", "answering", "answered", "panicked"}]
  /\ active \in Nat
  /\ failed \in Reasons

\* Whatever a handler does with its callbacks and however the client's callers
\* give up, callbacks reach the client in ID order, within its limit, and each
\* answer and response finds its request: a session is closed over nothing but
\* a callback whose parent has ended, or whose deadline came out later than its
\* parent's because a clock moved while it was derived (request_order, the
\* permit that an abandoned callback keeps, deliver, serve_callback).
OnlyParentsDisagree ==
  \/ failed \in {"no", "parent"}
  \/ failed = "deadline" /\ Drifts

\* A handler that makes its callbacks itself never sends one behind its own
\* response: the session of a patient client is closed over nothing but a late
\* derived deadline, and not at all while the clocks stand still for it.
PatientSessionsLast ==
  ~Spawned /\ ~Abandons => failed = "no" \/ (failed = "deadline" /\ Drifts)

\* A callback the client counts as active, also because its handler panicked,
\* owns a permit at the endpoint, so an endpoint that has a permit to send with
\* never exceeds the client's limit.
ActiveOwnPermits ==
  \A id \in CallIds : callback[id] \in {"running", "panicked"} =>
    \/ id \in abandoned
    \/ \E k \in Callers : callId[k] = id /\ caller[k] = "queued"

\* The permit that an abandoned callback keeps is on its way back as long as
\* the session lasts: its request is still to be read, being answered, or its
\* answer is still to be read.  Only the panic of the client's handler loses it.
MarkersAwaitAnswers ==
  failed = "no" => \A id \in abandoned :
    \/ \E i \in DOMAIN toClient : toClient[i].type = "callback" /\ toClient[i].id = id
    \/ callback[id] \in {"running", "answering", "panicked"}
    \/ \E i \in DOMAIN toServer : toServer[i].type = "answer" /\ toServer[i].id = id
=============================================================================
