-------------------------- MODULE ExternalSessions --------------------------
(***************************************************************************)
(* The host side of an external provider: one ExternalProvider             *)
(* (monosecret/src/provider/external.rs), the endpoint processes it starts *)
(* and stops (ChildSession, monosecret_rpc/src/lifecycle.rs) and, per      *)
(* endpoint, the state of the client of the session with it                *)
(* (monosecret_rpc/src/client.rs).                                         *)
(*                                                                         *)
(* Callers are threads of the host.  Each is idle, changes an input of the *)
(* provider (its reason, project, profile...), or performs an operation:   *)
(* it takes the session in use or starts an endpoint, sends one request    *)
(* and waits for what becomes of it.  Endpoints answer, fall silent, break *)
(* their output or exit whenever they like.  A generation stands for the   *)
(* initialization inputs, a member of Metas for what an endpoint reports   *)
(* of itself.                                                              *)
(***************************************************************************)
EXTENDS Naturals, FiniteSets

CONSTANTS
  Callers,       \* threads that share the provider
  MaxEndpoints,  \* endpoint processes that may exist at one time
  MaxChanges,    \* changes of the initialization inputs
  MaxInFlight,   \* requests in flight in a session (16 in the code)
  Metas,         \* what an endpoint may report of itself
  Detached,      \* TRUE: sessions may be closed on a helper thread
  None

ASSUME SizesAssumption ==
  /\ MaxEndpoints \in Nat \ {0} /\ MaxChanges \in Nat
  /\ MaxInFlight \in Nat \ {0}
  /\ Detached \in BOOLEAN
  /\ IsFiniteSet(Callers) /\ Metas # {}
  /\ None \notin Callers \cup Metas

VARIABLES
  ext,     \* ExternalState: the session in use, the generation, the latch
  meta,    \* ExternalProvider::metadata, set once
  launch,  \* who holds ExternalProvider::launch
  ses,     \* the endpoints and the sessions with them
  pc       \* what every caller is doing

vars == <<ext, meta, launch, ses, pc>>

Sessions == 1..MaxEndpoints

\* The record of an endpoint that was never started, or has been reaped: the
\* child is "running", "broken" (it runs, and its output is closed or breaks
\* the protocol), "exited" or "none".
NoSession ==
  [gen |-> 0, meta |-> None, child |-> "none", reader |-> FALSE,
   state |-> "closed", closer |-> "none", pending |-> {}]

Idle == [at |-> "idle", s |-> 0, base |-> 0,
         lost |-> 0, res |-> "none", next |-> "idle"]

Init ==
  /\ ext = [session |-> 0, gen |-> 0, refused |-> FALSE, dropped |-> FALSE]
  /\ meta = None
  /\ launch = None
  /\ ses = [n \in Sessions |-> NoSession]
  /\ pc = [c \in Callers |-> Idle]

-----------------------------------------------------------------------------
(* Steps of one caller and of one session.                                 *)

\* The caller moves to place `at`.
Goto(c, at) == pc' = [pc EXCEPT ![c].at = at]

\* The caller is done and releases the launch lock if it holds it.
Finish(c) ==
  /\ pc' = [pc EXCEPT ![c] = Idle]
  /\ launch' = IF launch = c THEN None ELSE launch

\* fail_session: the state is closed for everyone who looks, every pending
\* request is dropped.
Failed(r) == [r EXCEPT !.state = "closed", !.pending = {}]

\* close_live_session(n): the cleanup of the session starts, `c` waits for it
\* and then goes on at `next`.
CloseLive(c, n, next) ==
  /\ ses' = [ses EXCEPT ![n].closer = "begin"]
  /\ pc' = [pc EXCEPT ![c].at = "closing", ![c].s = n, ![c].next = next,
                      ![c].res = "none"]

\* The caller goes on at `next` without a session.
Resume(c, next) ==
  IF next = "idle"
  THEN Finish(c)
  ELSE /\ pc' = [pc EXCEPT ![c] = [Idle EXCEPT !.at = next, !.base = pc[c].base,
                                                !.lost = pc[c].lost]]
       /\ UNCHANGED launch

\* The cleanup has ended, or goes on without the caller: on a current-thread
\* runtime run_to_completion_or_detach leaves it to a helper thread.
Closing(c) ==
  /\ pc[c].at = "closing"
  /\ Detached \/ ses[pc[c].s].closer = "none"
  /\ Resume(c, pc[c].next)
  /\ UNCHANGED <<ext, meta, ses>>

-----------------------------------------------------------------------------
(* ensure_session, live_session and launch_session.                        *)

\* An operation begins.  `base` remembers the inputs in force.
Begin(c) ==
  /\ pc[c].at = "idle"
  /\ ~ext.dropped
  /\ pc' = [pc EXCEPT ![c] = [Idle EXCEPT !.at = "live", !.base = ext.gen]]
  /\ UNCHANGED <<ext, meta, launch, ses>>

\* live_session, first without and then with the launch lock: the session in
\* use unless it has closed; one that has closed is detached and cleaned up.
LiveSession(c) ==
  /\ pc[c].at \in {"live", "relive"}
  /\ LET n    == ext.session
         next == IF pc[c].at = "live" THEN "lock" ELSE "snapshot"
     IN  \/ /\ ext.refused
            /\ Finish(c)
            /\ UNCHANGED <<ext, ses>>
         \/ /\ ~ext.refused /\ n = 0
            /\ Goto(c, next)
            /\ UNCHANGED <<ext, launch, ses>>
         \/ /\ ~ext.refused /\ n # 0 /\ ses[n].state # "closed"
            /\ pc' = [pc EXCEPT ![c].at = "start", ![c].s = n]
            /\ launch' = IF launch = c THEN None ELSE launch
            /\ UNCHANGED <<ext, ses>>
         \/ /\ ~ext.refused /\ n # 0 /\ ses[n].state = "closed"
            /\ ext' = [ext EXCEPT !.session = 0]
            /\ CloseLive(c, n, next)
            /\ UNCHANGED launch
  /\ UNCHANGED meta

LockLaunch(c) ==
  /\ pc[c].at = "lock"
  /\ launch = None
  /\ launch' = c
  /\ Goto(c, "relive")
  /\ UNCHANGED <<ext, meta, ses>>

\* Nothing of the session with endpoint n is left.
Free(n) ==
  /\ ses[n].child = "none" /\ ~ses[n].reader
  /\ ext.session # n
  /\ \A c \in Callers : pc[c].s # n

\* What a new endpoint may say of itself: until one has been used, any member
\* of Metas stands for all of them.
Reports == IF meta = None THEN {CHOOSE m \in Metas : TRUE} ELSE Metas

\* spawn_with_callbacks: the process runs, connect has started the tasks of the
\* session and the initialize request is on its way.
Started(m) ==
  [NoSession EXCEPT !.gen = ext.gen, !.meta = m, !.child = "running",
                    !.reader = TRUE, !.state = "initializing"]

\* launch_session takes a snapshot of the inputs and spawns an endpoint
\* with them.  Spawning may fail.
Spawn(c) ==
  /\ pc[c].at = "snapshot"
  /\ \/ /\ Finish(c)
        /\ UNCHANGED ses
     \/ \E n \in Sessions, m \in Reports :
          /\ Free(n)
          /\ \A k \in Sessions : Free(k) => n <= k
          /\ ses' = [ses EXCEPT ![n] = Started(m)]
          /\ pc' = [pc EXCEPT ![c].at = "connecting", ![c].s = n]
          /\ UNCHANGED launch
  /\ UNCHANGED <<ext, meta>>

\* The reader delivers the endpoint's answer to initialize.
Initialized(c) ==
  /\ pc[c].at = "connecting"
  /\ ses[pc[c].s].child = "running" /\ ses[pc[c].s].reader
  /\ Goto(c, "initialized")
  /\ UNCHANGED <<ext, meta, launch, ses>>

\* connect fails: the session failed, the startup deadline passed or the
\* answer does not validate.  The transport is aborted and the endpoint
\* killed and reaped.
ConnectFails(c) ==
  /\ pc[c].at \in {"connecting", "initialized"}
  /\ ses' = [ses EXCEPT ![pc[c].s] = NoSession]
  /\ Finish(c)
  /\ UNCHANGED <<ext, meta>>

\* The end of connect stores READY, whatever has become of the session since
\* the answer was delivered.
Ready(c) ==
  /\ pc[c].at = "initialized"
  /\ ses' = [ses EXCEPT ![pc[c].s].state = "ready"]
  /\ Goto(c, "publish")
  /\ UNCHANGED <<ext, meta, launch>>

\* Mutant of Publish: the generation is not compared.
PublishOvertaken(c) ==
  /\ pc[c].at = "publish"
  /\ meta \in {None, ses[pc[c].s].meta}
  /\ meta' = ses[pc[c].s].meta
  /\ ext' = [ext EXCEPT !.session = pc[c].s]
  /\ launch' = None
  /\ Goto(c, "start")
  /\ UNCHANGED ses

\* Mutant of Publish: an overtaken endpoint is not closed.
PublishForgets(c) ==
  /\ pc[c].at = "publish"
  /\ ses[pc[c].s].gen # ext.gen
  /\ pc' = [pc EXCEPT ![c].at = "relive", ![c].s = 0]
  /\ UNCHANGED <<ext, meta, launch, ses>>

\* What launch_session does with an initialized endpoint: refuse what it
\* says of itself, drop it when the inputs changed meanwhile, or use it.
Publish(c) ==
  /\ pc[c].at = "publish"
  /\ LET n == pc[c].s
         fresh   == ses[n].gen = ext.gen
         changed == meta \notin {None, ses[n].meta}
     IN  \/ /\ CloseLive(c, n, "idle")
            /\ UNCHANGED <<ext, meta, launch>>
         \/ /\ ~fresh
            /\ CloseLive(c, n, "relive")
            /\ UNCHANGED <<ext, meta, launch>>
         \/ /\ fresh /\ ~changed
            /\ meta' = ses[n].meta
            /\ ext' = [ext EXCEPT !.session = n]
            /\ launch' = None
            /\ Goto(c, "start")
            /\ UNCHANGED ses

-----------------------------------------------------------------------------
(* One request: Client::start, Call::wait and ExternalProvider::call.      *)

Holders(n)   == {c \in Callers : pc[c].s = n /\ pc[c].at \in {"register", "waiting"}}
OrderHeld(n) == \E c \in Callers : pc[c].s = n /\ pc[c].at = "register"

Returned(c, res) == pc' = [pc EXCEPT ![c].at = "returned", ![c].res = res]

\* start: a permit is tried, then the order lock is taken and the state is
\* looked at.
Start(c) ==
  /\ pc[c].at = "start"
  /\ LET n == pc[c].s
         full == Cardinality(Holders(n)) >= MaxInFlight
     IN  \/ /\ ses[n].state # "ready"
            /\ Returned(c, "closed")
         \/ /\ ses[n].state = "ready" /\ full
            /\ Returned(c, "unavailable")
         \/ /\ ses[n].state = "ready" /\ ~full /\ ~OrderHeld(n)
            /\ Goto(c, "register")
  /\ UNCHANGED <<ext, meta, launch, ses>>

\* start, after the look at the state: the request is entered in `pending`
\* and its frame is queued and written.  The write to an endpoint that is
\* gone fails the session; a writer that is blocked, or has ended, makes
\* start return an error and removes the entry.
Register(c) ==
  /\ pc[c].at = "register"
  /\ LET n == pc[c].s
         r == ses[n]
     IN  \/ /\ r.child \in {"running", "broken"}
            /\ ses' = [ses EXCEPT ![n].pending = @ \cup {c}]
            /\ pc' = [pc EXCEPT ![c].at = "waiting", ![c].lost = @ + 1]
         \/ /\ r.child \in {"exited", "none"}
            /\ ses' = [ses EXCEPT ![n] = Failed(@)]
            /\ Returned(c, "closed")
         \/ /\ Returned(c, "failed")
            /\ UNCHANGED ses
  /\ UNCHANGED <<ext, meta, launch>>

\* The endpoint answers a request and the reader hands the answer to whoever
\* waits for it, who is done if it is a success.
Answer(n, c) ==
  /\ c \in ses[n].pending
  /\ ses[n].child = "running" /\ ses[n].reader
  /\ ses' = [ses EXCEPT ![n].pending = @ \ {c}]
  /\ \/ pc' = [pc EXCEPT ![c] = Idle]
     \/ \E res \in {"failed", "retryable"} :
          pc' = [pc EXCEPT ![c].at = "returned", ![c].res = res, ![c].lost = @ - 1]
  /\ UNCHANGED <<ext, meta, launch>>

\* wait: the entry was dropped with the session.
WaitClosed(c) ==
  /\ pc[c].at = "waiting"
  /\ c \notin ses[pc[c].s].pending
  /\ Returned(c, "closed")
  /\ UNCHANGED <<ext, meta, launch, ses>>

\* wait: the deadline passes first.  abandon_request takes the entry out, and
\* fails a session that has left MAX_ABANDONED_REQUESTS of them unanswered.
WaitDeadline(c) ==
  /\ pc[c].at = "waiting"
  /\ c \in ses[pc[c].s].pending
  /\ \/ ses' = [ses EXCEPT ![pc[c].s].pending = @ \ {c}]
     \/ ses' = [ses EXCEPT ![pc[c].s] = Failed(@)]
  /\ Returned(c, "failed")
  /\ UNCHANGED <<ext, meta, launch>>

\* Mutant of Transient: a disconnect counts as transient.
TransientDisconnects == {"unavailable", "retryable", "closed"}

\* The failures the retry layer may try again: ipc_error marks only those
\* as transient.
Transient == {"unavailable", "retryable"}

\* Where the operation goes on after a result other than a success: it
\* returns, or the retry layer calls it again (how often is the subject of
\* ResolutionPass).
Resumes(res) == {"idle"} \cup (IF res \in Transient THEN {"live"} ELSE {})

\* Mutant of Return: whatever session is in use is taken.
ReturnTakesAny(c) ==
  /\ pc[c].at = "returned"
  /\ IF ses[pc[c].s].state = "closed" /\ ext.session # 0
     THEN /\ ext' = [ext EXCEPT !.session = 0]
          /\ CloseLive(c, ext.session, "idle")
          /\ UNCHANGED launch
     ELSE /\ Resume(c, "idle")
          /\ UNCHANGED <<ext, ses>>
  /\ UNCHANGED meta

\* call, after a failure: a session that has closed is detached, if it is
\* still the one in use, and cleaned up.
Return(c) ==
  /\ pc[c].at = "returned"
  /\ LET n == pc[c].s
     IN  \E next \in Resumes(pc[c].res) :
           IF ses[n].state = "closed" /\ ext.session = n
           THEN /\ ext' = [ext EXCEPT !.session = 0]
                /\ CloseLive(c, n, next)
                /\ UNCHANGED launch
           ELSE /\ Resume(c, next)
                /\ UNCHANGED <<ext, ses>>
  /\ UNCHANGED meta

-----------------------------------------------------------------------------
(* The provider's setters.                                                 *)

\* set_reason, set_project, set_profile and their kin with a new value:
\* invalidate() and, outside the lock, the cleanup of the detached session.
SetInput(c) ==
  /\ pc[c].at = "idle"
  /\ ~ext.dropped
  /\ ext.gen < MaxChanges
  /\ ext' = [ext EXCEPT !.gen = @ + 1, !.session = 0]
  /\ IF ext.session # 0
     THEN CloseLive(c, ext.session, "idle")
     ELSE UNCHANGED <<ses, pc>>
  /\ UNCHANGED <<meta, launch>>

\* with_base_dir has the provider to itself and changes only the latch and
\* the directory of sessions still to come.
WithBaseDir ==
  /\ \A c \in Callers : pc[c].at = "idle"
  /\ ~ext.dropped
  /\ ext' = [ext EXCEPT !.refused = ~@]
  /\ UNCHANGED <<meta, launch, ses, pc>>

\* Drop of the provider, by the last caller.
DropProvider(c) ==
  /\ \A d \in Callers : pc[d].at = "idle"
  /\ ~ext.dropped
  /\ ext' = [ext EXCEPT !.dropped = TRUE, !.session = 0]
  /\ IF ext.session # 0
     THEN CloseLive(c, ext.session, "idle")
     ELSE UNCHANGED <<ses, pc>>
  /\ UNCHANGED <<meta, launch>>

-----------------------------------------------------------------------------
(* The cleanup of one session: ChildSession::close over Client::close.     *)

\* close takes the order lock and turns READY into CLOSING, and asks for
\* shutdown; a session that has closed needs none.  When the lock stays
\* taken until the deadline, the wire is left as it is.
CloseWire(n) ==
  /\ ses[n].closer = "begin"
  /\ ses' = [ses EXCEPT ![n] =
       IF OrderHeld(n) THEN [@ EXCEPT !.closer = "reap"]
       ELSE IF @.state = "ready"
            THEN [@ EXCEPT !.state = "closing", !.closer = "shutdown"]
            ELSE [Failed(@) EXCEPT !.reader = FALSE, !.closer = "reap"]]
  /\ UNCHANGED <<ext, meta, launch, pc>>

\* The answer to shutdown, its deadline or the failure of the session: both
\* tasks end and the session is failed.
CloseShutdown(n) ==
  /\ ses[n].closer = "shutdown"
  /\ ses' = [ses EXCEPT ![n] =
       [Failed(@) EXCEPT !.reader = FALSE, !.closer = "reap"]]
  /\ UNCHANGED <<ext, meta, launch, pc>>

\* Nothing is left of the session once the endpoint is gone and the reader
\* has ended.
Reaped(r) ==
  IF r.reader THEN [r EXCEPT !.child = "none", !.closer = "none"]
              ELSE NoSession

\* The monitor is stopped; the endpoint exits in time or is killed, and is
\* reaped.
CloseReap(n) ==
  /\ ses[n].closer = "reap"
  /\ ses' = [ses EXCEPT ![n] = Reaped(@)]
  /\ UNCHANGED <<ext, meta, launch, pc>>

-----------------------------------------------------------------------------
(* The tasks of a session and its endpoint.                                *)

\* The reader meets the end of the stream or a frame that breaks the
\* protocol.
ReaderEnds(n) ==
  /\ ses[n].reader
  /\ ses[n].child # "running"
  /\ ses' = [ses EXCEPT ![n] =
       IF @.child = "none" THEN NoSession
                           ELSE [Failed(@) EXCEPT !.reader = FALSE]]
  /\ UNCHANGED <<ext, meta, launch, pc>>

\* The monitor, which runs once connect has returned, finds that the process
\* is gone, gives the reader time for what is left in the pipe and then
\* fails the session, unless that has happened.
Monitor(n) ==
  /\ ses[n].child = "exited"
  /\ ses[n].state \in {"ready", "closing"}
  /\ ses' = [ses EXCEPT ![n] = Failed(@)]
  /\ UNCHANGED <<ext, meta, launch, pc>>

\* The endpoint exits.
Exit(n) ==
  /\ ses[n].child \in {"running", "broken"}
  /\ ses' = [ses EXCEPT ![n].child = "exited"]
  /\ UNCHANGED <<ext, meta, launch, pc>>

\* The endpoint keeps running and closes its output, or writes a frame that
\* breaks the protocol.  (One that is being shut down may exit, answer or
\* fall silent, which is all that the cleanup tells apart.)
Break(n) ==
  /\ ses[n].child = "running"
  /\ ses[n].closer = "none"
  /\ ses' = [ses EXCEPT ![n].child = "broken"]
  /\ UNCHANGED <<ext, meta, launch, pc>>

-----------------------------------------------------------------------------
CallerStep(c) ==
  \/ LiveSession(c) \/ Spawn(c) \/ ConnectFails(c) \/ Ready(c) \/ Publish(c)
  \/ Start(c) \/ Register(c) \/ WaitClosed(c) \/ WaitDeadline(c)
  \/ Return(c) \/ Closing(c)

SessionStep(n) ==
  \/ CloseWire(n) \/ CloseShutdown(n) \/ CloseReap(n)
  \/ ReaderEnds(n) \/ Monitor(n)

Next ==
  \/ \E c \in Callers :
       \/ Begin(c) \/ CallerStep(c) \/ LockLaunch(c) \/ Initialized(c)
       \/ SetInput(c) \/ DropProvider(c)
  \/ \E n \in Sessions :
       \/ SessionStep(n) \/ Exit(n) \/ Break(n)
       \/ \E c \in Callers : Answer(n, c)
  \/ WithBaseDir

Spec == Init /\ [][Next]_vars

-----------------------------------------------------------------------------
(* Properties.                                                             *)

Places == {"idle", "live", "lock", "relive", "snapshot", "connecting",
           "initialized", "publish", "start", "register", "waiting",
           "returned", "closing"}

\* The state of a provider and its sessions has its type, and whoever waits
\* for an answer holds one of the session's permits.
TypeOK ==
  /\ ext \in [session : 0..MaxEndpoints, gen : 0..MaxChanges,
              refused : BOOLEAN, dropped : BOOLEAN]
  /\ meta \in Metas \cup {None}
  /\ launch \in Callers \cup {None}
  /\ ses \in [Sessions -> [
       gen : 0..MaxChanges, meta : Metas \cup {None}, reader : BOOLEAN,
       child : {"none", "running", "broken", "exited"},
       state : {"initializing", "ready", "closing", "closed"},
       closer : {"none", "begin", "shutdown", "reap"},
       pending : SUBSET Callers]]
  /\ \A n \in Sessions : Cardinality(Holders(n)) <= MaxInFlight
  /\ pc \in [Callers -> [
       at : Places, s : 0..MaxEndpoints,
       base : 0..MaxChanges, lost : Nat,
       res : {"none", "failed", "retryable", "unavailable", "closed"},
       next : {"idle", "live", "lock", "snapshot", "relive"}]]

\* A request goes to an endpoint that was initialized with inputs in force
\* when its operation began, or later ones, and that said of itself what the
\* provider reports (its identity, its coordinates): neither a session
\* detached by invalidate() nor one whose startup a setter overtook serves an
\* operation that began after the change, and a reconnect to another endpoint
\* is refused.
RightEndpoint ==
  \A c \in Callers :
    /\ pc[c].at \in {"start", "register", "waiting"} =>
         ses[pc[c].s].child = "none" \/ ses[pc[c].s].gen >= pc[c].base
    /\ pc[c].at \in {"register", "waiting"} =>
         ses[pc[c].s].meta \in {meta, None}

\* An operation sends no second request while it does not know what became
\* of the first: a disconnect or a deadline is reported, never replayed, and
\* only refusals that the endpoint answered, or a request that was never
\* sent, are tried again.
NotReplayed ==
  \A c \in Callers : pc[c].lost <= 1

\* No endpoint is forgotten: one that is not in use is being started or
\* cleaned up, after a failed or overtaken startup, a change of the inputs, a
\* disconnect that an operation met and the drop of the provider.
NoOrphans ==
  \A n \in Sessions :
    ses[n].child # "none" =>
      \/ ext.session = n
      \/ ses[n].closer # "none"
      \/ \E c \in Callers :
           pc[c].s = n /\ pc[c].at \in {"connecting", "initialized", "publish"}

\* Only a setter or the drop of the provider takes away a session that works:
\* an operation that failed in an older session leaves its successor alone.
HealthySessionsStay ==
  [][ext.session # 0 /\ ext'.session # ext.session =>
       \/ ses[ext.session].state = "closed"
       \/ ext'.gen # ext.gen
       \/ ext'.dropped]_vars

\* The end of the stream ends the session (ipc-architecture.mdx, "EOF,
\* rpc.shutdown, or child exit ends the session"): a session in use whose
\* reader is gone is closed.  It is not when connect stores READY after the
\* reader has ended.
EofEndsSession ==
  \A n \in Sessions :
    ext.session = n /\ ~ses[n].reader => ses[n].state = "closed"
=============================================================================
