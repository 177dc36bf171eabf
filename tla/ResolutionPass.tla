--------------------------- MODULE ResolutionPass ---------------------------
(***************************************************************************)
(* One resolution pass over the providers: ResolutionExecution of          *)
(* crates/monosecret/src/secrets.rs, with the two caches its threads share *)
(* (RetryingOnceMap for built providers, AuthCheckCache of                 *)
(* provider/preflight.rs for authentication probes) and the retries every  *)
(* provider call is wrapped in (provider/retry.rs).                        *)
(*                                                                         *)
(* A thread is a primary group's fetch, a secret's walk of its fallback    *)
(* chain, or the writer that stores a generated value.                     *)
(***************************************************************************)
EXTENDS Integers, Sequences, FiniteSets

CONSTANTS
  Chain,        \* the providers of each secret, its primary first
  Scope,        \* the auth_scope_key of each provider, None for its own
  Probed,       \* the providers with a preflight check
  Managed,      \* the providers that own their retries
  RetrySafe,    \* the providers whose set may be sent again
  Policy,       \* what a secret does when it is missing
  Width,        \* get_each_concurrency
  MaxAttempts,  \* RetryPolicy.max_attempts
  Stores,       \* what the providers may hold
  None,
  MaxFaults     \* bound: calls, builds and probes that fail

Names == DOMAIN Chain
Specs == DOMAIN Scope
Primary(n) == Chain[n][1]
Groups == {Primary(n) : n \in Names}
HasFallback(n) == Len(Chain[n]) > 1

ASSUME PassAssumption ==
  /\ Width \in Nat \ {0} /\ MaxAttempts \in 1..10 /\ MaxFaults \in Nat
  /\ Chain \in Seq(Seq(Specs)) /\ Chain # <<>> /\ \A n \in Names : Chain[n] # <<>>
  /\ Specs \cap ({0} \cup Names) = {}
  /\ None \notin Specs \cup {"resolved", "error", "generate", "default", "omit"}
  /\ Probed \cup Managed \cup RetrySafe \subseteq Specs
  /\ \A n \in Names : Policy[n] \in {"generate", "default", "error", "omit"}
  /\ \A h \in Stores : h \in [Names -> SUBSET Specs]

VARIABLES
  phase,     \* the phase method that runs
  holds,     \* the providers that hold each secret
  thread,    \* the threads
  slots,     \* the slots of the ProviderCache, the ones removed from its map too
  cells,     \* the cells of the AuthCheckCaches, the ones removed too
  fetched,   \* what the primary groups found
  failed,    \* failed_primary_uris
  outcome,   \* what became of each secret
  next,      \* the secret whose value is decided
  delivered, \* the cells whose failure a check has returned: history
  erred,     \* the links of each secret's chain that failed: history
  faults

vars == <<phase, holds, thread, slots, cells, fetched, failed, outcome, next, delivered, erred,
          faults>>

Writer == 0  \* the resolving thread, in try_generate_secret
Threads == Groups \cup Names \cup {Writer}
Idle == [at |-> "idle", link |-> 1, slot |-> 0, cell |-> 0, attempt |-> 1, tries |-> 1,
         sent |-> 0, probes |-> 0, healthy |-> FALSE, err |-> FALSE, found |-> None]

At(t, point) == thread[t].at = point
Active(t) == thread[t].at \notin {"idle", "queued", "done"}
Goes(t, point) == thread' = [thread EXCEPT ![t].at = point]
Works == UNCHANGED faults
Fault == faults < MaxFaults /\ faults' = faults + 1

\* The provider a thread is using.
SpecOf(t) ==
  IF t \in Groups THEN t
  ELSE IF t = Writer THEN Primary(next)
  ELSE Chain[t][thread[t].link]

\* The link of the chain that provider is.
LinkOf(t) == IF t \in Names THEN thread[t].link ELSE 1

\* The secrets a thread works for.
Serves(t) ==
  IF t \in Groups THEN {n \in Names : Primary(n) = t} ELSE IF t = Writer THEN {next} ELSE {t}

Shared == UNCHANGED <<phase, holds, fetched, outcome, next>>

(***************************************************************************)
(* fetch_primary_values: the groups are constructed on one thread, and     *)
(* each is fetched by a thread of its own.                                 *)
(***************************************************************************)
Construct ==
  /\ phase = "construct"
  /\ \E bad \in SUBSET Groups :
       /\ faults + Cardinality(bad) <= MaxFaults /\ faults' = faults + Cardinality(bad)
       /\ failed' = bad
       /\ erred' = [n \in Names |-> IF Primary(n) \in bad THEN {1} ELSE {}]
       /\ thread' = [t \in Threads |-> IF t \in Groups \ bad THEN [Idle EXCEPT !.at = "check"]
                                       ELSE thread[t]]
  /\ phase' = "primary"
  /\ UNCHANGED <<holds, slots, cells, fetched, outcome, next, delivered>>

\* A single-store ref with coordinates the provider does not know.
Refuse ==
  /\ phase = "construct" /\ Fault /\ phase' = "failed"
  /\ UNCHANGED <<holds, thread, slots, cells, fetched, failed, outcome, next, delivered, erred>>

Pending == {n \in Names : fetched[n] = None /\ HasFallback(n)}

\* The scope joins every group's thread.
JoinGroups ==
  /\ phase = "primary" /\ \A t \in Groups : ~Active(t)
  /\ phase' = "fallback"
  /\ thread' = [t \in Threads |-> IF t \in Pending THEN [Idle EXCEPT !.at = "queued", !.link = 2]
                                  ELSE Idle]
  /\ Works /\ UNCHANGED <<holds, slots, cells, fetched, failed, outcome, next, delivered, erred>>

(***************************************************************************)
(* map_concurrently: waves of at most Width threads, joined before the     *)
(* next one is spawned.                                                    *)
(***************************************************************************)
Queued == {n \in Names : At(n, "queued")}
Wave == {n \in Queued : Cardinality({m \in Queued : m < n}) < Width}

StartWave ==
  /\ phase = "fallback" /\ Queued # {} /\ \A n \in Names : ~Active(n)
  /\ thread' = [t \in Threads |-> IF t \in Wave THEN [thread[t] EXCEPT !.at = "slot"] ELSE thread[t]]
  /\ Works /\ Shared /\ UNCHANGED <<slots, cells, failed, delivered, erred>>

JoinFallbacks ==
  /\ phase = "fallback" /\ Queued = {} /\ \A n \in Names : ~Active(n)
  /\ phase' = "values"
  /\ Works
  /\ UNCHANGED <<holds, thread, slots, cells, fetched, failed, outcome, next, delivered, erred>>

(***************************************************************************)
(* RetryingOnceMap.get_or_try_init of the ProviderCache                    *)
(***************************************************************************)
LiveSlot(s) == {i \in DOMAIN slots : slots[i].live /\ slots[i].spec = s}

TakeSlot(t) ==
  LET live == LiveSlot(SpecOf(t))
      id == IF live = {} THEN Len(slots) + 1 ELSE CHOOSE i \in live : TRUE
  IN  /\ At(t, "slot")
      /\ slots' = IF live # {} THEN slots
                  ELSE Append(slots, [spec |-> SpecOf(t), live |-> TRUE, owner |-> None, built |-> 0])
      /\ thread' = [thread EXCEPT ![t].slot = id, ![t].at = "lock"]
      /\ Works /\ Shared /\ UNCHANGED <<cells, failed, delivered, erred>>

LockSlot(t) ==
  LET i == thread[t].slot
  IN  /\ At(t, "lock") /\ slots[i].owner = None
      /\ IF slots[i].built # 0 THEN Goes(t, "check") /\ UNCHANGED slots
         ELSE Goes(t, "build") /\ slots' = [slots EXCEPT ![i].owner = t]
      /\ Works /\ Shared /\ UNCHANGED <<cells, failed, delivered, erred>>

\* Not the code: an initialization that fails keeps its slot locked.
BuildKeepsLock(t) ==
  LET i == thread[t].slot
  IN  /\ At(t, "build")
      /\ \/ slots' = [slots EXCEPT ![i].owner = None, ![i].built = 1] /\ Goes(t, "check") /\ Works
         \/ Fault /\ Goes(t, "unslot") /\ UNCHANGED slots
      /\ Shared /\ UNCHANGED <<cells, failed, delivered, erred>>
\* build_provider_for_use, under the slot's lock.
Build(t) ==
  LET i == thread[t].slot
  IN  /\ At(t, "build")
      /\ \/ slots' = [slots EXCEPT ![i].owner = None, ![i].built = 1] /\ Goes(t, "check") /\ Works
         \/ Fault /\ Goes(t, "unslot") /\ slots' = [slots EXCEPT ![i].owner = None]
      /\ Shared /\ UNCHANGED <<cells, failed, delivered, erred>>

(***************************************************************************)
(* The end of a read, or of one link of a chain                            *)
(***************************************************************************)
\* Not the code: a chain that only failed is a chain that found nothing.
EndsAsMissing(t, healthy, err) ==
  [thread[t] EXCEPT !.at = "done", !.healthy = TRUE, !.err = err]
ChainEnd(t, healthy, err) ==
  [thread[t] EXCEPT !.at = "done", !.healthy = healthy, !.err = err]

NextLink(t, healthy, err) ==
  thread' = [thread EXCEPT ![t] =
    IF thread[t].link < Len(Chain[t])
    THEN [thread[t] EXCEPT !.link = thread[t].link + 1, !.at = "slot", !.attempt = 1, !.sent = 0,
                           !.probes = 0, !.slot = 0, !.cell = 0, !.healthy = healthy, !.err = err]
    ELSE ChainEnd(t, healthy, err)]

\* The error of a provider: a failed group, a warning in a chain, a failed write.
Fails(t) ==
  /\ erred' = [n \in Names |-> IF n \in Serves(t) /\ t # Writer THEN erred[n] \cup {LinkOf(t)}
                              ELSE erred[n]]
  /\ IF t \in Names THEN NextLink(t, thread[t].healthy, TRUE) /\ UNCHANGED failed
     ELSE /\ thread' = [thread EXCEPT ![t].at = "done", ![t].err = TRUE]
          /\ failed' = IF t \in Groups THEN failed \cup {t} ELSE failed

\* The failed slot is removed, if it is still the one in the map.
DropSlot(t) ==
  /\ At(t, "unslot")
  /\ slots' = [slots EXCEPT ![thread[t].slot].live = FALSE]
  /\ Fails(t) /\ Works /\ Shared /\ UNCHANGED <<cells, delivered>>

(***************************************************************************)
(* RetryPolicy::run_with around a call, for RetryingProvider               *)
(***************************************************************************)
\* RetryingProvider::read and ::mutate.
Retries(t) == SpecOf(t) \notin Managed /\ (t = Writer => SpecOf(t) \in RetrySafe)

\* An attempt fails: another one, or the error goes to the caller.
AttemptFails(t, verdict) ==
  IF verdict = "transient" /\ Retries(t) /\ thread[t].attempt < MaxAttempts
  THEN /\ thread' = [thread EXCEPT ![t].attempt = @ + 1, ![t].at = "check"]
       /\ UNCHANGED <<failed, erred>>
  ELSE Fails(t)

(***************************************************************************)
(* PreflightGuard::check and AuthCheckCache::check                         *)
(***************************************************************************)
\* A scope is shared by every instance of the process; else an instance is
\* its own: a group's, a cached slot's or the writer's.
Instance(t) == IF t \in Groups THEN 1 ELSE IF t = Writer THEN 1 + next ELSE 100 + thread[t].slot
Key(t) == IF Scope[SpecOf(t)] # None THEN <<Scope[SpecOf(t)], 0>> ELSE <<SpecOf(t), Instance(t)>>
LiveCell(k) == {i \in DOMAIN cells : cells[i].live /\ cells[i].key = k}

\* The operation itself is sent.
Sends(t) == thread' = [thread EXCEPT ![t].at = "call", ![t].sent = @ + 1]

Check(t) ==
  LET live == LiveCell(Key(t))
      id == IF live = {} THEN Len(cells) + 1 ELSE CHOOSE i \in live : TRUE
  IN  /\ At(t, "check")
      /\ \/ /\ SpecOf(t) \notin Probed
            /\ Sends(t) /\ UNCHANGED cells
         \/ /\ SpecOf(t) \in Probed
            /\ cells' = IF live # {} THEN cells
                        ELSE Append(cells, [key |-> Key(t), live |-> TRUE, state |-> "empty"])
            /\ thread' = [thread EXCEPT ![t].cell = id, ![t].at = "wait"]
      /\ Works /\ Shared /\ UNCHANGED <<slots, failed, delivered, erred>>

\* OnceLock::get_or_init: the first runs the probe, the others wait for it.
Wait(t) ==
  LET i == thread[t].cell
  IN  /\ At(t, "wait") /\ cells[i].state # "running"
      /\ CASE cells[i].state = "empty" ->
                /\ thread' = [thread EXCEPT ![t].at = "probe", ![t].tries = 1]
                /\ cells' = [cells EXCEPT ![i].state = "running"]
           [] cells[i].state = "ok" -> Sends(t) /\ UNCHANGED cells
           [] OTHER -> Goes(t, "forget") /\ UNCHANGED cells
      /\ Works /\ Shared /\ UNCHANGED <<slots, failed, delivered, erred>>

\* Not the code: the last of several transient errors stays transient.
StillTransient == "transient"
\* What run_with answers after its last attempt: the `exhausted` marker.
Exhausted == "permanent"

\* The probe, with the guard's own retries.
Probe(t) ==
  LET i == thread[t].cell
      Ends(state) == /\ cells' = [cells EXCEPT ![i].state = state]
                     /\ thread' = [thread EXCEPT ![t].at = "wait", ![t].probes = @ + 1]
  IN  /\ At(t, "probe")
      /\ \/ Ends("ok") /\ Works
         \/ Ends("permanent") /\ Fault
         \/ thread[t].tries < MaxAttempts /\ Fault /\ UNCHANGED cells
            /\ thread' = [thread EXCEPT ![t].tries = @ + 1, ![t].probes = @ + 1]
         \/ thread[t].tries = MaxAttempts /\ Ends(Exhausted) /\ Fault
      /\ Shared /\ UNCHANGED <<slots, failed, delivered, erred>>

\* Not the code: whatever cell the map has for the key is removed.
RemovesAny(i) == {j \in DOMAIN cells : cells[j].key = cells[i].key}
\* The failed cell is removed, if it is still the one in the map.
Removes(i) == {i}

Forget(t) ==
  LET i == thread[t].cell
  IN  /\ At(t, "forget")
      /\ cells' = [j \in DOMAIN cells |-> IF j \in Removes(i) THEN [cells[j] EXCEPT !.live = FALSE]
                                          ELSE cells[j]]
      /\ delivered' = delivered \cup {i}
      /\ AttemptFails(t, cells[i].state)
      /\ Works /\ Shared /\ UNCHANGED slots

(***************************************************************************)
(* The provider's own operation                                            *)
(***************************************************************************)
GroupAnswers(t) ==
  /\ t \in Groups
  /\ fetched' = [n \in Names |-> IF n \in Serves(t) /\ t \in holds[n] THEN t ELSE fetched[n]]
  /\ thread' = [thread EXCEPT ![t].at = "done"]
  /\ UNCHANGED <<phase, holds, outcome, next>>

LinkAnswers(t) ==
  /\ t \in Names /\ Shared
  /\ IF SpecOf(t) \in holds[t] THEN thread' = [thread EXCEPT ![t].at = "done", ![t].found = SpecOf(t)]
     ELSE NextLink(t, TRUE, thread[t].err)

WriteAnswers(t) ==
  /\ t = Writer /\ Shared
  /\ thread' = [thread EXCEPT ![t].at = "done"]

Call(t) ==
  /\ At(t, "call") /\ (GroupAnswers(t) \/ LinkAnswers(t) \/ WriteAnswers(t))
  /\ Works /\ UNCHANGED <<slots, cells, failed, delivered, erred>>

CallFails(t, verdict) ==
  /\ At(t, "call") /\ Fault
  /\ AttemptFails(t, verdict)
  /\ Shared /\ UNCHANGED <<slots, cells, delivered>>

(***************************************************************************)
(* resolve_provider_backed_values: one secret after the other              *)
(***************************************************************************)
Decides(n, o) ==
  /\ outcome' = [outcome EXCEPT ![n] = o]
  /\ IF n + 1 \in Names THEN next' = n + 1 /\ UNCHANGED phase ELSE phase' = "done" /\ UNCHANGED next
Stops(n) == outcome' = [outcome EXCEPT ![n] = "error"] /\ phase' = "failed" /\ UNCHANGED next

\* The first of fetched_values and fallback_results that has it.
ValueOf(n) == IF fetched[n] # None THEN fetched[n] ELSE thread[n].found
ChainFailed(n) == HasFallback(n) /\ thread[n].err /\ ~thread[n].healthy
Unknown(n) == ValueOf(n) = None /\ (ChainFailed(n) \/ Primary(n) \in failed)
Missing(n) == ValueOf(n) = None /\ ~Unknown(n)

Decide ==
  LET n == next
  IN  /\ phase = "values" /\ At(Writer, "idle")
      /\ \/ ValueOf(n) # None /\ Decides(n, "resolved") /\ UNCHANGED thread
         \/ Unknown(n) /\ Stops(n) /\ UNCHANGED thread
         \/ Missing(n) /\ Policy[n] # "generate" /\ Decides(n, Policy[n]) /\ UNCHANGED thread
         \/ /\ Missing(n) /\ Policy[n] = "generate"
            /\ Goes(Writer, "check") /\ UNCHANGED <<outcome, phase, next>>
      /\ Works /\ UNCHANGED <<holds, slots, cells, fetched, failed, delivered, erred>>

\* write_provider_for_route fails, or check_writable refuses.
NotWritable ==
  /\ phase = "values" /\ At(Writer, "idle") /\ Missing(next) /\ Policy[next] = "generate"
  /\ Fault /\ Stops(next)
  /\ UNCHANGED <<holds, thread, slots, cells, fetched, failed, delivered, erred>>

\* try_generate_secret returns.
Generated ==
  /\ phase = "values" /\ At(Writer, "done")
  /\ IF thread[Writer].err THEN Stops(next) ELSE Decides(next, "generate")
  /\ thread' = [thread EXCEPT ![Writer] = Idle]
  /\ Works /\ UNCHANGED <<holds, slots, cells, fetched, failed, delivered, erred>>

Init ==
  /\ phase = "construct" /\ holds \in Stores
  /\ thread = [t \in Threads |-> Idle]
  /\ slots = <<>> /\ cells = <<>>
  /\ fetched = [n \in Names |-> None] /\ failed = {}
  /\ outcome = [n \in Names |-> None] /\ next = 1
  /\ delivered = {} /\ erred = [n \in Names |-> {}] /\ faults = 0

Step(t) ==
  \/ TakeSlot(t) \/ LockSlot(t) \/ Build(t) \/ DropSlot(t)
  \/ Check(t) \/ Wait(t) \/ Probe(t) \/ Forget(t)
  \/ Call(t) \/ CallFails(t, "transient") \/ CallFails(t, "permanent")
Main ==
  \/ Construct \/ Refuse \/ JoinGroups \/ StartWave \/ JoinFallbacks
  \/ Decide \/ NotWritable \/ Generated

Next == Main \/ \E t \in Threads : Step(t)

\* The scheduler runs every thread, and every provider call returns.
Spec == Init /\ [][Next]_vars /\ WF_vars(Main) /\ \A t \in Threads : WF_vars(Step(t))

(***************************************************************************)
(* Properties                                                              *)
(***************************************************************************)
Points == {"idle", "queued", "slot", "lock", "build", "unslot", "check", "wait", "probe", "forget",
           "call", "done"}

ThreadStates ==
  [at : Points, link : Nat \ {0}, slot : Nat, cell : Nat, attempt : 1..MaxAttempts,
   tries : 1..MaxAttempts, sent : Nat, probes : Nat, healthy : BOOLEAN, err : BOOLEAN,
   found : Specs \cup {None}]
Slots == [spec : Specs, live : BOOLEAN, owner : Threads \cup {None}, built : {0, 1}]
Keys == (Specs \cup {Scope[x] : x \in Specs}) \X Nat
Cells == [key : Keys, live : BOOLEAN, state : {"empty", "running", "ok", "permanent"}]

\* The types of the state.
TypeOK ==
  /\ phase \in {"construct", "primary", "fallback", "values", "done", "failed"}
  /\ holds \in [Names -> SUBSET Specs]
  /\ thread \in [Threads -> ThreadStates]
  /\ \A n \in Names : thread[n].link \in 1..Len(Chain[n])
  /\ slots \in Seq(Slots) /\ \A t \in Threads : thread[t].slot \in 0..Len(slots)
  /\ cells \in Seq(Cells) /\ \A t \in Threads : thread[t].cell \in 0..Len(cells)
  /\ fetched \in [Names -> Specs \cup {None}] /\ failed \subseteq Groups
  /\ outcome \in [Names -> {None, "resolved", "error", "generate", "default", "omit"}]
  /\ next \in Names /\ delivered \subseteq DOMAIN cells
  /\ erred \in [Names -> SUBSET Nat] /\ faults \in 0..MaxFaults

(***************************************************************************)
(* "The first caller per key runs it, concurrent callers block on the same *)
(* cell.  Failures are returned to every caller waiting on the in-flight   *)
(* probe but are not cached beyond that": however checks fail and are      *)
(* forgotten, no two probes of one authentication scope run at the same    *)
(* time, and once a check has returned a failure no later check gets it.   *)
(***************************************************************************)
ProbesShared ==
  /\ \A t, u \in Threads :
       At(t, "probe") /\ At(u, "probe") /\ t # u
       => cells[thread[t].cell].key # cells[thread[u].cell].key
  /\ \A i \in delivered : ~cells[i].live

(***************************************************************************)
(* The attempt count includes the first call, and the retries of the       *)
(* preflight check and of the operation do not multiply: one read of one   *)
(* provider sends at most max_attempts requests and at most max_attempts   *)
(* probes.  "Mutations need an explicit replay-safety guarantee": a        *)
(* generated value is sent once to a provider that does not give it.       *)
(***************************************************************************)
RequestsBounded ==
  /\ \A t \in Threads : thread[t].sent <= MaxAttempts /\ thread[t].probes <= MaxAttempts
  /\ phase = "values" /\ Primary(next) \notin RetrySafe => thread[Writer].sent <= 1

(***************************************************************************)
(* A value comes from the first provider of the chain that holds it; one   *)
(* is passed over only if it failed.  A secret that some provider of its   *)
(* chain holds is taken as missing, and so generated, defaulted or         *)
(* reported as such, only if every provider that holds it failed, the      *)
(* primary answered and, in a chain with fallbacks, so did one of them.    *)
(***************************************************************************)
ChainDecides ==
  \A n \in Names :
    /\ outcome[n] = "resolved" =>
         \E i \in 1..Len(Chain[n]) :
           /\ ValueOf(n) = Chain[n][i] /\ Chain[n][i] \in holds[n]
           /\ \A j \in 1..(i - 1) : Chain[n][j] \in holds[n] => j \in erred[n]
    /\ outcome[n] \in {"generate", "default", "error", "omit"} /\ phase # "failed" =>
         /\ \A i \in 1..Len(Chain[n]) : Chain[n][i] \in holds[n] => i \in erred[n]
         /\ 1 \notin erred[n]
         /\ HasFallback(n) => \E i \in 2..Len(Chain[n]) : i \notin erred[n]

(***************************************************************************)
(* Every pass ends: no thread waits for a slot or a cell whose owner is    *)
(* gone, whatever builds, probes and calls fail.                           *)
(***************************************************************************)
PassEnds == <>(phase \in {"done", "failed"})
=============================================================================
