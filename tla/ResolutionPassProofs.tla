------------------------ MODULE ResolutionPassProofs ------------------------
(***************************************************************************)
(* Theorems about ResolutionPass and their proofs, for every set of        *)
(* secrets, every chain, scope and policy.                                 *)
(***************************************************************************)
EXTENDS ResolutionPass, TLAPS, FiniteSetTheorems, SequenceTheorems

----------------------------------------------------------------------------
(* The inductive invariant *)

\* A key has one cell in the map.  A cell leaves the map only with a failure,
\* and before the first caller returns that failure.
CellInv ==
  /\ \A i, j \in DOMAIN cells :
       cells[i].live /\ cells[j].live /\ cells[i].key = cells[j].key => i = j
  /\ \A i \in DOMAIN cells : ~cells[i].live => cells[i].state = "permanent"
  /\ \A i \in delivered : ~cells[i].live

\* A thread that has a cell has one of its key; its prober is alone.
ProbeInv ==
  /\ \A t \in Threads : thread[t].at \in {"wait", "probe", "forget"}
       => thread[t].cell # 0 /\ cells[thread[t].cell].key = Key(t)
  /\ \A t \in Threads : At(t, "probe") => cells[thread[t].cell].state = "running"
  /\ \A t \in Threads : At(t, "forget") => cells[thread[t].cell].state = "permanent"
  /\ \A t, u \in Threads : At(t, "probe") /\ At(u, "probe") /\ thread[t].cell = thread[u].cell
       => t = u

\* The thread's authentication scope has been found healthy.
Settled(t) ==
  \E i \in DOMAIN cells : cells[i].live /\ cells[i].key = Key(t) /\ cells[i].state = "ok"

\* A request is sent once per attempt, and a probe runs only for the first.
RequestOk(t) ==
  /\ thread[t].sent <= thread[t].attempt
  /\ thread[t].at \notin {"call", "done"} => thread[t].sent < thread[t].attempt
  /\ thread[t].probes <= MaxAttempts
  /\ thread[t].at \in {"idle", "queued", "slot", "lock", "build", "unslot"}
       => thread[t].attempt = 1 /\ thread[t].probes = 0
  /\ At(t, "probe") => thread[t].probes = thread[t].tries - 1
  /\ thread[t].at \in {"check", "call"} => thread[t].probes = 0 \/ Settled(t)
  /\ At(t, "wait") => thread[t].probes = 0 \/ cells[thread[t].cell].state \in {"ok", "permanent"}

RequestInv ==
  /\ \A t \in Threads : RequestOk(t)
  /\ Primary(next) \notin RetrySafe => thread[Writer].attempt = 1

\* The threads of a phase are joined before the next phase begins.
PhaseInv ==
  /\ phase # "primary" => \A t \in Groups : ~Active(t)
  /\ phase # "fallback" => \A n \in Names : thread[n].at \in {"idle", "done"}
  /\ phase \in {"construct", "primary"} => \A n \in Names : thread[n] = Idle
  /\ phase = "construct" => \A n \in Names : fetched[n] = None /\ erred[n] = {}
  /\ phase = "construct" => failed = {}
  /\ phase \notin {"values", "done", "failed"} => \A n \in Names : outcome[n] = None
  /\ phase # "values" => At(Writer, "idle")

\* The primary groups have been joined, and the pass was not refused.
Walked(n) == phase \in {"fallback", "values", "done"} \/ (phase = "failed" /\ outcome[n] # None)

\* What is known of a secret's primary once its group has been fetched.
Answered(n) ==
  Walked(n) \/ (phase = "primary" /\ ~Active(Primary(n)))

GroupInv ==
  \A n \in Names :
    /\ Answered(n) =>
         /\ fetched[n] = IF 1 \notin erred[n] /\ Primary(n) \in holds[n] THEN Primary(n) ELSE None
         /\ 1 \in erred[n] <=> Primary(n) \in failed
    /\ phase = "primary" /\ Active(Primary(n)) =>
         fetched[n] = None /\ erred[n] = {} /\ Primary(n) \notin failed
    /\ phase = "primary" => erred[n] \subseteq {1}

\* The fallbacks a walk has left behind.
Passed(n) ==
  {j \in 2..Len(Chain[n]) :
     \/ j < thread[n].link
     \/ j = thread[n].link /\ At(n, "done") /\ thread[n].found = None}

\* A walk passes over a fallback that has the value only if it failed, and
\* remembers whether some failed and whether one answered.
WalkOk(n) ==
  /\ thread[n].link > 1 \/ thread[n].found = None
  /\ erred[n] \subseteq {1} \cup Passed(n)
  /\ \A j \in Passed(n) : Chain[n][j] \in holds[n] => j \in erred[n]
  /\ thread[n].err \/ Passed(n) \cap erred[n] = {}
  /\ thread[n].healthy => \E j \in Passed(n) : j \notin erred[n]
  /\ thread[n].found # None =>
       /\ At(n, "done") /\ thread[n].found = Chain[n][thread[n].link]
       /\ thread[n].found \in holds[n]
  /\ At(n, "done") /\ thread[n].found = None => thread[n].link = Len(Chain[n])

WalkInv ==
  \A n \in Names :
    Walked(n) =>
      /\ WalkOk(n)
      /\ IF fetched[n] = None /\ HasFallback(n) THEN thread[n].link > 1 /\ ~At(n, "idle")
         ELSE thread[n] = Idle

\* A secret was decided by what is still known of it.
OutcomeInv ==
  /\ \A n \in Names :
       /\ outcome[n] = "resolved" => ValueOf(n) # None
       /\ outcome[n] \in {"generate", "default", "error", "omit"} /\ phase # "failed" => Missing(n)
  /\ phase = "values" /\ ~At(Writer, "idle") => Missing(next)

\* A thread in the provider cache holds a slot of it.
SlotInv ==
  \A t \in Threads : thread[t].at \in {"lock", "build", "unslot"} => thread[t].slot \in DOMAIN slots

IInv == TypeOK /\ SlotInv /\ CellInv /\ ProbeInv /\ RequestInv /\ PhaseInv /\ GroupInv /\ WalkInv
        /\ OutcomeInv

----------------------------------------------------------------------------
(* The constants, and the records of a thread *)

\* What the assumptions say of the names, the chains and the threads.
LEMMA Constants ==
  /\ Names = 1..Len(Chain) /\ Len(Chain) \in Nat /\ 1 \in Names /\ Names \subseteq Nat
  /\ \A n \in Names : /\ Len(Chain[n]) \in Nat \ {0} /\ Primary(n) \in Groups
                      /\ \A i \in 1..Len(Chain[n]) : Chain[n][i] \in Specs
  /\ Groups \subseteq Specs /\ Groups \cap Names = {} /\ Writer \notin Groups \cup Names
  /\ Groups \subseteq Threads /\ Names \subseteq Threads /\ Writer \in Threads
  /\ None \notin Specs /\ MaxAttempts \in Nat /\ 1 \in 1..MaxAttempts
<1>1. Chain \in Seq(Seq(Specs)) /\ Chain # <<>> /\ \A n \in Names : Chain[n] # <<>>
  BY PassAssumption
<1>2. Names = 1..Len(Chain) /\ Len(Chain) \in Nat \ {0}
  BY <1>1, EmptySeq, LenProperties DEF Names
<1>3. \A n \in Names : Chain[n] \in Seq(Specs) /\ Chain[n] # <<>>
  BY <1>1, <1>2
<1>4. \A n \in Names : Len(Chain[n]) \in Nat \ {0} /\ \A i \in 1..Len(Chain[n]) : Chain[n][i] \in Specs
  BY <1>3, EmptySeq
<1>5. \A n \in Names : Primary(n) \in Groups /\ Primary(n) \in Specs
  BY <1>4 DEF Primary, Groups
<1>6. Specs \cap ({0} \cup Names) = {} /\ None \notin Specs /\ MaxAttempts \in 1..10
  BY PassAssumption
<1>7. Groups \subseteq Specs
  BY <1>5 DEF Groups
<1>8. 1 \in Names /\ Names \subseteq Nat /\ 0 \notin Names
  BY <1>2
<1> QED BY <1>2, <1>4, <1>5, <1>6, <1>7, <1>8 DEF Threads, Writer

\* A thread record with some of its fields replaced is a thread record.
LEMMA Records ==
  ASSUME NEW r \in ThreadStates, NEW at \in Points
  PROVE  /\ [r EXCEPT !.at = at] \in ThreadStates
         /\ \A i \in Nat : /\ [r EXCEPT !.slot = i, !.at = at] \in ThreadStates
                           /\ [r EXCEPT !.cell = i, !.at = at] \in ThreadStates
                           /\ [r EXCEPT !.at = at, !.sent = i] \in ThreadStates
                           /\ [r EXCEPT !.at = at, !.probes = i] \in ThreadStates
         /\ \A k \in 1..MaxAttempts : /\ [r EXCEPT !.at = at, !.tries = k] \in ThreadStates
                                      /\ [r EXCEPT !.attempt = k, !.at = at] \in ThreadStates
         /\ \A f \in Specs \cup {None} : [r EXCEPT !.at = at, !.found = f] \in ThreadStates
         /\ [r EXCEPT !.at = at, !.err = TRUE] \in ThreadStates
         /\ \A l \in Nat \ {0} : [r EXCEPT !.at = at, !.link = l] \in ThreadStates
  BY DEF ThreadStates

\* Threads before their first step.
LEMMA IdleState ==
  /\ Idle \in ThreadStates
  /\ [Idle EXCEPT !.at = "check"] \in ThreadStates
  /\ [Idle EXCEPT !.at = "queued", !.link = 2] \in ThreadStates
<1>1. 1 \in 1..MaxAttempts
  BY Constants
<1>2. Idle \in ThreadStates
  BY <1>1 DEF Idle, ThreadStates, Points
<1>3. "check" \in Points /\ "queued" \in Points /\ 2 \in Nat \ {0}
  BY DEF Points
<1> QED BY <1>2, <1>3, Records

----------------------------------------------------------------------------
(* What the steps of a thread do *)

\* Points between the start of a thread's work and its end.
Inside == {"slot", "lock", "build", "unslot", "check", "wait", "probe", "forget", "call"}

\* No other thread moves.
Moves(t) ==
  /\ thread' \in [Threads -> ThreadStates]
  /\ \A u \in Threads : u # t => thread'[u] = thread[u]

SameWalk(t) ==
  /\ thread'[t].link = thread[t].link /\ thread'[t].healthy = thread[t].healthy
  /\ thread'[t].err = thread[t].err /\ thread'[t].found = thread[t].found
SameCounts(t) ==
  /\ thread'[t].attempt = thread[t].attempt /\ thread'[t].sent = thread[t].sent
  /\ thread'[t].probes = thread[t].probes /\ thread'[t].tries = thread[t].tries
SamePlace(t) == thread'[t].slot = thread[t].slot /\ thread'[t].cell = thread[t].cell

\* A step inside a provider call: it decides nothing about the secrets.
Inner(t, from, to) ==
  /\ Moves(t) /\ SameWalk(t)
  /\ thread[t].at = from /\ thread'[t].at = to
  /\ UNCHANGED <<phase, holds, fetched, failed, outcome, next, erred>>

\* A thread moved to another record.
LEMMA MovesTo ==
  ASSUME TypeOK, NEW t \in Threads, NEW r \in ThreadStates, thread' = [thread EXCEPT ![t] = r]
  PROVE  Moves(t) /\ thread'[t] = r
  BY DEF Moves, TypeOK

\* The provider and the key of a thread are of their types.
LEMMA KeyTypes ==
  ASSUME TypeOK, NEW t \in Threads
  PROVE  SpecOf(t) \in Specs /\ Key(t) \in Keys /\ thread[t] \in ThreadStates
<1>1. SpecOf(t) \in Specs
  <2>1. CASE t \in Groups
    BY <2>1, Constants DEF SpecOf
  <2>2. CASE t = Writer
    BY <2>2, Constants DEF SpecOf, TypeOK
  <2>3. CASE t \in Names
    BY <2>3, Constants DEF SpecOf, TypeOK
  <2> QED BY <2>1, <2>2, <2>3 DEF Threads
<1>2. thread[t] \in ThreadStates /\ thread[t].slot \in Nat /\ next \in Nat
  BY Constants DEF TypeOK, ThreadStates
<1>3. Instance(t) \in Nat
  BY <1>2 DEF Instance
<1> QED BY <1>1, <1>2, <1>3 DEF Key, Keys

\* The key of a thread that stays in its call is the one it had.
LEMMA KeyStays ==
  ASSUME TypeOK, NEW t \in Threads, next' = next \/ t # Writer,
         thread'[t].slot = thread[t].slot, thread'[t].link = thread[t].link
  PROVE  Key(t)' = Key(t)
  BY Constants DEF Key, SpecOf, Instance, Threads

\* An element of a sequence of records is replaced.
LEMMA Replaced ==
  ASSUME NEW S, NEW s \in Seq(S), NEW i \in DOMAIN s, NEW e \in S
  PROVE  /\ [s EXCEPT ![i] = e] \in Seq(S) /\ Len([s EXCEPT ![i] = e]) = Len(s)
         /\ DOMAIN [s EXCEPT ![i] = e] = DOMAIN s
         /\ [s EXCEPT ![i] = e][i] = e
         /\ \A j \in DOMAIN s : j # i => [s EXCEPT ![i] = e][j] = s[j]
<1>1. i \in 1..Len(s)
  BY LenProperties
<1> QED BY <1>1, ExceptSeq, LenProperties

\* An element is appended to a sequence of records.
LEMMA Added ==
  ASSUME NEW S, NEW s \in Seq(S), NEW e \in S
  PROVE  /\ Append(s, e) \in Seq(S) /\ Len(Append(s, e)) = Len(s) + 1 /\ Len(s) \in Nat
         /\ DOMAIN s = 1..Len(s) /\ DOMAIN Append(s, e) = 1..Len(s) + 1
         /\ Append(s, e)[Len(s) + 1] = e
         /\ \A j \in DOMAIN s : Append(s, e)[j] = s[j]
  OBVIOUS

\* The first steps of get_or_try_init.
LEMMA TakeSlotFacts ==
  ASSUME TypeOK, NEW t \in Threads, TakeSlot(t)
  PROVE  /\ Inner(t, "slot", "lock") /\ SameCounts(t) /\ thread'[t].cell = thread[t].cell
         /\ slots' \in Seq(Slots) /\ Len(slots) <= Len(slots') /\ thread'[t].slot \in DOMAIN slots'
         /\ UNCHANGED <<cells, delivered, faults>>
<1> DEFINE live == LiveSlot(SpecOf(t))
           id == IF live = {} THEN Len(slots) + 1 ELSE CHOOSE i \in live : TRUE
           new == [spec |-> SpecOf(t), live |-> TRUE, owner |-> None, built |-> 0]
           r == [thread[t] EXCEPT !.slot = id, !.at = "lock"]
<1>1. thread[t] \in ThreadStates /\ slots \in Seq(Slots) /\ new \in Slots /\ "lock" \in Points
  BY KeyTypes DEF TypeOK, Slots, Points
<1>2. /\ slots' = IF live # {} THEN slots ELSE Append(slots, new)
      /\ thread' = [thread EXCEPT ![t].slot = id, ![t].at = "lock"]
      /\ UNCHANGED <<phase, holds, fetched, failed, outcome, next, erred, cells, delivered, faults>>
      /\ thread[t].at = "slot"
  BY DEF TakeSlot, Works, Shared, At
<1>3. live \subseteq DOMAIN slots /\ Len(slots) \in Nat /\ DOMAIN slots = 1..Len(slots)
  BY <1>1 DEF LiveSlot
<1>6. id \in Nat /\ id \in DOMAIN slots' /\ slots' \in Seq(Slots) /\ Len(slots) <= Len(slots')
  <2>1. CASE live = {}
    <3>1. /\ slots' \in Seq(Slots) /\ Len(slots') = Len(slots) + 1 /\ DOMAIN slots' = 1..Len(slots) + 1
          /\ id = Len(slots) + 1
      BY <1>1, <1>2, <2>1, Added
    <3> QED BY <1>3, <3>1
  <2>2. CASE live # {}
    <3>1. slots' = slots /\ id \in live
      BY <1>2, <2>2
    <3> QED BY <1>1, <1>3, <3>1
  <2> QED BY <2>1, <2>2
<1> HIDE DEF id, live, new
<1>7. r \in ThreadStates
  BY <1>1, <1>6, Records
<1>8. thread' = [thread EXCEPT ![t] = r]
  BY <1>2
<1>9. Moves(t) /\ thread'[t] = r
  BY <1>7, <1>8, MovesTo
<1>10. /\ r.at = "lock" /\ r.slot = id /\ r.cell = thread[t].cell
       /\ r.link = thread[t].link /\ r.healthy = thread[t].healthy
       /\ r.err = thread[t].err /\ r.found = thread[t].found
       /\ r.attempt = thread[t].attempt /\ r.sent = thread[t].sent
       /\ r.probes = thread[t].probes /\ r.tries = thread[t].tries
  BY <1>1 DEF ThreadStates
<1> HIDE DEF r
<1> QED BY <1>2, <1>6, <1>9, <1>10 DEF Inner, SameWalk, SameCounts

\* A slot that has been built is left at once; an empty one is locked.
LEMMA LockSlotFacts ==
  ASSUME TypeOK, SlotInv, NEW t \in Threads, LockSlot(t)
  PROVE  /\ Inner(t, "lock", "check") \/ Inner(t, "lock", "build")
         /\ SameCounts(t) /\ SamePlace(t)
         /\ slots' \in Seq(Slots) /\ Len(slots') = Len(slots) /\ DOMAIN slots' = DOMAIN slots
         /\ UNCHANGED <<cells, delivered, faults>>
<1> DEFINE i == thread[t].slot
<1>1. PICK to \in {"check", "build"} :
        /\ thread' = [thread EXCEPT ![t].at = to] /\ thread[t].at = "lock"
        /\ slots' \in {slots, [slots EXCEPT ![i].owner = t]}
        /\ UNCHANGED <<phase, holds, fetched, failed, outcome, next, erred, cells, delivered, faults>>
  BY DEF LockSlot, Goes, Works, Shared, At
<1>2. thread[t] \in ThreadStates /\ to \in Points /\ slots \in Seq(Slots) /\ i \in DOMAIN slots
  BY <1>1, KeyTypes DEF TypeOK, SlotInv, Points
<1> DEFINE r == [thread[t] EXCEPT !.at = to]
<1>3. r \in ThreadStates
  BY <1>2, Records
<1>4. Moves(t) /\ thread'[t] = r
  BY <1>1, <1>3, MovesTo
<1>5. /\ r.at = to /\ r.slot = i /\ r.cell = thread[t].cell
      /\ r.link = thread[t].link /\ r.healthy = thread[t].healthy
      /\ r.err = thread[t].err /\ r.found = thread[t].found
      /\ r.attempt = thread[t].attempt /\ r.sent = thread[t].sent
      /\ r.probes = thread[t].probes /\ r.tries = thread[t].tries
  BY <1>2 DEF ThreadStates
<1> HIDE DEF r, i
<1>6. [slots[i] EXCEPT !.owner = t] \in Slots
  <2>1. slots[i] \in Slots
    BY <1>2
  <2> QED BY <2>1 DEF Slots
<1>7. slots' \in Seq(Slots) /\ Len(slots') = Len(slots) /\ DOMAIN slots' = DOMAIN slots
  BY <1>1, <1>2, <1>6, Replaced
<1> QED BY <1>1, <1>4, <1>5, <1>7 DEF Inner, SameWalk, SameCounts, SamePlace, i

\* An initialization ends, and unlocks its slot.
LEMMA BuildFacts ==
  ASSUME TypeOK, SlotInv, NEW t \in Threads, Build(t)
  PROVE  /\ Inner(t, "build", "check") \/ Inner(t, "build", "unslot")
         /\ SameCounts(t) /\ SamePlace(t)
         /\ slots' \in Seq(Slots) /\ Len(slots') = Len(slots) /\ DOMAIN slots' = DOMAIN slots
         /\ UNCHANGED <<cells, delivered>> /\ faults' \in 0..MaxFaults
<1> DEFINE i == thread[t].slot
<1>1. PICK to \in {"check", "unslot"} :
        /\ thread' = [thread EXCEPT ![t].at = to] /\ thread[t].at = "build"
        /\ slots' \in {[slots EXCEPT ![i].owner = None, ![i].built = 1],
                       [slots EXCEPT ![i].owner = None]}
        /\ UNCHANGED <<phase, holds, fetched, failed, outcome, next, erred, cells, delivered>>
  BY DEF Build, Goes, Works, Shared, At
<1>2. thread[t] \in ThreadStates /\ to \in Points /\ slots \in Seq(Slots) /\ i \in DOMAIN slots
  BY <1>1, KeyTypes DEF TypeOK, SlotInv, Points
<1> DEFINE r == [thread[t] EXCEPT !.at = to]
<1>3. r \in ThreadStates
  BY <1>2, Records
<1>4. Moves(t) /\ thread'[t] = r
  BY <1>1, <1>3, MovesTo
<1>5. /\ r.at = to /\ r.slot = i /\ r.cell = thread[t].cell
      /\ r.link = thread[t].link /\ r.healthy = thread[t].healthy
      /\ r.err = thread[t].err /\ r.found = thread[t].found
      /\ r.attempt = thread[t].attempt /\ r.sent = thread[t].sent
      /\ r.probes = thread[t].probes /\ r.tries = thread[t].tries
  BY <1>2 DEF ThreadStates
<1> HIDE DEF r, i
<1>6. /\ [slots[i] EXCEPT !.owner = None] \in Slots
      /\ [slots[i] EXCEPT !.owner = None, !.built = 1] \in Slots
  <2>1. slots[i] \in Slots
    BY <1>2
  <2> QED BY <2>1 DEF Slots
<1>7. slots' \in Seq(Slots) /\ Len(slots') = Len(slots) /\ DOMAIN slots' = DOMAIN slots
  <2>1. CASE slots' = [slots EXCEPT ![i] = [slots[i] EXCEPT !.owner = None]]
    BY <1>2, <1>6, <2>1, Replaced
  <2>2. CASE slots' = [slots EXCEPT ![i] = [slots[i] EXCEPT !.owner = None, !.built = 1]]
    BY <1>2, <1>6, <2>2, Replaced
  <2> QED BY <1>1, <1>2, <2>1, <2>2
<1>8. faults' \in 0..MaxFaults
  <2>1. faults \in 0..MaxFaults /\ MaxFaults \in Nat
    BY PassAssumption DEF TypeOK
  <2> QED BY <2>1 DEF Build, Works, Fault
<1> QED BY <1>1, <1>4, <1>5, <1>7, <1>8 DEF Inner, SameWalk, SameCounts, SamePlace, i

\* PreflightGuard::check: the request is sent, or the key's cell taken.
LEMMA CheckFacts ==
  ASSUME TypeOK, NEW t \in Threads, Check(t)
  PROVE  /\ UNCHANGED <<slots, delivered, faults>> /\ thread'[t].slot = thread[t].slot
         /\ cells' \in Seq(Cells) /\ Len(cells) <= Len(cells') /\ thread'[t].cell \in 0..Len(cells')
         /\ \/ /\ Inner(t, "check", "call") /\ SamePlace(t) /\ cells' = cells
               /\ thread'[t].sent = thread[t].sent + 1 /\ thread'[t].attempt = thread[t].attempt
               /\ thread'[t].probes = thread[t].probes
            \/ /\ Inner(t, "check", "wait") /\ SameCounts(t)
               /\ cells' = cells /\ thread'[t].cell \in LiveCell(Key(t))
            \/ /\ Inner(t, "check", "wait") /\ SameCounts(t)
               /\ LiveCell(Key(t)) = {} /\ thread'[t].cell = Len(cells) + 1
               /\ cells' = Append(cells, [key |-> Key(t), live |-> TRUE, state |-> "empty"])
<1> DEFINE live == LiveCell(Key(t))
           id == IF live = {} THEN Len(cells) + 1 ELSE CHOOSE i \in live : TRUE
           new == [key |-> Key(t), live |-> TRUE, state |-> "empty"]
<1>1. /\ thread[t] \in ThreadStates /\ cells \in Seq(Cells) /\ new \in Cells
      /\ "call" \in Points /\ "wait" \in Points /\ Len(cells) \in Nat /\ DOMAIN cells = 1..Len(cells)
      /\ thread[t].cell \in 0..Len(cells) /\ thread[t].sent \in Nat
  <2>1. thread[t] \in ThreadStates /\ cells \in Seq(Cells) /\ thread[t].cell \in 0..Len(cells)
    BY KeyTypes DEF TypeOK
  <2>2. new \in Cells
    BY KeyTypes DEF Cells
  <2>3. thread[t].sent \in Nat
    BY <2>1 DEF ThreadStates
  <2> QED BY <2>1, <2>2, <2>3 DEF Points
<1>2. /\ thread[t].at = "check"
      /\ UNCHANGED <<phase, holds, fetched, failed, outcome, next, erred, slots, delivered, faults>>
      /\ \/ thread' = [thread EXCEPT ![t].at = "call", ![t].sent = @ + 1] /\ cells' = cells
         \/ /\ cells' = IF live # {} THEN cells ELSE Append(cells, new)
            /\ thread' = [thread EXCEPT ![t].cell = id, ![t].at = "wait"]
  BY DEF Check, Works, Shared, At, Sends
<1>3. live \subseteq DOMAIN cells
  BY DEF LiveCell
<1>4. CASE thread' = [thread EXCEPT ![t].at = "call", ![t].sent = @ + 1] /\ cells' = cells
  <2> DEFINE r == [thread[t] EXCEPT !.at = "call", !.sent = thread[t].sent + 1]
  <2>1. r \in ThreadStates
    <3>1. thread[t].sent + 1 \in Nat
      BY <1>1
    <3> QED BY <1>1, <3>1, Records
  <2>2. thread' = [thread EXCEPT ![t] = r]
    BY <1>4
  <2>3. Moves(t) /\ thread'[t] = r
    BY <2>1, <2>2, MovesTo
  <2>4. /\ r.at = "call" /\ r.slot = thread[t].slot /\ r.cell = thread[t].cell
        /\ r.link = thread[t].link /\ r.healthy = thread[t].healthy
        /\ r.err = thread[t].err /\ r.found = thread[t].found
        /\ r.attempt = thread[t].attempt /\ r.sent = thread[t].sent + 1
        /\ r.probes = thread[t].probes
    BY <1>1 DEF ThreadStates
  <2> HIDE DEF r, live, id, new
  <2>5. Inner(t, "check", "call") /\ SamePlace(t)
    BY <1>2, <2>3, <2>4 DEF Inner, SameWalk, SamePlace
  <2>6. cells' \in Seq(Cells) /\ Len(cells) <= Len(cells') /\ thread'[t].cell \in 0..Len(cells')
    BY <1>1, <1>4, <2>3, <2>4
  <2> QED BY <1>2, <1>4, <2>3, <2>4, <2>5, <2>6
<1>5. CASE /\ cells' = IF live # {} THEN cells ELSE Append(cells, new)
           /\ thread' = [thread EXCEPT ![t].cell = id, ![t].at = "wait"]
  <2> DEFINE r == [thread[t] EXCEPT !.cell = id, !.at = "wait"]
  <2>1. /\ id \in 0..Len(cells') /\ id \in Nat /\ cells' \in Seq(Cells) /\ Len(cells) <= Len(cells')
        /\ \/ cells' = cells /\ id \in live
           \/ live = {} /\ id = Len(cells) + 1 /\ cells' = Append(cells, new)
    <3>1. CASE live = {}
      <4>1. /\ cells' \in Seq(Cells) /\ Len(cells') = Len(cells) + 1 /\ id = Len(cells) + 1
        BY <1>1, <1>5, <3>1, Added
      <4> HIDE DEF new, id, live
      <4> QED BY <1>1, <1>5, <3>1, <4>1
    <3>2. CASE live # {}
      <4>1. cells' = cells /\ id \in live
        BY <1>5, <3>2
      <4> HIDE DEF new, id, live, r
      <4>2. id \in 1..Len(cells)
        BY <1>1, <1>3, <4>1
      <4>3. Len(cells') = Len(cells) /\ cells' \in Seq(Cells) /\ Len(cells) \in Nat
        BY <1>1, <4>1
      <4>4. id \in Nat /\ id \in 0..Len(cells') /\ Len(cells) <= Len(cells')
        BY <4>2, <4>3
      <4> QED BY <4>1, <4>3, <4>4
    <3> QED BY <3>1, <3>2
  <2> HIDE DEF live, id
  <2>2. r \in ThreadStates
    BY <1>1, <2>1, Records
  <2>3. thread' = [thread EXCEPT ![t] = r]
    BY <1>5
  <2>4. Moves(t) /\ thread'[t] = r
    BY <2>2, <2>3, MovesTo
  <2>5. /\ r.at = "wait" /\ r.slot = thread[t].slot /\ r.cell = id
        /\ r.link = thread[t].link /\ r.healthy = thread[t].healthy
        /\ r.err = thread[t].err /\ r.found = thread[t].found
        /\ r.attempt = thread[t].attempt /\ r.sent = thread[t].sent
        /\ r.probes = thread[t].probes /\ r.tries = thread[t].tries
    BY <1>1 DEF ThreadStates
  <2> HIDE DEF r, new
  <2>6. Inner(t, "check", "wait") /\ SameCounts(t) /\ thread'[t].slot = thread[t].slot
    BY <1>2, <2>4, <2>5 DEF Inner, SameWalk, SameCounts
  <2> QED BY <1>2, <2>1, <2>4, <2>5, <2>6 DEF live, new
<1> QED BY <1>2, <1>4, <1>5

\* What the code's own cell holds, for a thread that has one.
LEMMA CellOf ==
  ASSUME TypeOK, ProbeInv, NEW t \in Threads, thread[t].at \in {"wait", "probe", "forget"}
  PROVE  /\ thread[t].cell \in DOMAIN cells /\ cells[thread[t].cell] \in Cells
         /\ cells[thread[t].cell].key = Key(t)
<1>1. thread[t].cell # 0 /\ cells[thread[t].cell].key = Key(t)
  BY DEF ProbeInv
<1>2. thread[t].cell \in 0..Len(cells) /\ cells \in Seq(Cells)
  BY DEF TypeOK
<1>3. thread[t].cell \in DOMAIN cells
  BY <1>1, <1>2
<1> QED BY <1>1, <1>2, <1>3

\* A cell changes its state.
LEMMA StateSet ==
  ASSUME TypeOK, NEW i \in DOMAIN cells, NEW s \in {"empty", "running", "ok", "permanent"}
  PROVE  [cells[i] EXCEPT !.state = s] \in Cells /\ [cells[i] EXCEPT !.live = FALSE] \in Cells
<1>1. cells[i] \in Cells
  BY DEF TypeOK
<1> QED BY <1>1 DEF Cells

\* OnceLock::get_or_init: the probe begins, or its result is there.
LEMMA WaitFacts ==
  ASSUME TypeOK, ProbeInv, NEW t \in Threads, Wait(t)
  PROVE  /\ UNCHANGED <<slots, delivered, faults>> /\ SamePlace(t)
         /\ thread'[t].attempt = thread[t].attempt /\ thread'[t].probes = thread[t].probes
         /\ \/ /\ Inner(t, "wait", "probe") /\ thread'[t].tries = 1 /\ thread'[t].sent = thread[t].sent
               /\ cells[thread[t].cell].state = "empty"
               /\ cells' = [cells EXCEPT ![thread[t].cell].state = "running"]
            \/ /\ Inner(t, "wait", "call") /\ thread'[t].sent = thread[t].sent + 1
               /\ cells[thread[t].cell].state = "ok" /\ cells' = cells
            \/ /\ Inner(t, "wait", "forget") /\ thread'[t].sent = thread[t].sent
               /\ cells[thread[t].cell].state = "permanent" /\ cells' = cells
<1> DEFINE i == thread[t].cell
<1>1. /\ thread[t].at = "wait" /\ cells[i].state # "running"
      /\ UNCHANGED <<phase, holds, fetched, failed, outcome, next, erred, slots, delivered, faults>>
      /\ \/ /\ cells[i].state = "empty" /\ cells' = [cells EXCEPT ![i].state = "running"]
            /\ thread' = [thread EXCEPT ![t].at = "probe", ![t].tries = 1]
         \/ /\ cells[i].state = "ok" /\ cells' = cells
            /\ thread' = [thread EXCEPT ![t].at = "call", ![t].sent = @ + 1]
         \/ /\ cells[i].state \notin {"ok", "empty"} /\ cells' = cells
            /\ thread' = [thread EXCEPT ![t].at = "forget"]
  BY DEF Wait, Works, Shared, At, Sends, Goes
<1>2. cells[i].state \in {"empty", "running", "ok", "permanent"}
  BY <1>1, CellOf DEF Cells
<1>3. thread[t] \in ThreadStates /\ thread[t].sent + 1 \in Nat /\ 1 \in 1..MaxAttempts
  BY KeyTypes, Constants DEF ThreadStates
<1>4. "probe" \in Points /\ "call" \in Points /\ "forget" \in Points
  BY DEF Points
<1> HIDE DEF i
<1>5. CASE /\ cells[i].state = "empty" /\ cells' = [cells EXCEPT ![i].state = "running"]
           /\ thread' = [thread EXCEPT ![t].at = "probe", ![t].tries = 1]
  <2> DEFINE r == [thread[t] EXCEPT !.at = "probe", !.tries = 1]
  <2>1. r \in ThreadStates
    BY <1>3, <1>4, Records
  <2>2. Moves(t) /\ thread'[t] = r
    <3>1. thread' = [thread EXCEPT ![t] = r]
      BY <1>5
    <3> QED BY <2>1, <3>1, MovesTo
  <2>3. /\ r.at = "probe" /\ r.slot = thread[t].slot /\ r.cell = thread[t].cell
        /\ r.link = thread[t].link /\ r.healthy = thread[t].healthy
        /\ r.err = thread[t].err /\ r.found = thread[t].found
        /\ r.attempt = thread[t].attempt /\ r.sent = thread[t].sent
        /\ r.probes = thread[t].probes /\ r.tries = 1
    BY <1>3 DEF ThreadStates
  <2> HIDE DEF r
  <2> QED BY <1>1, <1>5, <2>2, <2>3 DEF Inner, SameWalk, SamePlace, i
<1>6. CASE /\ cells[i].state = "ok" /\ cells' = cells
           /\ thread' = [thread EXCEPT ![t].at = "call", ![t].sent = @ + 1]
  <2> DEFINE r == [thread[t] EXCEPT !.at = "call", !.sent = thread[t].sent + 1]
  <2>1. r \in ThreadStates
    BY <1>3, <1>4, Records
  <2>2. Moves(t) /\ thread'[t] = r
    <3>1. thread' = [thread EXCEPT ![t] = r]
      BY <1>6
    <3> QED BY <2>1, <3>1, MovesTo
  <2>3. /\ r.at = "call" /\ r.slot = thread[t].slot /\ r.cell = thread[t].cell
        /\ r.link = thread[t].link /\ r.healthy = thread[t].healthy
        /\ r.err = thread[t].err /\ r.found = thread[t].found
        /\ r.attempt = thread[t].attempt /\ r.sent = thread[t].sent + 1
        /\ r.probes = thread[t].probes
    BY <1>3 DEF ThreadStates
  <2> HIDE DEF r
  <2> QED BY <1>1, <1>6, <2>2, <2>3 DEF Inner, SameWalk, SamePlace, i
<1>7. CASE /\ cells[i].state \notin {"ok", "empty"} /\ cells' = cells
           /\ thread' = [thread EXCEPT ![t].at = "forget"]
  <2> DEFINE r == [thread[t] EXCEPT !.at = "forget"]
  <2>1. r \in ThreadStates
    BY <1>3, <1>4, Records
  <2>2. Moves(t) /\ thread'[t] = r
    BY <1>7, <2>1, MovesTo
  <2>3. /\ r.at = "forget" /\ r.slot = thread[t].slot /\ r.cell = thread[t].cell
        /\ r.link = thread[t].link /\ r.healthy = thread[t].healthy
        /\ r.err = thread[t].err /\ r.found = thread[t].found
        /\ r.attempt = thread[t].attempt /\ r.sent = thread[t].sent
        /\ r.probes = thread[t].probes
    BY <1>3 DEF ThreadStates
  <2> HIDE DEF r
  <2> QED BY <1>1, <1>2, <1>7, <2>2, <2>3 DEF Inner, SameWalk, SamePlace, i
<1> QED BY <1>1, <1>5, <1>6, <1>7

\* A probe ends with a result, or is tried again.
LEMMA ProbeFacts ==
  ASSUME TypeOK, ProbeInv, NEW t \in Threads, Probe(t)
  PROVE  /\ UNCHANGED <<slots, delivered>> /\ SamePlace(t) /\ faults' \in 0..MaxFaults
         /\ thread'[t].attempt = thread[t].attempt /\ thread'[t].sent = thread[t].sent
         /\ thread'[t].probes = thread[t].probes + 1
         /\ \/ /\ Inner(t, "probe", "wait")
               /\ \E s \in {"ok", "permanent"} : cells' = [cells EXCEPT ![thread[t].cell].state = s]
            \/ /\ Inner(t, "probe", "probe") /\ thread'[t].tries = thread[t].tries + 1
               /\ thread[t].tries < MaxAttempts /\ cells' = cells
<1> DEFINE i == thread[t].cell
<1>1. /\ thread[t].at = "probe"
      /\ UNCHANGED <<phase, holds, fetched, failed, outcome, next, erred, slots, delivered>>
      /\ \/ /\ \E s \in {"ok", "permanent"} : cells' = [cells EXCEPT ![i].state = s]
            /\ thread' = [thread EXCEPT ![t].at = "wait", ![t].probes = @ + 1]
         \/ /\ thread[t].tries < MaxAttempts /\ cells' = cells
            /\ thread' = [thread EXCEPT ![t].tries = @ + 1, ![t].probes = @ + 1]
  BY DEF Probe, Works, Shared, At, Exhausted
<1>2. faults' \in 0..MaxFaults
  <2>1. faults \in 0..MaxFaults /\ MaxFaults \in Nat
    BY PassAssumption DEF TypeOK
  <2>2. faults' = faults \/ (faults < MaxFaults /\ faults' = faults + 1)
    BY DEF Probe, Works, Fault
  <2> QED BY <2>1, <2>2
<1>3. thread[t] \in ThreadStates /\ thread[t].probes + 1 \in Nat /\ "wait" \in Points
  BY KeyTypes DEF ThreadStates, Points
<1> HIDE DEF i
<1>4. CASE /\ \E s \in {"ok", "permanent"} : cells' = [cells EXCEPT ![i].state = s]
           /\ thread' = [thread EXCEPT ![t].at = "wait", ![t].probes = @ + 1]
  <2> DEFINE r == [thread[t] EXCEPT !.at = "wait", !.probes = thread[t].probes + 1]
  <2>1. r \in ThreadStates
    BY <1>3, Records
  <2>2. Moves(t) /\ thread'[t] = r
    <3>1. thread' = [thread EXCEPT ![t] = r]
      BY <1>4
    <3> QED BY <2>1, <3>1, MovesTo
  <2>3. /\ r.at = "wait" /\ r.slot = thread[t].slot /\ r.cell = thread[t].cell
        /\ r.link = thread[t].link /\ r.healthy = thread[t].healthy
        /\ r.err = thread[t].err /\ r.found = thread[t].found
        /\ r.attempt = thread[t].attempt /\ r.sent = thread[t].sent
        /\ r.probes = thread[t].probes + 1
    BY <1>3 DEF ThreadStates
  <2> HIDE DEF r
  <2> QED BY <1>1, <1>2, <1>4, <2>2, <2>3 DEF Inner, SameWalk, SamePlace, i
<1>5. CASE /\ thread[t].tries < MaxAttempts /\ cells' = cells
           /\ thread' = [thread EXCEPT ![t].tries = @ + 1, ![t].probes = @ + 1]
  <2> DEFINE r == [thread[t] EXCEPT !.tries = thread[t].tries + 1, !.probes = thread[t].probes + 1]
  <2>1. thread[t].tries + 1 \in 1..MaxAttempts
    <3>1. thread[t].tries \in 1..MaxAttempts /\ MaxAttempts \in Nat
      BY <1>3, Constants DEF ThreadStates
    <3> QED BY <1>5, <3>1
  <2>2. r \in ThreadStates
    BY <1>3, <2>1 DEF ThreadStates
  <2>3. Moves(t) /\ thread'[t] = r
    <3>1. thread' = [thread EXCEPT ![t] = r]
      BY <1>5
    <3> QED BY <2>2, <3>1, MovesTo
  <2>4. /\ r.at = "probe" /\ r.slot = thread[t].slot /\ r.cell = thread[t].cell
        /\ r.link = thread[t].link /\ r.healthy = thread[t].healthy
        /\ r.err = thread[t].err /\ r.found = thread[t].found
        /\ r.attempt = thread[t].attempt /\ r.sent = thread[t].sent
        /\ r.probes = thread[t].probes + 1 /\ r.tries = thread[t].tries + 1
    BY <1>1, <1>3 DEF ThreadStates
  <2> HIDE DEF r
  <2> QED BY <1>1, <1>2, <1>5, <2>3, <2>4 DEF Inner, SameWalk, SamePlace, i
<1> QED BY <1>1, <1>4, <1>5

----------------------------------------------------------------------------
(* The end of a link: an answer, or an error *)

\* The thread has nothing more to do.
Stopped(t) ==
  /\ thread'[t].at = "done" /\ SamePlace(t) /\ SameCounts(t) /\ thread'[t].link = thread[t].link

\* The walk goes on to the next link, with fresh counts.
Advanced(t) ==
  /\ thread'[t].at = "slot" /\ thread'[t].link = thread[t].link + 1
  /\ thread'[t].attempt = 1 /\ thread'[t].sent = 0 /\ thread'[t].probes = 0
  /\ thread'[t].slot = 0 /\ thread'[t].cell = 0

LinkPassed(t, healthy, err) ==
  /\ Moves(t) /\ thread'[t].healthy = healthy /\ thread'[t].err = err
  /\ thread'[t].found = thread[t].found
  /\ \/ thread[t].link < Len(Chain[t]) /\ Advanced(t)
     \/ thread[t].link = Len(Chain[t]) /\ Stopped(t)

\* The provider of a thread has failed.
Failed(t) ==
  /\ UNCHANGED <<phase, holds, fetched, outcome, next>>
  /\ erred' = [n \in Names |-> IF n \in Serves(t) /\ t # Writer THEN erred[n] \cup {LinkOf(t)}
                               ELSE erred[n]]
  /\ \/ t \in Names /\ LinkPassed(t, thread[t].healthy, TRUE) /\ failed' = failed
     \/ /\ t \notin Names /\ Moves(t) /\ Stopped(t) /\ failed' \subseteq Groups
        /\ thread'[t].found = thread[t].found /\ thread'[t].healthy = thread[t].healthy
        /\ failed' = IF t \in Groups THEN failed \cup {t} ELSE failed

\* The provider of a thread has answered.
Replied(t) ==
  /\ UNCHANGED <<phase, holds, failed, outcome, next, erred>>
  /\ \/ /\ t \in Groups /\ Moves(t) /\ Stopped(t) /\ SameWalk(t)
        /\ fetched' = [n \in Names |-> IF Primary(n) = t /\ t \in holds[n] THEN t ELSE fetched[n]]
     \/ /\ t \in Names /\ fetched' = fetched /\ Chain[t][thread[t].link] \notin holds[t]
        /\ LinkPassed(t, TRUE, thread[t].err)
     \/ /\ t \in Names /\ fetched' = fetched /\ Chain[t][thread[t].link] \in holds[t]
        /\ Moves(t) /\ Stopped(t) /\ thread'[t].found = Chain[t][thread[t].link]
        /\ thread'[t].healthy = thread[t].healthy /\ thread'[t].err = thread[t].err
     \/ t = Writer /\ fetched' = fetched /\ Moves(t) /\ Stopped(t) /\ SameWalk(t)

\* The walk of a chain after a link that did not give the value.
LEMMA NextLinkFacts ==
  ASSUME TypeOK, NEW t \in Names, NEW h \in BOOLEAN, NEW e \in BOOLEAN, NextLink(t, h, e)
  PROVE  LinkPassed(t, h, e)
<1>1. t \in Threads /\ thread[t] \in ThreadStates /\ thread[t].link \in 1..Len(Chain[t])
  BY Constants DEF TypeOK
<1>2. Len(Chain[t]) \in Nat /\ 1 \in 1..MaxAttempts /\ thread[t].link \in Nat
  BY Constants, <1>1
<1> DEFINE go == [thread[t] EXCEPT !.link = thread[t].link + 1, !.at = "slot", !.attempt = 1, !.sent = 0,
                     !.probes = 0, !.slot = 0, !.cell = 0, !.healthy = h, !.err = e]
           end == [thread[t] EXCEPT !.at = "done", !.healthy = h, !.err = e]
<1>3. /\ thread[t].link < Len(Chain[t]) => thread' = [thread EXCEPT ![t] = go]
      /\ ~(thread[t].link < Len(Chain[t])) => thread' = [thread EXCEPT ![t] = end]
  <2>1. thread' = [thread EXCEPT ![t] = IF thread[t].link < Len(Chain[t]) THEN go ELSE end]
    BY DEF NextLink, ChainEnd
  <2> HIDE DEF go, end
  <2> QED BY <2>1
<1>4. end \in ThreadStates
  BY <1>1 DEF ThreadStates, Points
<1>5. go \in ThreadStates
  <2>1. thread[t].link + 1 \in Nat \ {0}
    BY <1>2
  <2> QED BY <1>1, <1>2, <2>1 DEF ThreadStates, Points
<1>6. /\ go.at = "slot" /\ go.link = thread[t].link + 1 /\ go.attempt = 1 /\ go.sent = 0
      /\ go.probes = 0 /\ go.slot = 0 /\ go.cell = 0 /\ go.healthy = h /\ go.err = e
      /\ go.found = thread[t].found
  BY <1>1 DEF ThreadStates
<1>7. /\ end.at = "done" /\ end.link = thread[t].link /\ end.slot = thread[t].slot
      /\ end.cell = thread[t].cell /\ end.attempt = thread[t].attempt /\ end.sent = thread[t].sent
      /\ end.probes = thread[t].probes /\ end.tries = thread[t].tries
      /\ end.healthy = h /\ end.err = e /\ end.found = thread[t].found
  BY <1>1 DEF ThreadStates
<1> HIDE DEF go, end
<1>8. CASE thread[t].link < Len(Chain[t])
  <2>1. Moves(t) /\ thread'[t] = go
    BY <1>1, <1>3, <1>5, <1>8, MovesTo
  <2> QED BY <1>6, <1>8, <2>1 DEF LinkPassed, Advanced
<1>9. CASE thread[t].link = Len(Chain[t])
  <2>1. Moves(t) /\ thread'[t] = end
    BY <1>1, <1>2, <1>3, <1>4, <1>9, MovesTo
  <2> QED BY <1>7, <1>9, <2>1 DEF LinkPassed, Stopped, SamePlace, SameCounts
<1> QED BY <1>1, <1>2, <1>8, <1>9

\* The error of a provider.
LEMMA FailsFacts ==
  ASSUME TypeOK, NEW t \in Threads, Fails(t), Shared
  PROVE  Failed(t)
<1>1. UNCHANGED <<phase, holds, fetched, outcome, next>>
  BY DEF Shared
<1>2. erred' = [n \in Names |-> IF n \in Serves(t) /\ t # Writer THEN erred[n] \cup {LinkOf(t)}
                                ELSE erred[n]]
  BY DEF Fails
<1>3. CASE t \in Names
  <2>1. NextLink(t, thread[t].healthy, TRUE) /\ failed' = failed
    BY <1>3 DEF Fails
  <2>2. thread[t].healthy \in BOOLEAN /\ TRUE \in BOOLEAN
    BY KeyTypes DEF ThreadStates
  <2>3. LinkPassed(t, thread[t].healthy, TRUE)
    BY <1>3, <2>1, <2>2, NextLinkFacts
  <2> QED BY <1>1, <1>2, <1>3, <2>1, <2>3 DEF Failed
<1>4. CASE t \notin Names
  <2> DEFINE r == [thread[t] EXCEPT !.at = "done", !.err = TRUE]
  <2>1. thread' = [thread EXCEPT ![t] = r] /\ failed' = IF t \in Groups THEN failed \cup {t} ELSE failed
    BY <1>4 DEF Fails
  <2>2. thread[t] \in ThreadStates /\ "done" \in Points
    BY KeyTypes DEF Points
  <2>3. r \in ThreadStates
    BY <2>2, Records
  <2>4. Moves(t) /\ thread'[t] = r
    BY <2>1, <2>3, MovesTo
  <2>5. /\ r.at = "done" /\ r.link = thread[t].link /\ r.slot = thread[t].slot
        /\ r.cell = thread[t].cell /\ r.attempt = thread[t].attempt /\ r.sent = thread[t].sent
        /\ r.probes = thread[t].probes /\ r.tries = thread[t].tries
        /\ r.healthy = thread[t].healthy /\ r.found = thread[t].found
    BY <2>2 DEF ThreadStates
  <2> HIDE DEF r
  <2>6. Stopped(t) /\ thread'[t].found = thread[t].found /\ thread'[t].healthy = thread[t].healthy
    BY <2>4, <2>5 DEF Stopped, SamePlace, SameCounts
  <2>7. failed' \subseteq Groups
    BY <2>1 DEF TypeOK
  <2> QED BY <1>1, <1>2, <1>4, <2>1, <2>4, <2>6, <2>7 DEF Failed
<1> QED BY <1>3, <1>4

\* Another attempt of the whole call, which the retry policy allows.
Retried(t) ==
  /\ Inner(t, thread[t].at, "check") /\ SamePlace(t) /\ Retries(t)
  /\ thread'[t].attempt = thread[t].attempt + 1
  /\ thread'[t].sent = thread[t].sent /\ thread'[t].probes = thread[t].probes

\* RetryPolicy::run_with after a failed attempt.
LEMMA AttemptFacts ==
  ASSUME TypeOK, NEW t \in Threads, NEW verdict, AttemptFails(t, verdict), Shared
  PROVE  Failed(t) \/ (Retried(t) /\ verdict = "transient")
<1>1. CASE ~(verdict = "transient" /\ Retries(t) /\ thread[t].attempt < MaxAttempts)
  BY <1>1, FailsFacts DEF AttemptFails
<1>2. CASE verdict = "transient" /\ Retries(t) /\ thread[t].attempt < MaxAttempts
  <2> DEFINE r == [thread[t] EXCEPT !.attempt = thread[t].attempt + 1, !.at = "check"]
  <2>1. thread' = [thread EXCEPT ![t] = r] /\ UNCHANGED <<failed, erred>>
    BY <1>2 DEF AttemptFails
  <2>2. thread[t] \in ThreadStates /\ "check" \in Points
    BY KeyTypes DEF Points
  <2>3. thread[t].attempt + 1 \in 1..MaxAttempts
    <3>1. thread[t].attempt \in 1..MaxAttempts /\ MaxAttempts \in Nat
      BY <2>2, Constants DEF ThreadStates
    <3> QED BY <1>2, <3>1
  <2>4. r \in ThreadStates
    BY <2>2, <2>3, Records
  <2>5. Moves(t) /\ thread'[t] = r
    BY <2>1, <2>4, MovesTo
  <2>6. /\ r.at = "check" /\ r.link = thread[t].link /\ r.slot = thread[t].slot
        /\ r.cell = thread[t].cell /\ r.attempt = thread[t].attempt + 1 /\ r.sent = thread[t].sent
        /\ r.probes = thread[t].probes /\ r.err = thread[t].err
        /\ r.healthy = thread[t].healthy /\ r.found = thread[t].found
    BY <2>2 DEF ThreadStates
  <2> HIDE DEF r
  <2> QED BY <1>2, <2>1, <2>5, <2>6 DEF Retried, Inner, SameWalk, SamePlace, Shared
<1> QED BY <1>1, <1>2

\* The failed slot leaves the map, and the walk goes on.
LEMMA DropSlotFacts ==
  ASSUME TypeOK, SlotInv, NEW t \in Threads, DropSlot(t)
  PROVE  /\ Failed(t) /\ thread[t].at = "unslot" /\ UNCHANGED <<cells, delivered, faults>>
         /\ slots' \in Seq(Slots) /\ Len(slots') = Len(slots) /\ DOMAIN slots' = DOMAIN slots
<1> DEFINE i == thread[t].slot
<1>1. /\ thread[t].at = "unslot" /\ slots' = [slots EXCEPT ![i].live = FALSE]
      /\ Fails(t) /\ Shared /\ UNCHANGED <<cells, delivered, faults>>
  BY DEF DropSlot, At, Works
<1>2. slots \in Seq(Slots) /\ i \in DOMAIN slots
  BY <1>1 DEF TypeOK, SlotInv
<1>3. [slots[i] EXCEPT !.live = FALSE] \in Slots
  <2>1. slots[i] \in Slots
    BY <1>2
  <2> QED BY <2>1 DEF Slots
<1>4. slots' = [slots EXCEPT ![i] = [slots[i] EXCEPT !.live = FALSE]]
  BY <1>1
<1>5. slots' \in Seq(Slots) /\ Len(slots') = Len(slots) /\ DOMAIN slots' = DOMAIN slots
  BY <1>2, <1>3, <1>4, Replaced
<1> QED BY <1>1, <1>5, FailsFacts

\* A failure is returned once its cell has left the map.
LEMMA ForgetFacts ==
  ASSUME TypeOK, ProbeInv, NEW t \in Threads, Forget(t)
  PROVE  /\ Failed(t) /\ thread[t].at = "forget" /\ UNCHANGED <<slots, faults>>
         /\ cells' = [cells EXCEPT ![thread[t].cell] = [cells[thread[t].cell] EXCEPT !.live = FALSE]]
         /\ delivered' = delivered \cup {thread[t].cell}
<1> DEFINE i == thread[t].cell
<1>1. /\ thread[t].at = "forget"
      /\ cells' = [j \in DOMAIN cells |-> IF j \in {i} THEN [cells[j] EXCEPT !.live = FALSE]
                                          ELSE cells[j]]
      /\ delivered' = delivered \cup {i} /\ AttemptFails(t, cells[i].state)
      /\ Shared /\ UNCHANGED <<slots, faults>>
  BY DEF Forget, At, Works, Removes
<1>2. cells[i].state = "permanent" /\ i \in DOMAIN cells
  BY <1>1, CellOf DEF ProbeInv, At
<1>3. Failed(t)
  BY <1>1, <1>2, AttemptFacts
<1>4. cells' = [cells EXCEPT ![i] = [cells[i] EXCEPT !.live = FALSE]]
  <2> HIDE DEF i
  <2>1. cells \in Seq(Cells) /\ DOMAIN cells = 1..Len(cells)
    BY DEF TypeOK
  <2>2. cells = [j \in DOMAIN cells |-> cells[j]]
    BY <2>1
  <2> QED BY <1>1, <1>2, <2>2
<1> QED BY <1>1, <1>3, <1>4

\* The operation answers.
LEMMA CallFacts ==
  ASSUME TypeOK, NEW t \in Threads, Call(t)
  PROVE  Replied(t) /\ thread[t].at = "call" /\ UNCHANGED <<slots, cells, delivered, faults>>
<1>1. /\ thread[t].at = "call" /\ UNCHANGED <<slots, cells, failed, delivered, erred, faults>>
      /\ GroupAnswers(t) \/ LinkAnswers(t) \/ WriteAnswers(t)
  BY DEF Call, At, Works
<1>2. thread[t] \in ThreadStates /\ "done" \in Points
  BY KeyTypes DEF Points
<1>3. ASSUME thread' = [thread EXCEPT ![t].at = "done"]
      PROVE  Moves(t) /\ Stopped(t) /\ SameWalk(t)
  <2> DEFINE r == [thread[t] EXCEPT !.at = "done"]
  <2>1. r \in ThreadStates
    BY <1>2, Records
  <2>2. Moves(t) /\ thread'[t] = r
    BY <1>3, <2>1, MovesTo
  <2>3. /\ r.at = "done" /\ r.link = thread[t].link /\ r.slot = thread[t].slot
        /\ r.cell = thread[t].cell /\ r.attempt = thread[t].attempt /\ r.sent = thread[t].sent
        /\ r.probes = thread[t].probes /\ r.tries = thread[t].tries /\ r.err = thread[t].err
        /\ r.healthy = thread[t].healthy /\ r.found = thread[t].found
    BY <1>2 DEF ThreadStates
  <2> HIDE DEF r
  <2> QED BY <2>2, <2>3 DEF Stopped, SamePlace, SameCounts, SameWalk
<1>4. CASE GroupAnswers(t)
  <2>1. /\ t \in Groups /\ thread' = [thread EXCEPT ![t].at = "done"]
        /\ UNCHANGED <<phase, holds, outcome, next>>
        /\ fetched' = [n \in Names |-> IF n \in Serves(t) /\ t \in holds[n] THEN t ELSE fetched[n]]
    BY <1>4 DEF GroupAnswers
  <2>2. \A n \in Names : n \in Serves(t) <=> Primary(n) = t
    BY <2>1 DEF Serves
  <2>3. fetched' = [n \in Names |-> IF Primary(n) = t /\ t \in holds[n] THEN t ELSE fetched[n]]
    BY <2>1, <2>2
  <2> QED BY <1>1, <1>3, <2>1, <2>3 DEF Replied
<1>5. CASE LinkAnswers(t)
  <2>1. /\ t \in Names /\ UNCHANGED <<phase, holds, fetched, outcome, next>>
        /\ SpecOf(t) = Chain[t][thread[t].link]
    BY <1>5, Constants DEF LinkAnswers, Shared, SpecOf
  <2>2. CASE SpecOf(t) \in holds[t]
    <3> DEFINE r == [thread[t] EXCEPT !.at = "done", !.found = SpecOf(t)]
    <3>1. SpecOf(t) \in Specs \cup {None}
      BY KeyTypes
    <3>2. r \in ThreadStates
      BY <1>2, <3>1, Records
    <3>3. thread' = [thread EXCEPT ![t] = r]
      BY <1>5, <2>2 DEF LinkAnswers
    <3>4. Moves(t) /\ thread'[t] = r
      BY <3>2, <3>3, MovesTo
    <3>5. /\ r.at = "done" /\ r.link = thread[t].link /\ r.slot = thread[t].slot
          /\ r.cell = thread[t].cell /\ r.attempt = thread[t].attempt /\ r.sent = thread[t].sent
          /\ r.probes = thread[t].probes /\ r.tries = thread[t].tries /\ r.err = thread[t].err
          /\ r.healthy = thread[t].healthy /\ r.found = SpecOf(t)
      BY <1>2 DEF ThreadStates
    <3> HIDE DEF r
    <3>6. Stopped(t)
      BY <3>4, <3>5 DEF Stopped, SamePlace, SameCounts
    <3> QED BY <1>1, <2>1, <2>2, <3>4, <3>5, <3>6 DEF Replied
  <2>3. CASE SpecOf(t) \notin holds[t]
    <3>1. NextLink(t, TRUE, thread[t].err)
      BY <1>5, <2>3 DEF LinkAnswers
    <3>2. thread[t].err \in BOOLEAN /\ TRUE \in BOOLEAN
      BY <1>2 DEF ThreadStates
    <3>3. LinkPassed(t, TRUE, thread[t].err)
      BY <2>1, <3>1, <3>2, NextLinkFacts
    <3> QED BY <1>1, <2>1, <2>3, <3>3 DEF Replied
  <2> QED BY <2>2, <2>3
<1>6. CASE WriteAnswers(t)
  <2>1. /\ t = Writer /\ thread' = [thread EXCEPT ![t].at = "done"]
        /\ UNCHANGED <<phase, holds, fetched, outcome, next>>
    BY <1>6 DEF WriteAnswers, Shared
  <2> QED BY <1>1, <1>3, <2>1 DEF Replied
<1> QED BY <1>1, <1>4, <1>5, <1>6

\* The operation fails.
LEMMA CallFailsFacts ==
  ASSUME TypeOK, NEW t \in Threads, NEW verdict, CallFails(t, verdict)
  PROVE  /\ Failed(t) \/ Retried(t)
         /\ thread[t].at = "call" /\ UNCHANGED <<slots, cells, delivered>> /\ faults' \in 0..MaxFaults
<1>1. /\ thread[t].at = "call" /\ UNCHANGED <<slots, cells, delivered>> /\ Shared
      /\ AttemptFails(t, verdict) /\ faults < MaxFaults /\ faults' = faults + 1
  BY DEF CallFails, At, Fault
<1>2. faults' \in 0..MaxFaults
  <2>1. faults \in 0..MaxFaults /\ MaxFaults \in Nat
    BY PassAssumption DEF TypeOK
  <2> QED BY <1>1, <2>1
<1> QED BY <1>1, <1>2, AttemptFacts

----------------------------------------------------------------------------
(* The types, and what every step of a thread is *)

\* What a step leaves of the shared sequences.
Placed(t) ==
  /\ slots' \in Seq(Slots) /\ Len(slots) <= Len(slots') /\ thread'[t].slot \in 0..Len(slots')
  /\ thread'[t].at \in {"lock", "build", "unslot"} => thread'[t].slot # 0
  /\ cells' \in Seq(Cells) /\ Len(cells) <= Len(cells') /\ thread'[t].cell \in 0..Len(cells')
  /\ delivered' \subseteq DOMAIN cells' /\ faults' \in 0..MaxFaults

\* A step inside a call, an error or an answer.
Kinds(t) ==
  /\ thread[t].at \in Inside
  /\ (\E to \in Inside : Inner(t, thread[t].at, to)) \/ Failed(t) \/ Replied(t)

\* A thread that ends a link keeps its place or gives it up.
LEMMA EndsPlace ==
  ASSUME NEW t \in Threads, Failed(t) \/ Replied(t)
  PROVE  /\ Moves(t) /\ (Stopped(t) \/ Advanced(t))
         /\ UNCHANGED <<phase, holds, outcome, next>>
  BY DEF Failed, Replied, LinkPassed

\* Every step of a thread is of one of these kinds.
LEMMA StepKinds ==
  ASSUME TypeOK, SlotInv, ProbeInv, NEW t \in Threads, Step(t)
  PROVE  Kinds(t)
<1>1. CASE TakeSlot(t)
  BY <1>1, TakeSlotFacts DEF Kinds, Inner, Inside
<1>2. CASE LockSlot(t)
  BY <1>2, LockSlotFacts DEF Kinds, Inner, Inside
<1>3. CASE Build(t)
  BY <1>3, BuildFacts DEF Kinds, Inner, Inside
<1>4. CASE DropSlot(t)
  BY <1>4, DropSlotFacts DEF Kinds, Inside
<1>5. CASE Check(t)
  BY <1>5, CheckFacts DEF Kinds, Inner, Inside
<1>6. CASE Wait(t)
  BY <1>6, WaitFacts DEF Kinds, Inner, Inside
<1>7. CASE Probe(t)
  BY <1>7, ProbeFacts DEF Kinds, Inner, Inside
<1>8. CASE Forget(t)
  BY <1>8, ForgetFacts DEF Kinds, Inside
<1>9. CASE Call(t)
  BY <1>9, CallFacts DEF Kinds, Inside
<1>10. ASSUME NEW v, CallFails(t, v)
       PROVE  Kinds(t)
  BY <1>10, CallFailsFacts DEF Kinds, Inside, Retried, Inner
<1> QED BY <1>1, <1>2, <1>3, <1>4, <1>5, <1>6, <1>7, <1>8, <1>9, <1>10 DEF Step

\* The cells after one of them has been replaced.
LEMMA CellReplaced ==
  ASSUME TypeOK, NEW i \in DOMAIN cells, NEW c \in Cells, cells' = [cells EXCEPT ![i] = c]
  PROVE  /\ cells' \in Seq(Cells) /\ Len(cells') = Len(cells) /\ DOMAIN cells' = DOMAIN cells
         /\ cells'[i] = c /\ \A j \in DOMAIN cells : j # i => cells'[j] = cells[j]
<1>1. cells \in Seq(Cells)
  BY DEF TypeOK
<1> QED BY <1>1, Replaced

\* A step that keeps the lengths, and its thread's place or none.
LEMMA PlaceKept ==
  ASSUME TypeOK, SlotInv, NEW t \in Threads,
         slots' \in Seq(Slots), Len(slots') = Len(slots), cells' \in Seq(Cells),
         Len(cells') = Len(cells), delivered' \subseteq DOMAIN cells, faults' \in 0..MaxFaults,
         thread'[t].slot \in {thread[t].slot, 0}, thread'[t].cell \in {thread[t].cell, 0},
         thread'[t].at \in {"lock", "build", "unslot"}
           => thread[t].at \in {"lock", "build", "unslot"} /\ thread'[t].slot = thread[t].slot
  PROVE  Placed(t)
<1>1. /\ slots \in Seq(Slots) /\ cells \in Seq(Cells) /\ thread[t].slot \in 0..Len(slots)
      /\ thread[t].cell \in 0..Len(cells)
      /\ thread[t].at \in {"lock", "build", "unslot"} => thread[t].slot \in DOMAIN slots
  BY DEF TypeOK, SlotInv
<1>2. /\ Len(slots) \in Nat /\ Len(cells) \in Nat /\ DOMAIN slots = 1..Len(slots)
      /\ DOMAIN cells = 1..Len(cells) /\ DOMAIN cells' = 1..Len(cells')
  BY <1>1
<1>3. Len(slots) <= Len(slots') /\ thread'[t].slot \in 0..Len(slots')
  BY <1>1, <1>2
<1>4. Len(cells) <= Len(cells') /\ thread'[t].cell \in 0..Len(cells')
  BY <1>1, <1>2
<1>5. delivered' \subseteq DOMAIN cells'
  BY <1>2
<1>6. thread'[t].at \in {"lock", "build", "unslot"} => thread'[t].slot # 0
  BY <1>1, <1>2
<1> QED BY <1>3, <1>4, <1>5, <1>6 DEF Placed

\* Every step keeps the slots, the cells and a thread's place in them.
LEMMA StepPlaced ==
  ASSUME TypeOK, SlotInv, ProbeInv, NEW t \in Threads, Step(t)
  PROVE  Placed(t)
<1>1. /\ slots \in Seq(Slots) /\ cells \in Seq(Cells) /\ delivered \subseteq DOMAIN cells
      /\ faults \in 0..MaxFaults /\ thread[t].slot \in 0..Len(slots) /\ thread[t].cell \in 0..Len(cells)
  BY DEF TypeOK
<1>2. CASE TakeSlot(t)
  <2>1. /\ slots' \in Seq(Slots) /\ Len(slots) <= Len(slots') /\ thread'[t].slot \in DOMAIN slots'
        /\ cells' = cells /\ delivered' = delivered /\ faults' = faults
        /\ thread'[t].cell = thread[t].cell
    BY <1>2, TakeSlotFacts
  <2>2. thread'[t].slot \in 1..Len(slots') /\ Len(slots') \in Nat
    BY <2>1
  <2>3. thread'[t].slot \in 0..Len(slots') /\ thread'[t].slot # 0
    BY <2>2
  <2>4. Len(cells') = Len(cells) /\ Len(cells) \in Nat /\ cells' \in Seq(Cells)
        /\ delivered' \subseteq DOMAIN cells'
    BY <1>1, <2>1
  <2>5. thread'[t].cell \in 0..Len(cells') /\ Len(cells) <= Len(cells')
    BY <1>1, <2>1, <2>4
  <2> QED BY <1>1, <2>1, <2>3, <2>4, <2>5 DEF Placed
<1>3. CASE LockSlot(t) \/ Build(t)
  <2>1. /\ slots' \in Seq(Slots) /\ Len(slots') = Len(slots)
        /\ cells' = cells /\ delivered' = delivered
        /\ SamePlace(t) /\ thread[t].at \in {"lock", "build"}
    BY <1>3, LockSlotFacts, BuildFacts DEF Inner
  <2>2. faults' \in 0..MaxFaults
    BY <1>1, <1>3, LockSlotFacts, BuildFacts
  <2>3. cells' \in Seq(Cells) /\ Len(cells') = Len(cells)
    BY <1>1, <2>1
  <2> QED BY <1>1, <2>1, <2>2, <2>3, PlaceKept DEF SamePlace
<1>4. CASE DropSlot(t)
  <2>1. /\ slots' \in Seq(Slots) /\ Len(slots') = Len(slots)
        /\ cells' = cells /\ delivered' = delivered /\ faults' = faults
        /\ Stopped(t) \/ Advanced(t)
    BY <1>4, DropSlotFacts, EndsPlace
  <2>2. /\ thread'[t].slot \in {thread[t].slot, 0} /\ thread'[t].cell \in {thread[t].cell, 0}
        /\ thread'[t].at \in {"done", "slot"}
    BY <2>1 DEF Stopped, Advanced, SamePlace
  <2>3. cells' \in Seq(Cells) /\ Len(cells') = Len(cells)
    BY <1>1, <2>1
  <2> QED BY <1>1, <2>1, <2>2, <2>3, PlaceKept
<1>5. CASE Check(t)
  <2>1. /\ slots' = slots /\ thread'[t].slot = thread[t].slot /\ faults' = faults
        /\ cells' \in Seq(Cells) /\ Len(cells) <= Len(cells') /\ thread'[t].cell \in 0..Len(cells')
        /\ delivered' = delivered /\ thread'[t].at \in {"call", "wait"}
    BY <1>5, CheckFacts DEF Inner
  <2>2. /\ DOMAIN cells' = 1..Len(cells') /\ Len(cells') \in Nat
        /\ DOMAIN cells = 1..Len(cells) /\ Len(cells) \in Nat
    BY <1>1, <2>1
  <2>3. DOMAIN cells \subseteq DOMAIN cells'
    BY <2>1, <2>2
  <2>4. delivered' \subseteq DOMAIN cells'
    BY <1>1, <2>1, <2>3
  <2>5. Len(slots') = Len(slots) /\ slots' \in Seq(Slots) /\ Len(slots) \in Nat
    BY <1>1, <2>1
  <2>6. thread'[t].slot \in 0..Len(slots') /\ Len(slots) <= Len(slots')
    BY <1>1, <2>1, <2>5
  <2> QED BY <1>1, <2>1, <2>4, <2>5, <2>6 DEF Placed
<1>6. CASE Wait(t) \/ Probe(t)
  <2>1. /\ slots' = slots /\ delivered' = delivered /\ SamePlace(t)
        /\ thread[t].at \in {"wait", "probe"} /\ thread'[t].at \in {"probe", "call", "forget", "wait"}
    BY <1>6, WaitFacts, ProbeFacts DEF Inner
  <2>2. /\ faults' \in 0..MaxFaults
        /\ \/ cells' = cells
           \/ \E s \in {"running", "ok", "permanent"} : cells' = [cells EXCEPT ![thread[t].cell].state = s]
    BY <1>1, <1>6, WaitFacts, ProbeFacts
  <2>3. cells' \in Seq(Cells) /\ Len(cells') = Len(cells)
    <3>1. CASE cells' = cells
      BY <1>1, <3>1
    <3>2. ASSUME NEW s \in {"running", "ok", "permanent"},
                 cells' = [cells EXCEPT ![thread[t].cell].state = s]
          PROVE  cells' \in Seq(Cells) /\ Len(cells') = Len(cells)
      <4> DEFINE c == [cells[thread[t].cell] EXCEPT !.state = s]
      <4>1. thread[t].cell \in DOMAIN cells
        BY <2>1, CellOf
      <4>2. c \in Cells
        BY <4>1, StateSet
      <4>3. cells' = [cells EXCEPT ![thread[t].cell] = c]
        BY <3>2
      <4> QED BY <4>1, <4>2, <4>3, CellReplaced
    <3> QED BY <2>2, <3>1, <3>2
  <2>4. slots' \in Seq(Slots) /\ Len(slots') = Len(slots)
    BY <1>1, <2>1
  <2> QED BY <1>1, <2>1, <2>2, <2>3, <2>4, PlaceKept DEF SamePlace
<1>7. CASE Forget(t)
  <2> DEFINE i == thread[t].cell
             c == [cells[i] EXCEPT !.live = FALSE]
  <2>1. /\ slots' = slots /\ faults' = faults /\ (Stopped(t) \/ Advanced(t))
        /\ cells' = [cells EXCEPT ![i] = c] /\ delivered' = delivered \cup {i} /\ thread[t].at = "forget"
    BY <1>7, ForgetFacts, EndsPlace
  <2>2. i \in DOMAIN cells /\ c \in Cells
    BY <2>1, CellOf, StateSet
  <2>3. cells' \in Seq(Cells) /\ Len(cells') = Len(cells)
    BY <2>1, <2>2, CellReplaced
  <2>4. delivered' \subseteq DOMAIN cells
    BY <1>1, <2>1, <2>2
  <2>5. /\ thread'[t].slot \in {thread[t].slot, 0} /\ thread'[t].cell \in {thread[t].cell, 0}
        /\ thread'[t].at \in {"done", "slot"}
    BY <2>1 DEF Stopped, Advanced, SamePlace
  <2>6. slots' \in Seq(Slots) /\ Len(slots') = Len(slots)
    BY <1>1, <2>1
  <2> HIDE DEF i, c
  <2> QED BY <1>1, <2>1, <2>3, <2>4, <2>5, <2>6, PlaceKept
<1>8. CASE Call(t) \/ \E v \in {"transient", "permanent"} : CallFails(t, v)
  <2>1. /\ slots' = slots /\ delivered' = delivered /\ cells' = cells
        /\ Replied(t) \/ Failed(t) \/ Retried(t)
    BY <1>8, CallFacts, CallFailsFacts
  <2>2. faults' \in 0..MaxFaults
    BY <1>1, <1>8, CallFacts, CallFailsFacts
  <2>3. Stopped(t) \/ Advanced(t) \/ Retried(t)
    BY <2>1, EndsPlace
  <2>4. /\ thread'[t].slot \in {thread[t].slot, 0} /\ thread'[t].cell \in {thread[t].cell, 0}
        /\ thread'[t].at \in {"done", "slot", "check"}
    BY <2>3 DEF Stopped, Advanced, SamePlace, Retried, Inner
  <2>5. slots' \in Seq(Slots) /\ Len(slots') = Len(slots)
    BY <1>1, <2>1
  <2>6. cells' \in Seq(Cells) /\ Len(cells') = Len(cells)
    BY <1>1, <2>1
  <2> QED BY <1>1, <2>1, <2>2, <2>4, <2>5, <2>6, PlaceKept
<1> QED BY <1>2, <1>3, <1>4, <1>5, <1>6, <1>7, <1>8 DEF Step

\* A step of a thread keeps the types, and the threads in the provider cache
\* keep a slot.
LEMMA StepTypes ==
  ASSUME TypeOK, SlotInv, ProbeInv, NEW t \in Threads, Step(t)
  PROVE  TypeOK' /\ SlotInv'
<1>1. Kinds(t) /\ Placed(t)
  BY StepKinds, StepPlaced
<1>2. /\ Moves(t) /\ UNCHANGED <<phase, holds, outcome, next>>
      /\ SameWalk(t) \/ Stopped(t) \/ (t \in Names => thread[t].link < Len(Chain[t]) /\ Advanced(t))
  <2>1. CASE \E to \in Inside : Inner(t, thread[t].at, to)
    BY <2>1 DEF Inner
  <2>2. CASE Failed(t)
    BY <2>2 DEF Failed, LinkPassed
  <2>3. CASE Replied(t)
    BY <2>3 DEF Replied, LinkPassed
  <2> QED BY <1>1, <2>1, <2>2, <2>3 DEF Kinds
<1>3. \A n \in Names : thread'[n].link \in 1..Len(Chain[n])
  <2> SUFFICES ASSUME NEW n \in Names PROVE thread'[n].link \in 1..Len(Chain[n])
    OBVIOUS
  <2>1. thread[n].link \in 1..Len(Chain[n]) /\ Len(Chain[n]) \in Nat /\ n \in Threads
    BY Constants DEF TypeOK
  <2>2. CASE n # t
    BY <1>2, <2>1, <2>2 DEF Moves
  <2>3. CASE n = t /\ thread'[t].link = thread[t].link
    BY <2>1, <2>3
  <2>4. CASE n = t /\ thread[t].link < Len(Chain[t]) /\ thread'[t].link = thread[t].link + 1
    BY <2>1, <2>4
  <2> QED BY <1>2, <2>2, <2>3, <2>4 DEF SameWalk, Stopped, Advanced
<1>4. /\ slots \in Seq(Slots) /\ cells \in Seq(Cells) /\ slots' \in Seq(Slots) /\ cells' \in Seq(Cells)
      /\ Len(slots) <= Len(slots') /\ Len(cells) <= Len(cells')
  BY <1>1 DEF Placed, TypeOK
<1>5. Len(slots) \in Nat /\ Len(cells) \in Nat /\ Len(slots') \in Nat /\ Len(cells') \in Nat
  BY <1>4
<1>6. \A u \in Threads : thread'[u].slot \in 0..Len(slots') /\ thread'[u].cell \in 0..Len(cells')
  <2> SUFFICES ASSUME NEW u \in Threads
               PROVE  thread'[u].slot \in 0..Len(slots') /\ thread'[u].cell \in 0..Len(cells')
    OBVIOUS
  <2>1. thread[u].slot \in 0..Len(slots) /\ thread[u].cell \in 0..Len(cells)
    BY DEF TypeOK
  <2>2. CASE u = t
    BY <1>1, <2>2 DEF Placed
  <2>3. CASE u # t
    <3>1. thread'[u].slot \in 0..Len(slots) /\ thread'[u].cell \in 0..Len(cells)
      BY <1>2, <2>1, <2>3 DEF Moves
    <3> QED BY <1>4, <1>5, <3>1
  <2> QED BY <2>2, <2>3
<1>7. /\ fetched' \in [Names -> Specs \cup {None}] /\ failed' \subseteq Groups
      /\ erred' \in [Names -> SUBSET Nat]
  <2>1. /\ fetched \in [Names -> Specs \cup {None}] /\ failed \subseteq Groups
        /\ erred \in [Names -> SUBSET Nat] /\ Groups \subseteq Specs
    BY Constants DEF TypeOK
  <2>2. CASE \E to \in Inside : Inner(t, thread[t].at, to)
    BY <2>1, <2>2 DEF Inner
  <2>3. CASE Failed(t)
    <3>1. LinkOf(t) \in Nat
      BY KeyTypes DEF LinkOf, ThreadStates
    <3>2. /\ fetched' = fetched /\ failed' \subseteq Groups
          /\ erred' = [n \in Names |-> IF n \in Serves(t) /\ t # Writer THEN erred[n] \cup {LinkOf(t)}
                                       ELSE erred[n]]
      BY <2>1, <2>3 DEF Failed
    <3>3. erred' \in [Names -> SUBSET Nat]
      BY <2>1, <3>1, <3>2
    <3> QED BY <2>1, <3>2, <3>3
  <2>4. CASE Replied(t)
    <3>1. failed' = failed /\ erred' = erred
      BY <2>4 DEF Replied
    <3>2. fetched' \in [Names -> Specs \cup {None}]
      BY <2>1, <2>4 DEF Replied
    <3> QED BY <2>1, <3>1, <3>2
  <2> QED BY <1>1, <2>2, <2>3, <2>4 DEF Kinds
<1>8. TypeOK'
  <2>1. /\ phase' \in {"construct", "primary", "fallback", "values", "done", "failed"}
        /\ holds' \in [Names -> SUBSET Specs]
        /\ outcome' \in [Names -> {None, "resolved", "error", "generate", "default", "omit"}]
        /\ next' \in Names
    BY <1>2 DEF TypeOK
  <2>2. thread' \in [Threads -> ThreadStates] /\ delivered' \subseteq DOMAIN cells'
        /\ faults' \in 0..MaxFaults
    BY <1>1, <1>2 DEF Moves, Placed
  <2> QED BY <1>3, <1>4, <1>6, <1>7, <2>1, <2>2 DEF TypeOK
<1>9. SlotInv'
  <2> SUFFICES ASSUME NEW u \in Threads, thread'[u].at \in {"lock", "build", "unslot"}
               PROVE  thread'[u].slot \in DOMAIN slots'
    BY DEF SlotInv
  <2>1. thread'[u].slot \in 0..Len(slots') /\ DOMAIN slots' = 1..Len(slots')
    BY <1>4, <1>6
  <2>2. thread'[u].slot # 0
    <3>1. CASE u = t
      BY <1>1, <3>1 DEF Placed
    <3>2. CASE u # t
      <4>1. thread'[u] = thread[u]
        BY <1>2, <3>2 DEF Moves
      <4>2. thread[u].slot \in DOMAIN slots
        BY <4>1 DEF SlotInv
      <4> QED BY <1>4, <1>5, <4>1, <4>2
    <3> QED BY <3>1, <3>2
  <2> QED BY <1>5, <2>1, <2>2
<1> QED BY <1>8, <1>9

----------------------------------------------------------------------------
(* What the resolving thread's steps do *)

\* A thread before its first request of a provider.
Fresh(u) ==
  /\ thread'[u].at \in {"idle", "queued", "slot", "check"}
  /\ thread'[u].attempt = 1 /\ thread'[u].sent = 0 /\ thread'[u].probes = 0
  /\ thread'[u].slot \in {thread[u].slot, 0} /\ thread'[u].cell \in {thread[u].cell, 0}

\* The shared caches are left alone, and threads only begin or are cleared.
Steered ==
  /\ UNCHANGED <<holds, slots, cells, delivered>>
  /\ thread' \in [Threads -> ThreadStates]
  /\ \A u \in Threads : thread'[u] = thread[u] \/ Fresh(u)
  /\ next' = next \/ thread'[Writer].at = "idle"

\* The fields of the records a thread begins with.
LEMMA Begins ==
  /\ Idle.at = "idle" /\ Idle.link = 1 /\ Idle.slot = 0 /\ Idle.cell = 0 /\ Idle.attempt = 1
  /\ Idle.sent = 0 /\ Idle.probes = 0 /\ Idle.found = None /\ ~Idle.healthy /\ ~Idle.err
  /\ LET r == [Idle EXCEPT !.at = "check"]
     IN  /\ r.at = "check" /\ r.link = 1 /\ r.slot = 0 /\ r.cell = 0 /\ r.attempt = 1
         /\ r.sent = 0 /\ r.probes = 0
  /\ LET r == [Idle EXCEPT !.at = "queued", !.link = 2]
     IN  /\ r.at = "queued" /\ r.link = 2 /\ r.slot = 0 /\ r.cell = 0 /\ r.attempt = 1
         /\ r.sent = 0 /\ r.probes = 0 /\ r.found = None /\ ~r.healthy /\ ~r.err
  BY DEF Idle

\* The groups are finite, so that failed constructions can be counted.
LEMMA GroupsFinite == ASSUME NEW bad \in SUBSET Groups PROVE Cardinality(bad) \in Nat
<1>1. IsFiniteSet(Names)
  BY Constants, FS_Interval
<1>2. IsFiniteSet(Groups)
  <2> DEFINE f == [n \in Names |-> Primary(n)]
  <2>1. f \in Surjection(Names, Groups)
    BY DEF Surjection, Groups
  <2> QED BY <1>1, <2>1, FS_Surjection
<1> QED BY <1>2, FS_Subset, FS_CardinalityType

\* The groups are constructed.
LEMMA ConstructFacts ==
  ASSUME TypeOK, Construct
  PROVE  /\ Steered /\ phase = "construct" /\ phase' = "primary" /\ faults' \in 0..MaxFaults
         /\ UNCHANGED <<fetched, outcome, next>> /\ failed' \subseteq Groups
         /\ \A t \in Threads : thread'[t] = IF t \in Groups \ failed' THEN [Idle EXCEPT !.at = "check"]
                                            ELSE thread[t]
         /\ erred' = [n \in Names |-> IF Primary(n) \in failed' THEN {1} ELSE {}]
<1>1. PICK bad \in SUBSET Groups :
        /\ faults + Cardinality(bad) <= MaxFaults /\ faults' = faults + Cardinality(bad)
        /\ failed' = bad /\ phase = "construct" /\ phase' = "primary"
        /\ erred' = [n \in Names |-> IF Primary(n) \in bad THEN {1} ELSE {}]
        /\ thread' = [t \in Threads |-> IF t \in Groups \ bad THEN [Idle EXCEPT !.at = "check"]
                                        ELSE thread[t]]
        /\ UNCHANGED <<holds, slots, cells, fetched, outcome, next, delivered>>
  BY DEF Construct
<1>2. faults' \in 0..MaxFaults
  <2>1. faults \in 0..MaxFaults /\ MaxFaults \in Nat /\ Cardinality(bad) \in Nat
    BY PassAssumption, GroupsFinite DEF TypeOK
  <2> QED BY <1>1, <2>1
<1>3. \A t \in Threads : thread'[t] = IF t \in Groups \ failed' THEN [Idle EXCEPT !.at = "check"]
                                      ELSE thread[t]
  BY <1>1
<1>4. thread' \in [Threads -> ThreadStates]
  BY <1>1, IdleState DEF TypeOK
<1>5. \A u \in Threads : thread'[u] = thread[u] \/ Fresh(u)
  BY <1>3, Begins DEF Fresh
<1> QED BY <1>1, <1>2, <1>3, <1>4, <1>5 DEF Steered

\* The groups are joined.
LEMMA JoinGroupsFacts ==
  ASSUME TypeOK, JoinGroups
  PROVE  /\ Steered /\ phase = "primary" /\ phase' = "fallback" /\ \A t \in Groups : ~Active(t)
         /\ UNCHANGED <<fetched, failed, outcome, next, erred, faults>>
         /\ \A t \in Threads : thread'[t] = IF t \in Pending THEN [Idle EXCEPT !.at = "queued", !.link = 2]
                                            ELSE Idle
<1>1. /\ phase = "primary" /\ phase' = "fallback" /\ \A t \in Groups : ~Active(t)
      /\ UNCHANGED <<holds, slots, cells, fetched, failed, outcome, next, delivered, erred, faults>>
      /\ thread' = [t \in Threads |-> IF t \in Pending THEN [Idle EXCEPT !.at = "queued", !.link = 2]
                                      ELSE Idle]
  BY DEF JoinGroups, Works
<1>2. \A t \in Threads : thread'[t] = IF t \in Pending THEN [Idle EXCEPT !.at = "queued", !.link = 2]
                                      ELSE Idle
  BY <1>1
<1>3. thread' \in [Threads -> ThreadStates]
  BY <1>1, IdleState
<1>4. \A u \in Threads : Fresh(u)
  BY <1>2, Begins DEF Fresh
<1> QED BY <1>1, <1>2, <1>3, <1>4 DEF Steered

\* A wave of walks begins.
LEMMA StartWaveFacts ==
  ASSUME TypeOK, RequestInv, StartWave
  PROVE  /\ Steered /\ phase = "fallback"
         /\ UNCHANGED <<phase, fetched, failed, outcome, next, erred, faults>>
         /\ \A t \in Threads \ Names : thread'[t] = thread[t]
         /\ \A n \in Names : /\ SameWalk(n) /\ SamePlace(n)
                             /\ \/ thread'[n] = thread[n]
                                \/ thread[n].at = "queued" /\ thread'[n].at = "slot"
<1>1. /\ phase = "fallback"
      /\ UNCHANGED <<phase, holds, slots, cells, fetched, failed, outcome, next, delivered, erred, faults>>
      /\ thread' = [t \in Threads |-> IF t \in Wave THEN [thread[t] EXCEPT !.at = "slot"] ELSE thread[t]]
  BY DEF StartWave, Works, Shared
<1>2. \A t \in Threads : thread[t] \in ThreadStates
  BY DEF TypeOK
<1>3. "slot" \in Points
  BY DEF Points
<1>4. thread' \in [Threads -> ThreadStates]
  BY <1>1, <1>2, <1>3, Records
<1>5. \A t \in Threads : thread'[t] = IF t \in Wave THEN [thread[t] EXCEPT !.at = "slot"] ELSE thread[t]
  BY <1>1
<1>6. \A t \in Threads : t \in Wave => t \in Names /\ thread[t].at = "queued"
  BY DEF Wave, Queued, At
<1>7. ASSUME NEW t \in Threads, t \in Wave
      PROVE  /\ thread'[t].at = "slot" /\ SameWalk(t) /\ SamePlace(t) /\ SameCounts(t)
             /\ Fresh(t)
  <2> DEFINE r == [thread[t] EXCEPT !.at = "slot"]
  <2>1. thread'[t] = r
    BY <1>5, <1>7
  <2>2. /\ r.at = "slot" /\ r.link = thread[t].link /\ r.slot = thread[t].slot
        /\ r.cell = thread[t].cell /\ r.attempt = thread[t].attempt /\ r.sent = thread[t].sent
        /\ r.probes = thread[t].probes /\ r.tries = thread[t].tries /\ r.err = thread[t].err
        /\ r.healthy = thread[t].healthy /\ r.found = thread[t].found
    BY <1>2 DEF ThreadStates
  <2> HIDE DEF r
  <2>3. RequestOk(t) /\ thread[t].at = "queued"
    BY <1>6, <1>7 DEF RequestInv
  <2>4. thread[t].attempt = 1 /\ thread[t].probes = 0 /\ thread[t].sent < 1 /\ thread[t].sent \in Nat
    BY <1>2, <2>3 DEF RequestOk, ThreadStates
  <2>5. thread[t].sent = 0
    BY <2>4
  <2> QED BY <2>1, <2>2, <2>4, <2>5 DEF SameWalk, SamePlace, SameCounts, Fresh
<1>8. \A u \in Threads : thread'[u] = thread[u] \/ Fresh(u)
  BY <1>5, <1>7
<1>9. \A t \in Threads \ Names : thread'[t] = thread[t]
  BY <1>5, <1>6
<1>10. \A n \in Names : /\ SameWalk(n) /\ SamePlace(n)
                        /\ \/ thread'[n] = thread[n]
                           \/ thread[n].at = "queued" /\ thread'[n].at = "slot"
  <2> SUFFICES ASSUME NEW n \in Names
               PROVE  /\ SameWalk(n) /\ SamePlace(n)
                      /\ \/ thread'[n] = thread[n]
                         \/ thread[n].at = "queued" /\ thread'[n].at = "slot"
    OBVIOUS
  <2>1. n \in Threads
    BY Constants
  <2>2. CASE n \in Wave
    BY <1>6, <1>7, <2>1, <2>2
  <2>3. CASE n \notin Wave
    BY <1>5, <2>1, <2>3 DEF SameWalk, SamePlace
  <2> QED BY <2>2, <2>3
<1> QED BY <1>1, <1>4, <1>8, <1>9, <1>10 DEF Steered

\* The next secret, or the end of the pass.
Concludes(o) ==
  /\ outcome' = [outcome EXCEPT ![next] = o]
  /\ \/ phase' = phase /\ next' = next + 1 /\ next + 1 \in Names
     \/ phase' = "done" /\ next' = next
Aborts == outcome' = [outcome EXCEPT ![next] = "error"] /\ phase' = "failed" /\ next' = next

\* A secret is decided, or a generated value begins or ends being written.
LEMMA DecideFacts ==
  ASSUME TypeOK, RequestInv, Decide \/ NotWritable \/ Generated
  PROVE  /\ Steered /\ phase = "values" /\ faults' \in 0..MaxFaults
         /\ UNCHANGED <<fetched, failed, erred>>
         /\ \A t \in Threads : t # Writer => thread'[t] = thread[t]
         /\ \/ ValueOf(next) # None /\ Concludes("resolved") /\ thread'[Writer].at = "idle"
            \/ Missing(next) /\ Concludes(Policy[next]) /\ thread'[Writer].at = "idle"
            \/ /\ Missing(next) /\ thread[Writer].at = "idle" /\ thread'[Writer].at = "check"
               /\ UNCHANGED <<phase, outcome, next>>
            \/ Aborts /\ thread'[Writer].at = "idle"
            \/ /\ thread[Writer].at = "done" /\ Concludes("generate") /\ thread'[Writer].at = "idle"
<1>1. Writer \in Threads /\ thread[Writer] \in ThreadStates /\ thread \in [Threads -> ThreadStates]
  BY Constants DEF TypeOK
<1>2. faults \in 0..MaxFaults /\ MaxFaults \in Nat
  BY PassAssumption DEF TypeOK
<1>3. /\ phase = "values" /\ faults' \in 0..MaxFaults
      /\ UNCHANGED <<holds, slots, cells, fetched, failed, delivered, erred>>
  <2>1. CASE Decide
    BY <1>2, <2>1 DEF Decide, Works
  <2>2. CASE NotWritable
    BY <1>2, <2>2 DEF NotWritable, Fault
  <2>3. CASE Generated
    BY <1>2, <2>3 DEF Generated, Works
  <2> QED BY <2>1, <2>2, <2>3
<1>4. ASSUME thread' = thread, thread[Writer].at = "idle"
      PROVE  Steered /\ thread'[Writer].at = "idle" /\ \A t \in Threads : t # Writer => thread'[t] = thread[t]
  BY <1>1, <1>3, <1>4 DEF Steered
<1>5. CASE Decide
  <2>1. /\ thread[Writer].at = "idle"
        /\ \/ ValueOf(next) # None /\ Decides(next, "resolved") /\ thread' = thread
           \/ Stops(next) /\ thread' = thread
           \/ Missing(next) /\ Decides(next, Policy[next]) /\ thread' = thread
           \/ /\ Missing(next) /\ thread' = [thread EXCEPT ![Writer].at = "check"]
              /\ UNCHANGED <<outcome, phase, next>>
    BY <1>5 DEF Decide, At, Goes
  <2>2. CASE thread' = thread
    <3>1. \/ ValueOf(next) # None /\ Concludes("resolved")
          \/ Missing(next) /\ Concludes(Policy[next])
          \/ Aborts
          \/ thread' = [thread EXCEPT ![Writer].at = "check"]
      BY <2>1 DEF Decides, Stops, Concludes, Aborts
    <3>2. thread' # [thread EXCEPT ![Writer].at = "check"]
      <4>1. [thread EXCEPT ![Writer].at = "check"][Writer].at = "check"
        BY <1>1 DEF ThreadStates
      <4> QED BY <2>1, <2>2, <4>1
    <3> QED BY <1>3, <1>4, <2>1, <2>2, <3>1, <3>2
  <2>3. CASE /\ Missing(next) /\ thread' = [thread EXCEPT ![Writer].at = "check"]
             /\ UNCHANGED <<outcome, phase, next>>
    <3> DEFINE r == [thread[Writer] EXCEPT !.at = "check"]
    <3>1. "check" \in Points
      BY DEF Points
    <3>2. r \in ThreadStates
      BY <1>1, <3>1, Records
    <3>3. Moves(Writer) /\ thread'[Writer] = r
      BY <1>1, <2>3, <3>2, MovesTo
    <3>4. /\ r.at = "check" /\ r.slot = thread[Writer].slot /\ r.cell = thread[Writer].cell
          /\ r.attempt = thread[Writer].attempt /\ r.sent = thread[Writer].sent
          /\ r.probes = thread[Writer].probes
      BY <1>1 DEF ThreadStates
    <3> HIDE DEF r
    <3>5. thread[Writer].attempt = 1 /\ thread[Writer].probes = 0 /\ thread[Writer].sent < 1
      BY <1>1, <2>1 DEF RequestInv, RequestOk
    <3>6. thread[Writer].sent = 0
      BY <1>1, <3>5 DEF ThreadStates
    <3>7. Fresh(Writer)
      BY <3>3, <3>4, <3>5, <3>6 DEF Fresh
    <3>8. Steered
      BY <1>3, <2>3, <3>3, <3>7 DEF Steered, Moves
    <3> QED BY <1>3, <2>1, <2>3, <3>3, <3>4, <3>8 DEF Moves
  <2> QED BY <2>1, <2>2, <2>3
<1>6. CASE NotWritable
  <2>1. thread' = thread /\ thread[Writer].at = "idle" /\ Aborts
    BY <1>6 DEF NotWritable, At, Stops, Aborts
  <2> QED BY <1>3, <1>4, <2>1
<1>7. CASE Generated
  <2>1. /\ thread[Writer].at = "done" /\ thread' = [thread EXCEPT ![Writer] = Idle]
        /\ Aborts \/ Concludes("generate")
    BY <1>7 DEF Generated, At, Stops, Aborts, Decides, Concludes
  <2>2. Moves(Writer) /\ thread'[Writer] = Idle
    BY <1>1, <2>1, IdleState, MovesTo
  <2>3. Fresh(Writer) /\ thread'[Writer].at = "idle"
    BY <2>2, Begins DEF Fresh
  <2>4. Steered
    BY <1>3, <2>2, <2>3 DEF Steered, Moves
  <2> QED BY <1>3, <2>1, <2>2, <2>3, <2>4 DEF Moves
<1> QED BY <1>5, <1>6, <1>7

\* The steps in which no thread and no record of a secret changes.
LEMMA QuietFacts ==
  ASSUME TypeOK, Refuse \/ JoinFallbacks
  PROVE  /\ Steered /\ thread' = thread /\ faults' \in 0..MaxFaults
         /\ UNCHANGED <<fetched, failed, outcome, next, erred>>
         /\ \/ phase = "construct" /\ phase' = "failed"
            \/ /\ phase = "fallback" /\ phase' = "values"
               /\ \A n \in Names : thread[n].at \in {"idle", "done"}
<1>1. faults \in 0..MaxFaults /\ MaxFaults \in Nat
  BY PassAssumption DEF TypeOK
<1>2. /\ thread' = thread
      /\ UNCHANGED <<holds, slots, cells, delivered, fetched, failed, outcome, next, erred>>
  BY DEF Refuse, JoinFallbacks
<1>3. faults' \in 0..MaxFaults
  BY <1>1 DEF Refuse, JoinFallbacks, Fault, Works
<1>4. \/ phase = "construct" /\ phase' = "failed"
      \/ /\ phase = "fallback" /\ phase' = "values"
         /\ \A n \in Names : thread[n].at \in {"idle", "done"}
  <2>1. CASE Refuse
    BY <2>1 DEF Refuse
  <2>2. CASE JoinFallbacks
    <3>1. Queued = {} /\ \A n \in Names : ~Active(n)
      BY <2>2 DEF JoinFallbacks
    <3> QED BY <2>2, <3>1 DEF JoinFallbacks, Queued, At, Active
  <2> QED BY <2>1, <2>2
<1>5. Steered
  BY <1>2 DEF Steered, TypeOK
<1> QED BY <1>2, <1>3, <1>4, <1>5

\* Every step of the resolving thread leaves the caches alone.
LEMMA MainSteered ==
  ASSUME TypeOK, RequestInv, Main
  PROVE  Steered
  BY ConstructFacts, JoinGroupsFacts, StartWaveFacts, QuietFacts, DecideFacts DEF Main

\* A step of the resolving thread keeps the types.
LEMMA MainTypes ==
  ASSUME TypeOK, SlotInv, RequestInv, Main
  PROVE  TypeOK' /\ SlotInv'
<1>1. /\ UNCHANGED <<holds, slots, cells, delivered>> /\ thread' \in [Threads -> ThreadStates]
      /\ \A u \in Threads : thread'[u] = thread[u] \/ Fresh(u)
  BY MainSteered DEF Steered
<1>2. /\ holds' \in [Names -> SUBSET Specs] /\ slots' \in Seq(Slots) /\ cells' \in Seq(Cells)
      /\ delivered' \subseteq DOMAIN cells' /\ Len(slots') = Len(slots) /\ Len(cells') = Len(cells)
      /\ Len(slots) \in Nat /\ Len(cells) \in Nat
  <2>1. /\ holds \in [Names -> SUBSET Specs] /\ slots \in Seq(Slots) /\ cells \in Seq(Cells)
        /\ delivered \subseteq DOMAIN cells
    BY DEF TypeOK
  <2> QED BY <1>1, <2>1
<1>3. \A u \in Threads : thread'[u].slot \in 0..Len(slots') /\ thread'[u].cell \in 0..Len(cells')
  <2> SUFFICES ASSUME NEW u \in Threads
               PROVE  thread'[u].slot \in 0..Len(slots') /\ thread'[u].cell \in 0..Len(cells')
    OBVIOUS
  <2>1. thread[u].slot \in 0..Len(slots) /\ thread[u].cell \in 0..Len(cells)
    BY DEF TypeOK
  <2>2. thread'[u].slot \in {thread[u].slot, 0} /\ thread'[u].cell \in {thread[u].cell, 0}
    BY <1>1 DEF Fresh
  <2> QED BY <1>2, <2>1, <2>2
<1>4. SlotInv'
  <2> SUFFICES ASSUME NEW u \in Threads, thread'[u].at \in {"lock", "build", "unslot"}
               PROVE  thread'[u].slot \in DOMAIN slots'
    BY DEF SlotInv
  <2>1. thread'[u] = thread[u]
    BY <1>1 DEF Fresh
  <2> QED BY <1>1, <2>1 DEF SlotInv
<1>5. /\ phase' \in {"construct", "primary", "fallback", "values", "done", "failed"}
      /\ \A n \in Names : thread'[n].link \in 1..Len(Chain[n])
      /\ fetched' \in [Names -> Specs \cup {None}] /\ failed' \subseteq Groups
      /\ outcome' \in [Names -> {None, "resolved", "error", "generate", "default", "omit"}]
      /\ next' \in Names /\ erred' \in [Names -> SUBSET Nat] /\ faults' \in 0..MaxFaults
  <2>1. /\ phase \in {"construct", "primary", "fallback", "values", "done", "failed"}
        /\ \A n \in Names : thread[n].link \in 1..Len(Chain[n])
        /\ fetched \in [Names -> Specs \cup {None}] /\ failed \subseteq Groups
        /\ outcome \in [Names -> {None, "resolved", "error", "generate", "default", "omit"}]
        /\ next \in Names /\ erred \in [Names -> SUBSET Nat] /\ faults \in 0..MaxFaults
    BY DEF TypeOK
  <2>2. \A n \in Names : n \in Threads /\ n \notin Groups /\ n # Writer /\ Len(Chain[n]) \in Nat \ {0}
    BY Constants
  <2>3. CASE Construct
    <3>1. /\ phase' = "primary" /\ faults' \in 0..MaxFaults /\ UNCHANGED <<fetched, outcome, next>>
          /\ failed' \subseteq Groups
          /\ erred' = [n \in Names |-> IF Primary(n) \in failed' THEN {1} ELSE {}]
          /\ \A n \in Names : thread'[n] = thread[n]
      BY <2>2, <2>3, ConstructFacts
    <3>2. erred' \in [Names -> SUBSET Nat]
      BY <3>1
    <3> QED BY <2>1, <3>1, <3>2
  <2>4. CASE JoinGroups
    <3>1. /\ phase' = "fallback" /\ UNCHANGED <<fetched, failed, outcome, next, erred, faults>>
          /\ \A n \in Names : thread'[n] = IF n \in Pending THEN [Idle EXCEPT !.at = "queued", !.link = 2]
                                           ELSE Idle
      BY <2>2, <2>4, JoinGroupsFacts
    <3>2. \A n \in Names : thread'[n].link = 1 \/ (thread'[n].link = 2 /\ n \in Pending)
      BY <3>1, Begins
    <3>3. \A n \in Names : n \in Pending => Len(Chain[n]) > 1
      BY DEF Pending, HasFallback
    <3>4. \A n \in Names : thread'[n].link \in 1..Len(Chain[n])
      BY <2>2, <3>2, <3>3
    <3> QED BY <2>1, <3>1, <3>4
  <2>5. CASE StartWave
    <3>1. /\ UNCHANGED <<phase, fetched, failed, outcome, next, erred, faults>>
          /\ \A n \in Names : SameWalk(n)
      BY <2>5, StartWaveFacts
    <3> QED BY <2>1, <3>1 DEF SameWalk
  <2>6. CASE Refuse \/ JoinFallbacks
    BY <2>1, <2>6, QuietFacts
  <2>7. CASE Decide \/ NotWritable \/ Generated
    <3>1. /\ phase = "values" /\ faults' \in 0..MaxFaults /\ UNCHANGED <<fetched, failed, erred>>
          /\ \A n \in Names : thread'[n] = thread[n]
      BY <2>2, <2>7, DecideFacts
    <3>2. Policy[next] \in {"generate", "default", "error", "omit"}
      BY <2>1, PassAssumption
    <3>3. Aborts \/ UNCHANGED <<phase, outcome, next>>
          \/ \E o \in {"resolved", "generate", "default", "error", "omit"} : Concludes(o)
      BY <2>7, <3>2, DecideFacts
    <3>4. /\ phase' \in {"values", "done", "failed"} /\ next' \in Names
          /\ outcome' \in [Names -> {None, "resolved", "error", "generate", "default", "omit"}]
      BY <2>1, <3>1, <3>3 DEF Concludes, Aborts
    <3> QED BY <2>1, <3>1, <3>4
  <2> QED BY <2>3, <2>4, <2>5, <2>6, <2>7 DEF Main
<1> QED BY <1>1, <1>2, <1>3, <1>4, <1>5 DEF TypeOK

----------------------------------------------------------------------------
(* The cells of the authentication checks *)

\* What a step leaves of every cell: its key, its result, and its place in the
\* map when the result is good.
CellsKept ==
  /\ DOMAIN cells \subseteq DOMAIN cells'
  /\ \A i \in DOMAIN cells :
       /\ cells'[i].key = cells[i].key
       /\ cells[i].state \in {"ok", "permanent"} => cells'[i].state = cells[i].state
       /\ cells[i].live /\ cells[i].state = "ok" => cells'[i].live

\* The probes of the other threads go on.
ProbesKept(t) ==
  \A u \in Threads : u # t /\ At(u, "probe") => cells'[thread[u].cell].state = "running"

\* A step that leaves the cells alone.
LEMMA CellsSame ==
  ASSUME TypeOK, CellInv, ProbeInv, cells' = cells, delivered' = delivered, NEW t
  PROVE  CellInv' /\ CellsKept /\ ProbesKept(t)
  BY DEF CellInv, CellsKept, ProbesKept, ProbeInv, At

\* A cell is made for a key that has none in the map.
LEMMA CellMade ==
  ASSUME TypeOK, CellInv, ProbeInv, NEW k \in Keys, LiveCell(k) = {}, NEW t,
         cells' = Append(cells, [key |-> k, live |-> TRUE, state |-> "empty"]), delivered' = delivered
  PROVE  /\ CellInv' /\ CellsKept /\ ProbesKept(t)
         /\ cells'[Len(cells) + 1] = [key |-> k, live |-> TRUE, state |-> "empty"]
         /\ Len(cells) + 1 \in DOMAIN cells'
<1> DEFINE c == [key |-> k, live |-> TRUE, state |-> "empty"]
<1>1. cells \in Seq(Cells) /\ c \in Cells /\ delivered \subseteq DOMAIN cells
  BY DEF TypeOK, Cells
<1>2. c.key = k /\ c.live /\ c.state = "empty" /\ cells' = Append(cells, c)
  OBVIOUS
<1> HIDE DEF c
<1>3. /\ Len(cells) \in Nat /\ DOMAIN cells = 1..Len(cells) /\ DOMAIN cells' = 1..Len(cells) + 1
      /\ cells'[Len(cells) + 1] = c /\ \A j \in DOMAIN cells : cells'[j] = cells[j]
  BY <1>1, <1>2, Added
<1>4. \A j \in DOMAIN cells' : j \in DOMAIN cells \/ j = Len(cells) + 1
  BY <1>3
<1>5. DOMAIN cells \subseteq DOMAIN cells' /\ Len(cells) + 1 \in DOMAIN cells' /\ Len(cells) + 1 \notin DOMAIN cells
  BY <1>3
<1>6. \A j \in DOMAIN cells : ~(cells[j].live /\ cells[j].key = k)
  BY DEF LiveCell
<1>7. CellInv'
  <2>1. ASSUME NEW i \in DOMAIN cells', NEW j \in DOMAIN cells', cells'[i].live, cells'[j].live,
               cells'[i].key = cells'[j].key
        PROVE  i = j
    <3>1. CASE i \in DOMAIN cells /\ j \in DOMAIN cells
      BY <1>3, <2>1, <3>1 DEF CellInv
    <3>2. CASE i = Len(cells) + 1 /\ j = Len(cells) + 1
      BY <3>2
    <3>3. CASE i \in DOMAIN cells /\ j = Len(cells) + 1
      BY <1>2, <1>3, <1>6, <2>1, <3>3
    <3>4. CASE j \in DOMAIN cells /\ i = Len(cells) + 1
      BY <1>2, <1>3, <1>6, <2>1, <3>4
    <3> QED BY <1>4, <3>1, <3>2, <3>3, <3>4
  <2>2. \A i \in DOMAIN cells' : ~cells'[i].live => cells'[i].state = "permanent"
    BY <1>2, <1>3, <1>4 DEF CellInv
  <2>3. \A i \in delivered' : ~cells'[i].live
    BY <1>1, <1>3 DEF CellInv
  <2> QED BY <2>1, <2>2, <2>3 DEF CellInv
<1>8. CellsKept
  BY <1>3, <1>5 DEF CellsKept
<1>9. ProbesKept(t)
  <2> SUFFICES ASSUME NEW u \in Threads, At(u, "probe")
               PROVE  cells'[thread[u].cell].state = "running"
    BY DEF ProbesKept
  <2>1. thread[u].cell \in DOMAIN cells
    BY CellOf DEF At
  <2> QED BY <1>3, <2>1 DEF ProbeInv
<1> QED BY <1>3, <1>5, <1>7, <1>8, <1>9 DEF c

\* The cell of a thread's check gets its next state.
LEMMA CellMoved ==
  ASSUME TypeOK, CellInv, ProbeInv, NEW t \in Threads, NEW s \in {"running", "ok", "permanent"},
         cells' = [cells EXCEPT ![thread[t].cell].state = s], delivered' = delivered,
         \/ At(t, "wait") /\ cells[thread[t].cell].state = "empty"
         \/ At(t, "probe")
  PROVE  /\ CellInv' /\ CellsKept /\ ProbesKept(t)
         /\ cells'[thread[t].cell].state = s /\ thread[t].cell \in DOMAIN cells'
<1> DEFINE i == thread[t].cell
           c == [cells[i] EXCEPT !.state = s]
<1>1. i \in DOMAIN cells /\ cells[i] \in Cells
  BY CellOf DEF At
<1>2. c \in Cells
  BY <1>1, StateSet
<1>3. cells[i].state \notin {"ok", "permanent"}
  BY DEF ProbeInv
<1>4. cells[i].live
  BY <1>1, <1>3 DEF CellInv
<1>5. c.state = s /\ c.key = cells[i].key /\ c.live
  BY <1>1, <1>4 DEF Cells
<1>6. cells' = [cells EXCEPT ![i] = c]
  OBVIOUS
<1> HIDE DEF c
<1>7. /\ DOMAIN cells' = DOMAIN cells /\ cells'[i] = c
      /\ \A j \in DOMAIN cells : j # i => cells'[j] = cells[j]
  BY <1>1, <1>2, <1>6, CellReplaced
<1>8. \A u \in Threads : u # t /\ At(u, "probe") => thread[u].cell # i /\ thread[u].cell \in DOMAIN cells
  <2> SUFFICES ASSUME NEW u \in Threads, u # t, At(u, "probe")
               PROVE  thread[u].cell # i /\ thread[u].cell \in DOMAIN cells
    OBVIOUS
  <2>1. thread[u].cell \in DOMAIN cells /\ cells[thread[u].cell].state = "running"
    BY CellOf DEF At, ProbeInv
  <2>2. CASE At(t, "wait") /\ cells[thread[t].cell].state = "empty"
    BY <2>1, <2>2
  <2>3. CASE At(t, "probe")
    BY <2>1, <2>3 DEF ProbeInv
  <2> QED BY <2>1, <2>2, <2>3
<1> HIDE DEF i
<1>9. \A j \in DOMAIN cells : cells'[j].key = cells[j].key /\ (cells'[j].live <=> cells[j].live)
                              /\ (j # i => cells'[j].state = cells[j].state)
  BY <1>4, <1>5, <1>7
<1>10. CellInv'
  <2>1. \A j, k \in DOMAIN cells' :
          cells'[j].live /\ cells'[k].live /\ cells'[j].key = cells'[k].key => j = k
    BY <1>7, <1>9 DEF CellInv
  <2>2. \A j \in DOMAIN cells' : ~cells'[j].live => cells'[j].state = "permanent"
    BY <1>4, <1>7, <1>9 DEF CellInv
  <2>3. \A j \in delivered' : ~cells'[j].live
    BY <1>9 DEF CellInv, TypeOK
  <2> QED BY <2>1, <2>2, <2>3 DEF CellInv
<1>11. CellsKept
  BY <1>3, <1>7, <1>9 DEF CellsKept, i
<1>12. ProbesKept(t)
  <2> SUFFICES ASSUME NEW u \in Threads, u # t, At(u, "probe")
               PROVE  cells'[thread[u].cell].state = "running"
    BY DEF ProbesKept
  <2>1. cells'[thread[u].cell] = cells[thread[u].cell]
    BY <1>7, <1>8
  <2> QED BY <2>1 DEF ProbeInv
<1> QED BY <1>1, <1>5, <1>7, <1>10, <1>11, <1>12 DEF i

\* A failed cell leaves the map as its failure is returned.
LEMMA CellForgotten ==
  ASSUME TypeOK, CellInv, ProbeInv, NEW t \in Threads, At(t, "forget"),
         cells' = [cells EXCEPT ![thread[t].cell] = [cells[thread[t].cell] EXCEPT !.live = FALSE]],
         delivered' = delivered \cup {thread[t].cell}
  PROVE  CellInv' /\ CellsKept /\ ProbesKept(t)
<1> DEFINE i == thread[t].cell
           c == [cells[i] EXCEPT !.live = FALSE]
<1>1. i \in DOMAIN cells /\ cells[i] \in Cells /\ cells[i].state = "permanent"
  BY CellOf DEF At, ProbeInv
<1>2. c \in Cells
  BY <1>1, StateSet
<1>3. c.state = cells[i].state /\ c.key = cells[i].key /\ ~c.live
  BY <1>1 DEF Cells
<1>4. cells' = [cells EXCEPT ![i] = c] /\ delivered' = delivered \cup {i}
  OBVIOUS
<1> HIDE DEF c
<1>5. /\ DOMAIN cells' = DOMAIN cells /\ cells'[i] = c
      /\ \A j \in DOMAIN cells : j # i => cells'[j] = cells[j]
  BY <1>1, <1>2, <1>4, CellReplaced
<1> HIDE DEF i
<1>6. \A j \in DOMAIN cells : cells'[j].key = cells[j].key /\ cells'[j].state = cells[j].state
                              /\ (cells'[j].live => cells[j].live) /\ (j # i => cells'[j].live = cells[j].live)
  BY <1>3, <1>5
<1>7. CellInv'
  <2>1. \A j, k \in DOMAIN cells' :
          cells'[j].live /\ cells'[k].live /\ cells'[j].key = cells'[k].key => j = k
    BY <1>5, <1>6 DEF CellInv
  <2>2. \A j \in DOMAIN cells' : ~cells'[j].live => cells'[j].state = "permanent"
    <3> SUFFICES ASSUME NEW j \in DOMAIN cells, ~cells'[j].live
                 PROVE  cells'[j].state = "permanent"
      BY <1>5
    <3>1. CASE j = i
      BY <1>1, <1>6, <3>1
    <3>2. CASE j # i
      BY <1>5, <3>2 DEF CellInv
    <3> QED
      BY <3>1, <3>2
  <2>3. \A j \in delivered' : ~cells'[j].live
    BY <1>3, <1>4, <1>5, <1>6 DEF CellInv, TypeOK
  <2> QED BY <2>1, <2>2, <2>3 DEF CellInv
<1>8. CellsKept
  BY <1>1, <1>5, <1>6 DEF CellsKept
<1>9. ProbesKept(t)
  <2> SUFFICES ASSUME NEW u \in Threads, u # t, At(u, "probe")
               PROVE  cells'[thread[u].cell].state = "running"
    BY DEF ProbesKept
  <2>1. thread[u].cell \in DOMAIN cells
    BY CellOf DEF At
  <2> QED BY <1>6, <2>1 DEF ProbeInv
<1> QED BY <1>7, <1>8, <1>9

\* A step of a thread keeps the cells, their results and the other probes.
LEMMA StepCells ==
  ASSUME TypeOK, SlotInv, CellInv, ProbeInv, NEW t \in Threads, Step(t)
  PROVE  CellInv' /\ CellsKept /\ ProbesKept(t)
<1>1. CASE TakeSlot(t) \/ LockSlot(t) \/ Build(t) \/ DropSlot(t) \/ Call(t)
  BY <1>1, TakeSlotFacts, LockSlotFacts, BuildFacts, DropSlotFacts, CallFacts, CellsSame
<1>2. CASE \E v \in {"transient", "permanent"} : CallFails(t, v)
  BY <1>2, CallFailsFacts, CellsSame
<1>3. CASE Check(t)
  <2>1. Key(t) \in Keys /\ delivered' = delivered
    BY <1>3, KeyTypes, CheckFacts
  <2>2. cells' = cells \/ (LiveCell(Key(t)) = {}
          /\ cells' = Append(cells, [key |-> Key(t), live |-> TRUE, state |-> "empty"]))
    BY <1>3, CheckFacts
  <2> QED BY <2>1, <2>2, CellsSame, CellMade
<1>4. CASE Wait(t)
  <2>1. /\ delivered' = delivered /\ At(t, "wait")
        /\ \/ cells' = cells
           \/ /\ cells[thread[t].cell].state = "empty"
              /\ cells' = [cells EXCEPT ![thread[t].cell].state = "running"]
    BY <1>4, WaitFacts DEF Inner, At
  <2>2. "running" \in {"running", "ok", "permanent"}
    OBVIOUS
  <2> QED BY <2>1, <2>2, CellsSame, CellMoved
<1>5. CASE Probe(t)
  <2>1. /\ delivered' = delivered /\ At(t, "probe")
        /\ \/ cells' = cells
           \/ \E s \in {"ok", "permanent"} : cells' = [cells EXCEPT ![thread[t].cell].state = s]
    BY <1>5, ProbeFacts DEF Inner, At
  <2>2. CASE cells' = cells
    BY <2>1, <2>2, CellsSame
  <2>3. CASE \E s \in {"ok", "permanent"} : cells' = [cells EXCEPT ![thread[t].cell].state = s]
    <3>1. PICK s \in {"running", "ok", "permanent"} : cells' = [cells EXCEPT ![thread[t].cell].state = s]
      BY <2>3
    <3> QED BY <2>1, <3>1, CellMoved
  <2> QED BY <2>1, <2>2, <2>3
<1>6. CASE Forget(t)
  BY <1>6, ForgetFacts, CellForgotten DEF At
<1> QED BY <1>1, <1>2, <1>3, <1>4, <1>5, <1>6 DEF Step

\* A thread with a cell after a step is one that has just looked it up, one that
\* waited or one that probed.
LEMMA StepHolds ==
  ASSUME TypeOK, SlotInv, CellInv, ProbeInv, NEW t \in Threads, Step(t),
         thread'[t].at \in {"wait", "probe", "forget"}
  PROVE  /\ thread'[t].cell \in DOMAIN cells' /\ cells'[thread'[t].cell].key = Key(t)
         /\ Key(t)' = Key(t)
         /\ thread'[t].at = "probe" => cells'[thread'[t].cell].state = "running"
         /\ thread'[t].at = "forget" => cells'[thread'[t].cell].state = "permanent"
         /\ thread'[t].at = "probe" => /\ thread'[t].cell = thread[t].cell
                                       /\ \/ At(t, "wait") /\ cells[thread[t].cell].state = "empty"
                                          \/ At(t, "probe")
<1>1. Check(t) \/ Wait(t) \/ Probe(t)
  <2>1. ~(Failed(t) \/ Replied(t) \/ Retried(t))
    <3>1. ~(Stopped(t) \/ Advanced(t) \/ Retried(t))
      BY DEF Stopped, Advanced, Retried, Inner
    <3> QED BY <3>1, EndsPlace
  <2>2. ~(DropSlot(t) \/ Forget(t) \/ Call(t) \/ \E v \in {"transient", "permanent"} : CallFails(t, v))
    BY <2>1, DropSlotFacts, ForgetFacts, CallFacts, CallFailsFacts
  <2>3. ~(TakeSlot(t) \/ LockSlot(t) \/ Build(t))
    BY TakeSlotFacts, LockSlotFacts, BuildFacts DEF Inner
  <2> QED BY <2>2, <2>3 DEF Step
<1>2. Key(t)' = Key(t)
  <2>1. next' = next /\ thread'[t].slot = thread[t].slot /\ thread'[t].link = thread[t].link
    BY <1>1, CheckFacts, WaitFacts, ProbeFacts DEF Inner, SameWalk, SamePlace
  <2> QED BY <2>1, KeyStays
<1>3. CellsKept
  BY StepCells
<1>4. CASE Check(t)
  <2>1. thread'[t].at = "wait"
    BY <1>4, CheckFacts DEF Inner
  <2>2. CASE cells' = cells /\ thread'[t].cell \in LiveCell(Key(t))
    BY <1>2, <2>1, <2>2 DEF LiveCell
  <2>3. CASE /\ LiveCell(Key(t)) = {} /\ thread'[t].cell = Len(cells) + 1
             /\ cells' = Append(cells, [key |-> Key(t), live |-> TRUE, state |-> "empty"])
    <3>1. Key(t) \in Keys /\ delivered' = delivered
      BY <1>4, KeyTypes, CheckFacts
    <3>2. /\ cells'[thread'[t].cell] = [key |-> Key(t), live |-> TRUE, state |-> "empty"]
          /\ thread'[t].cell \in DOMAIN cells'
      BY <2>3, <3>1, CellMade
    <3>3. cells'[thread'[t].cell].key = Key(t)
      BY <3>2
    <3> QED BY <1>2, <2>1, <3>2, <3>3
  <2>4. thread'[t].at # "call"
    BY <2>1
  <2> QED BY <1>4, <2>2, <2>3, <2>4, CheckFacts DEF Inner
<1>5. CASE Wait(t)
  <2>1. At(t, "wait") /\ thread'[t].cell = thread[t].cell
    BY <1>5, WaitFacts DEF Inner, SamePlace, At
  <2>2. thread[t].cell \in DOMAIN cells /\ cells[thread[t].cell].key = Key(t)
    BY <2>1, CellOf DEF At
  <2>3. thread'[t].cell \in DOMAIN cells' /\ cells'[thread'[t].cell].key = Key(t)
    BY <1>3, <2>1, <2>2 DEF CellsKept
  <2>4. CASE /\ thread'[t].at = "probe" /\ cells[thread[t].cell].state = "empty"
             /\ cells' = [cells EXCEPT ![thread[t].cell].state = "running"]
    <3>1. delivered' = delivered /\ "running" \in {"running", "ok", "permanent"}
      BY <1>5, WaitFacts
    <3>2. cells'[thread[t].cell].state = "running"
      BY <2>1, <2>4, <3>1, CellMoved
    <3> QED BY <1>2, <2>1, <2>3, <2>4, <3>2
  <2>5. CASE thread'[t].at = "forget" /\ cells[thread[t].cell].state = "permanent" /\ cells' = cells
    BY <1>2, <2>1, <2>3, <2>5
  <2> QED BY <1>5, <2>4, <2>5, WaitFacts DEF Inner
<1>6. CASE Probe(t)
  <2>1. At(t, "probe") /\ thread'[t].cell = thread[t].cell
    BY <1>6, ProbeFacts DEF Inner, SamePlace, At
  <2>2. thread[t].cell \in DOMAIN cells /\ cells[thread[t].cell].key = Key(t)
        /\ cells[thread[t].cell].state = "running"
    BY <2>1, CellOf DEF At, ProbeInv
  <2>3. thread'[t].cell \in DOMAIN cells' /\ cells'[thread'[t].cell].key = Key(t)
    BY <1>3, <2>1, <2>2 DEF CellsKept
  <2>4. thread'[t].at = "wait" \/ (thread'[t].at = "probe" /\ cells' = cells)
    BY <1>6, ProbeFacts DEF Inner
  <2> QED BY <1>2, <2>1, <2>2, <2>3, <2>4
<1> QED BY <1>1, <1>4, <1>5, <1>6

\* A step of a thread moves no other.
LEMMA StepAlone ==
  ASSUME TypeOK, SlotInv, ProbeInv, NEW t \in Threads, Step(t)
  PROVE  /\ Moves(t) /\ UNCHANGED <<phase, holds, outcome, next>>
         /\ \A u \in Threads : u # t => thread'[u] = thread[u] /\ Key(u)' = Key(u)
<1>1. Moves(t) /\ UNCHANGED <<phase, holds, outcome, next>>
  BY StepKinds, EndsPlace DEF Kinds, Inner
<1>2. \A u \in Threads : u # t => thread'[u] = thread[u]
  BY <1>1 DEF Moves
<1>3. \A u \in Threads : u # t => Key(u)' = Key(u)
  BY <1>1, <1>2, KeyStays
<1> QED BY <1>1, <1>2, <1>3

\* A step of a thread keeps every thread at its cell, and every prober alone.
LEMMA StepProbes ==
  ASSUME TypeOK, SlotInv, CellInv, ProbeInv, NEW t \in Threads, Step(t)
  PROVE  ProbeInv'
<1>1. CellsKept /\ ProbesKept(t)
  BY StepCells
<1>2. \A u \in Threads : u # t => thread'[u] = thread[u] /\ Key(u)' = Key(u)
  BY StepAlone
<1>3. \A i \in DOMAIN cells' : i # 0
  <2>1. cells' \in Seq(Cells)
    BY StepPlaced DEF Placed
  <2> QED BY <2>1
<1>4. ASSUME NEW u \in Threads, thread'[u].at \in {"wait", "probe", "forget"}
      PROVE  /\ thread'[u].cell # 0 /\ cells'[thread'[u].cell].key = Key(u)'
             /\ thread'[u].at = "probe" => cells'[thread'[u].cell].state = "running"
             /\ thread'[u].at = "forget" => cells'[thread'[u].cell].state = "permanent"
  <2>1. CASE u = t
    BY <1>3, <1>4, <2>1, StepHolds
  <2>2. CASE u # t
    <3>1. thread'[u] = thread[u] /\ Key(u)' = Key(u)
      BY <1>2, <2>2
    <3>2. thread[u].cell \in DOMAIN cells /\ cells[thread[u].cell].key = Key(u)
      BY <1>4, <3>1, CellOf
    <3>3. cells'[thread[u].cell].key = cells[thread[u].cell].key /\ thread[u].cell \in DOMAIN cells'
      BY <1>1, <3>2 DEF CellsKept
    <3>4. thread[u].at = "probe" => cells'[thread[u].cell].state = "running"
      BY <1>1, <2>2 DEF ProbesKept, At
    <3>5. thread[u].at = "forget" => cells'[thread[u].cell].state = "permanent"
      BY <1>1, <3>2 DEF CellsKept, ProbeInv, At
    <3> QED BY <1>3, <3>1, <3>2, <3>3, <3>4, <3>5
  <2> QED BY <2>1, <2>2
<1>5. ASSUME NEW u \in Threads, thread'[t].at = "probe", thread'[u].at = "probe",
             thread'[u].cell = thread'[t].cell
      PROVE  u = t
  <2> SUFFICES ASSUME u # t PROVE FALSE
    OBVIOUS
  <2>1. thread'[u] = thread[u]
    BY <1>2
  <2>2. /\ thread'[t].cell = thread[t].cell
        /\ (At(t, "wait") /\ cells[thread[t].cell].state = "empty") \/ At(t, "probe")
    BY <1>5, StepHolds
  <2>3. At(u, "probe") /\ thread[u].cell = thread[t].cell
    BY <1>5, <2>1, <2>2 DEF At
  <2>4. cells[thread[t].cell].state = "running"
    BY <2>3 DEF ProbeInv
  <2> QED BY <2>2, <2>3, <2>4 DEF ProbeInv
<1>6. ASSUME NEW u \in Threads, NEW v \in Threads, thread'[u].at = "probe", thread'[v].at = "probe",
             thread'[u].cell = thread'[v].cell
      PROVE  u = v
  <2>1. CASE u = t \/ v = t
    BY <1>5, <1>6, <2>1
  <2>2. CASE u # t /\ v # t
    BY <1>2, <1>6, <2>2 DEF ProbeInv, At
  <2> QED BY <2>1, <2>2
<1> QED BY <1>4, <1>6 DEF ProbeInv, At

----------------------------------------------------------------------------
(* The requests and the probes of a thread *)

\* A scope found healthy stays so: a good cell is never removed.
LEMMA StaysSettled ==
  ASSUME CellsKept, NEW u, Key(u)' = Key(u), Settled(u)
  PROVE  Settled(u)'
<1>1. PICK i \in DOMAIN cells : cells[i].live /\ cells[i].key = Key(u) /\ cells[i].state = "ok"
  BY DEF Settled
<1>2. i \in DOMAIN cells' /\ cells'[i].live /\ cells'[i].key = Key(u)' /\ cells'[i].state = "ok"
  BY <1>1 DEF CellsKept
<1> QED BY <1>2 DEF Settled

\* A thread that ends a link has counted its requests.
LEMMA EndCounts ==
  ASSUME TypeOK, NEW t \in Threads, RequestOk(t), Stopped(t) \/ Advanced(t)
  PROVE  RequestOk(t)' /\ thread'[t].attempt \in {1, thread[t].attempt}
<1>1. MaxAttempts \in Nat
  BY Constants
<1>2. CASE Stopped(t)
  BY <1>2 DEF Stopped, SameCounts, RequestOk, At
<1>3. CASE Advanced(t)
  BY <1>1, <1>3 DEF Advanced, RequestOk, At
<1> QED BY <1>2, <1>3

\* The counts of the thread that takes a step.
LEMMA StepCounts ==
  ASSUME TypeOK, SlotInv, CellInv, ProbeInv, NEW t \in Threads, RequestOk(t), Step(t)
  PROVE  /\ RequestOk(t)'
         /\ thread'[t].attempt \in {1, thread[t].attempt} \/ Retries(t)
<1>1. /\ thread[t].sent \in Nat /\ thread[t].attempt \in Nat /\ thread[t].probes \in Nat
      /\ thread[t].tries \in 1..MaxAttempts /\ MaxAttempts \in Nat
  BY KeyTypes, Constants DEF ThreadStates
<1>2. CellsKept
  BY StepCells
<1>3. ASSUME UNCHANGED next, thread'[t].slot = thread[t].slot, thread'[t].link = thread[t].link
      PROVE  Key(t)' = Key(t) /\ (Settled(t) => Settled(t)')
  <2>1. Key(t)' = Key(t)
    BY <1>3, KeyStays
  <2> QED BY <1>2, <2>1, StaysSettled
<1>4. CASE TakeSlot(t) \/ LockSlot(t) \/ Build(t)
  <2>1. /\ thread[t].at \in {"slot", "lock", "build"} /\ SameCounts(t)
        /\ thread'[t].at \in {"lock", "build", "unslot", "check"}
    BY <1>4, TakeSlotFacts, LockSlotFacts, BuildFacts DEF Inner
  <2>2. thread[t].attempt = 1 /\ thread[t].probes = 0 /\ thread[t].sent < 1
    BY <2>1 DEF RequestOk
  <2> QED BY <1>1, <2>1, <2>2 DEF RequestOk, SameCounts, At
<1>5. CASE DropSlot(t) \/ Forget(t) \/ Call(t)
  BY <1>5, DropSlotFacts, ForgetFacts, CallFacts, EndsPlace, EndCounts
<1>6. CASE Check(t)
  <2>1. /\ thread[t].at = "check" /\ UNCHANGED next /\ thread'[t].slot = thread[t].slot
        /\ thread'[t].link = thread[t].link /\ thread'[t].attempt = thread[t].attempt
        /\ thread'[t].probes = thread[t].probes
    BY <1>6, CheckFacts DEF Inner, SameWalk, SameCounts
  <2>2. /\ thread[t].sent < thread[t].attempt /\ thread[t].probes <= MaxAttempts
        /\ thread[t].probes = 0 \/ Settled(t)
    BY <2>1 DEF RequestOk
  <2>3. CASE thread'[t].at = "call" /\ thread'[t].sent = thread[t].sent + 1
    <3>1. Settled(t) => Settled(t)'
      BY <1>3, <2>1
    <3> QED BY <1>1, <2>1, <2>2, <2>3, <3>1 DEF RequestOk, At
  <2>4. CASE thread'[t].at = "wait" /\ cells' = cells /\ thread'[t].cell \in LiveCell(Key(t)) /\ SameCounts(t)
    <3>1. Settled(t) => cells'[thread'[t].cell].state = "ok"
      BY <2>4 DEF Settled, LiveCell, CellInv
    <3> QED BY <1>1, <2>1, <2>2, <2>4, <3>1 DEF RequestOk, At, SameCounts
  <2>5. CASE thread'[t].at = "wait" /\ LiveCell(Key(t)) = {} /\ SameCounts(t)
    <3>1. ~Settled(t)
      BY <2>5 DEF Settled, LiveCell
    <3> QED BY <1>1, <2>1, <2>2, <2>5, <3>1 DEF RequestOk, At, SameCounts
  <2> QED BY <1>6, <2>3, <2>4, <2>5, CheckFacts DEF Inner
<1>7. CASE Wait(t)
  <2>1. /\ thread[t].at = "wait" /\ UNCHANGED next /\ thread'[t].slot = thread[t].slot
        /\ thread'[t].link = thread[t].link /\ thread'[t].attempt = thread[t].attempt
        /\ thread'[t].probes = thread[t].probes /\ thread'[t].cell = thread[t].cell
    BY <1>7, WaitFacts DEF Inner, SameWalk, SamePlace
  <2>2. /\ thread[t].sent < thread[t].attempt /\ thread[t].probes <= MaxAttempts
        /\ thread[t].probes = 0 \/ cells[thread[t].cell].state \in {"ok", "permanent"}
    BY <2>1 DEF RequestOk, At
  <2>3. thread[t].cell \in DOMAIN cells /\ cells[thread[t].cell].key = Key(t)
    BY <2>1, CellOf
  <2>4. CASE /\ thread'[t].at = "probe" /\ thread'[t].tries = 1 /\ thread'[t].sent = thread[t].sent
             /\ cells[thread[t].cell].state = "empty"
    BY <1>1, <2>1, <2>2, <2>4 DEF RequestOk, At
  <2>5. CASE /\ thread'[t].at = "call" /\ thread'[t].sent = thread[t].sent + 1
             /\ cells[thread[t].cell].state = "ok"
    <3>1. cells[thread[t].cell].live
      BY <2>3, <2>5 DEF CellInv
    <3>2. Settled(t)
      BY <2>3, <2>5, <3>1 DEF Settled
    <3>3. Settled(t)'
      BY <1>3, <2>1, <3>2
    <3> QED BY <1>1, <2>1, <2>2, <2>5, <3>3 DEF RequestOk, At
  <2>6. CASE thread'[t].at = "forget" /\ thread'[t].sent = thread[t].sent
    BY <1>1, <2>1, <2>2, <2>6 DEF RequestOk, At
  <2> QED BY <1>7, <2>4, <2>5, <2>6, WaitFacts DEF Inner
<1>8. CASE Probe(t)
  <2>1. /\ thread[t].at = "probe" /\ thread'[t].attempt = thread[t].attempt
        /\ thread'[t].sent = thread[t].sent /\ thread'[t].probes = thread[t].probes + 1
        /\ thread'[t].cell = thread[t].cell
    BY <1>8, ProbeFacts DEF Inner, SamePlace
  <2>2. thread[t].sent < thread[t].attempt /\ thread[t].probes = thread[t].tries - 1
    BY <2>1 DEF RequestOk, At
  <2>3. thread'[t].probes = thread[t].tries /\ thread'[t].probes <= MaxAttempts
    BY <1>1, <2>1, <2>2
  <2>4. CASE thread'[t].at = "wait"
    <3>1. PICK s \in {"ok", "permanent"} : cells' = [cells EXCEPT ![thread[t].cell].state = s]
      BY <1>8, <2>4, ProbeFacts DEF Inner
    <3>2. delivered' = delivered /\ At(t, "probe") /\ s \in {"running", "ok", "permanent"}
      BY <1>8, <2>1, ProbeFacts DEF At
    <3>3. cells'[thread[t].cell].state \in {"ok", "permanent"}
      BY <3>1, <3>2, CellMoved
    <3> QED BY <1>1, <2>1, <2>2, <2>3, <2>4, <3>3 DEF RequestOk, At
  <2>5. CASE thread'[t].at = "probe"
    <3>1. thread'[t].tries = thread[t].tries + 1
      BY <1>8, <2>5, ProbeFacts DEF Inner
    <3> QED BY <1>1, <2>1, <2>2, <2>3, <2>5, <3>1 DEF RequestOk, At
  <2> QED BY <1>8, <2>4, <2>5, ProbeFacts DEF Inner
<1>9. CASE \E v \in {"transient", "permanent"} : CallFails(t, v)
  <2>1. (Failed(t) \/ Retried(t)) /\ thread[t].at = "call"
    BY <1>9, CallFailsFacts
  <2>2. CASE Failed(t)
    BY <2>2, EndsPlace, EndCounts
  <2>3. CASE Retried(t)
    <3>1. /\ thread'[t].at = "check" /\ UNCHANGED next /\ thread'[t].slot = thread[t].slot
          /\ thread'[t].link = thread[t].link /\ thread'[t].attempt = thread[t].attempt + 1
          /\ thread'[t].probes = thread[t].probes /\ thread'[t].sent = thread[t].sent /\ Retries(t)
      BY <2>3 DEF Retried, Inner, SameWalk, SamePlace
    <3>2. /\ thread[t].sent <= thread[t].attempt /\ thread[t].probes <= MaxAttempts
          /\ thread[t].probes = 0 \/ Settled(t)
      BY <2>1 DEF RequestOk
    <3>3. Settled(t) => Settled(t)'
      BY <1>3, <3>1
    <3> QED BY <1>1, <3>1, <3>2, <3>3 DEF RequestOk, At
  <2> QED BY <2>1, <2>2, <2>3
<1> QED BY <1>4, <1>5, <1>6, <1>7, <1>8, <1>9 DEF Step

\* A step of a thread keeps the counts of every thread.
LEMMA StepRequests ==
  ASSUME TypeOK, SlotInv, CellInv, ProbeInv, RequestInv, NEW t \in Threads, Step(t)
  PROVE  RequestInv'
<1>1. RequestOk(t)' /\ (thread'[t].attempt \in {1, thread[t].attempt} \/ Retries(t))
  <2>1. RequestOk(t)
    BY DEF RequestInv
  <2> QED BY <2>1, StepCounts
<1>2. CellsKept /\ next' = next /\ \A u \in Threads : u # t => thread'[u] = thread[u] /\ Key(u)' = Key(u)
  BY StepCells, StepAlone
<1>3. ASSUME NEW u \in Threads, u # t
      PROVE  RequestOk(u)'
  <2>1. RequestOk(u) /\ thread'[u] = thread[u] /\ Key(u)' = Key(u)
    BY <1>2, <1>3 DEF RequestInv
  <2>2. Settled(u) => Settled(u)'
    BY <1>2, <2>1, StaysSettled
  <2>3. /\ thread[u].at = "wait" /\ cells[thread[u].cell].state \in {"ok", "permanent"}
        => cells'[thread[u].cell].state \in {"ok", "permanent"}
    BY <1>2, CellOf DEF CellsKept
  <2> QED BY <2>1, <2>2, <2>3 DEF RequestOk, At
<1>4. Primary(next') \notin RetrySafe => thread'[Writer].attempt = 1
  <2> SUFFICES ASSUME Primary(next) \notin RetrySafe PROVE thread'[Writer].attempt = 1
    BY <1>2
  <2>1. thread[Writer].attempt = 1 /\ Writer \in Threads
    BY Constants DEF RequestInv
  <2>2. CASE t # Writer
    BY <1>2, <2>1, <2>2
  <2>3. CASE t = Writer
    <3>1. ~Retries(t)
      BY <2>3, Constants DEF Retries, SpecOf
    <3> QED BY <1>1, <2>1, <2>3, <3>1
  <2> QED BY <2>2, <2>3
<1> QED BY <1>1, <1>3, <1>4 DEF RequestInv, Primary

\* A step of the resolving thread disturbs no cell, no probe and no count.
LEMMA MainRequests ==
  ASSUME TypeOK, SlotInv, CellInv, ProbeInv, RequestInv, Main
  PROVE  CellInv' /\ ProbeInv' /\ RequestInv'
<1>1. /\ cells' = cells /\ delivered' = delivered
      /\ \A u \in Threads : thread'[u] = thread[u] \/ Fresh(u)
      /\ next' = next \/ thread'[Writer].at = "idle"
  BY MainSteered DEF Steered
<1>2. CellInv' /\ CellsKept
  BY <1>1, CellsSame
<1>3. ASSUME NEW u \in Threads, thread'[u] = thread[u], thread[u].at # "idle"
      PROVE  Key(u)' = Key(u)
  BY <1>1, <1>3, KeyStays
<1>4. ProbeInv'
  <2>1. \A u \in Threads : thread'[u].at \in {"wait", "probe", "forget"}
          => thread'[u] = thread[u] /\ Key(u)' = Key(u)
    BY <1>1, <1>3 DEF Fresh
  <2>2. \A u \in Threads : thread'[u].at \in {"wait", "probe", "forget"}
          => thread'[u].cell # 0 /\ cells'[thread'[u].cell].key = Key(u)'
    BY <1>1, <2>1 DEF ProbeInv
  <2>3. /\ \A u \in Threads : thread'[u].at = "probe" => cells'[thread'[u].cell].state = "running"
        /\ \A u \in Threads : thread'[u].at = "forget" => cells'[thread'[u].cell].state = "permanent"
    BY <1>1, <2>1 DEF ProbeInv, At
  <2>4. \A u, v \in Threads : thread'[u].at = "probe" /\ thread'[v].at = "probe"
          /\ thread'[u].cell = thread'[v].cell => u = v
    BY <2>1 DEF ProbeInv, At
  <2> QED BY <2>2, <2>3, <2>4 DEF ProbeInv, At
<1>5. ASSUME NEW u \in Threads
      PROVE  RequestOk(u)'
  <2>1. RequestOk(u) /\ MaxAttempts \in Nat
    BY Constants DEF RequestInv
  <2>2. CASE Fresh(u)
    BY <2>1, <2>2 DEF Fresh, RequestOk, At
  <2>3. CASE thread'[u] = thread[u]
    <3>1. thread[u].at # "idle" => (Settled(u) => Settled(u)')
      BY <1>2, <1>3, <2>3, StaysSettled
    <3> QED BY <1>1, <2>1, <2>3, <3>1 DEF RequestOk, At
  <2> QED BY <1>1, <2>2, <2>3
<1>6. Primary(next') \notin RetrySafe => thread'[Writer].attempt = 1
  <2>1. Writer \in Threads /\ RequestOk(Writer)'
    BY <1>5, Constants
  <2>2. CASE thread'[Writer].at = "idle"
    BY <2>1, <2>2 DEF RequestOk
  <2>3. CASE Fresh(Writer)
    BY <2>3 DEF Fresh
  <2>4. CASE next' = next /\ thread'[Writer] = thread[Writer]
    BY <2>4 DEF RequestInv
  <2> QED BY <1>1, <2>1, <2>2, <2>3, <2>4
<1> QED BY <1>2, <1>4, <1>5, <1>6 DEF RequestInv, Primary

----------------------------------------------------------------------------
(* The phases *)

\* The phase in which a thread can take a step.
LEMMA PhaseOf ==
  ASSUME PhaseInv, NEW t \in Threads, thread[t].at \in Inside
  PROVE  /\ t \in Groups => phase = "primary"
         /\ t \in Names => phase = "fallback"
         /\ t = Writer => phase = "values"
  BY DEF PhaseInv, Inside, Active, At

\* A thread that takes a step has begun, and never begins again.
LEMMA Begun ==
  ASSUME NEW t \in Threads, Kinds(t)
  PROVE  thread[t].at \in Inside /\ thread'[t].at \in Inside \cup {"done"}
  BY EndsPlace DEF Kinds, Inner, Stopped, Advanced, Inside

\* A step of a thread keeps it in its phase.
LEMMA StepPhases ==
  ASSUME TypeOK, PhaseInv, NEW t \in Threads, Kinds(t), Moves(t),
         UNCHANGED <<phase, holds, outcome, next>>
  PROVE  PhaseInv'
<1>1. /\ t \in Groups => phase = "primary"
      /\ t \in Names => phase = "fallback"
      /\ t = Writer => phase = "values"
  BY Begun, PhaseOf
<1>2. \A u \in Threads : u # t => thread'[u] = thread[u]
  BY DEF Moves
<1>3. Groups \subseteq Threads /\ Names \subseteq Threads /\ Writer \in Threads
  BY Constants
<1>4. phase # "construct"
  BY <1>1 DEF Threads
<1>5. phase # "primary" => \A u \in Groups : ~Active(u)'
  BY <1>1, <1>2, <1>3 DEF PhaseInv, Active
<1>6. phase # "fallback" => \A n \in Names : thread'[n].at \in {"idle", "done"}
  BY <1>1, <1>2, <1>3 DEF PhaseInv
<1>7. phase \in {"construct", "primary"} => \A n \in Names : thread'[n] = Idle
  BY <1>1, <1>2, <1>3 DEF PhaseInv
<1>8. phase # "values" => thread'[Writer].at = "idle"
  BY <1>1, <1>2, <1>3 DEF PhaseInv, At
<1>9. phase \notin {"values", "done", "failed"} => \A n \in Names : outcome'[n] = None
  BY DEF PhaseInv
<1> QED BY <1>4, <1>5, <1>6, <1>7, <1>8, <1>9 DEF PhaseInv, Idle, At

\* A step of the resolving thread begins a phase when the threads of the one
\* before have been joined.
LEMMA MainPhases ==
  ASSUME TypeOK, RequestInv, PhaseInv, Main
  PROVE  PhaseInv'
<1>1. /\ Groups \subseteq Threads /\ Names \subseteq Threads /\ Writer \in Threads
      /\ \A n \in Names : n \notin Groups /\ n # Writer
      /\ Writer \notin Groups
  BY Constants
<1>2. CASE Construct
  <2>1. /\ phase = "construct" /\ phase' = "primary" /\ UNCHANGED outcome
        /\ \A t \in Threads : thread'[t] = IF t \in Groups \ failed' THEN [Idle EXCEPT !.at = "check"]
                                           ELSE thread[t]
    BY <1>2, ConstructFacts
  <2>2. \A n \in Names : thread'[n] = Idle
    BY <1>1, <2>1 DEF PhaseInv
  <2>3. thread'[Writer].at = "idle"
    BY <1>1, <2>1 DEF PhaseInv, At
  <2>4. \A n \in Names : outcome'[n] = None /\ thread'[n].at = "idle"
    BY <2>1, <2>2, Begins DEF PhaseInv
  <2> QED BY <2>1, <2>2, <2>3, <2>4 DEF PhaseInv, At
<1>3. CASE JoinGroups
  <2>1. /\ phase = "primary" /\ phase' = "fallback" /\ UNCHANGED outcome
        /\ \A t \in Threads : thread'[t] = IF t \in Pending THEN [Idle EXCEPT !.at = "queued", !.link = 2]
                                           ELSE Idle
    BY <1>3, JoinGroupsFacts
  <2>2. \A t \in Threads : t \notin Names => thread'[t].at = "idle"
    BY <2>1, Begins DEF Pending
  <2>3. \A t \in Groups : ~Active(t)'
    BY <1>1, <2>2 DEF Active
  <2>4. thread'[Writer].at = "idle"
    BY <1>1, <2>2
  <2> QED BY <2>1, <2>3, <2>4 DEF PhaseInv, At
<1>4. CASE StartWave
  <2>1. /\ phase = "fallback" /\ UNCHANGED <<phase, outcome>>
        /\ \A t \in Threads \ Names : thread'[t] = thread[t]
    BY <1>4, StartWaveFacts
  <2> QED BY <1>1, <2>1 DEF PhaseInv, At, Active
<1>5. CASE Refuse \/ JoinFallbacks
  <2>1. /\ thread' = thread /\ UNCHANGED outcome
        /\ \/ phase = "construct" /\ phase' = "failed"
           \/ /\ phase = "fallback" /\ phase' = "values"
              /\ \A n \in Names : thread[n].at \in {"idle", "done"}
    BY <1>5, QuietFacts
  <2> QED BY <2>1 DEF PhaseInv, At, Active
<1>6. CASE Decide \/ NotWritable \/ Generated
  <2>1. /\ phase = "values" /\ \A t \in Threads : t # Writer => thread'[t] = thread[t]
        /\ phase' \in {"values", "done", "failed"}
        /\ phase' # "values" => thread'[Writer].at = "idle"
    BY <1>6, DecideFacts DEF Concludes, Aborts
  <2>2. \A n \in Names : thread'[n].at \in {"idle", "done"}
    BY <1>1, <2>1 DEF PhaseInv
  <2>3. \A t \in Groups : ~Active(t)'
    BY <1>1, <2>1 DEF PhaseInv, Active
  <2> QED BY <2>1, <2>2, <2>3 DEF PhaseInv, At
<1> QED BY <1>2, <1>3, <1>4, <1>5, <1>6 DEF Main

----------------------------------------------------------------------------
(* What the groups have found *)

\* A step of a thread records what its group found, or that it failed.
LEMMA StepGroups ==
  ASSUME TypeOK, PhaseInv, GroupInv, WalkInv, NEW t \in Threads, Kinds(t), Moves(t),
         UNCHANGED <<phase, holds, outcome, next>>
  PROVE  GroupInv'
<1>1. /\ t \in Groups => phase = "primary"
      /\ t \in Names => phase = "fallback"
      /\ t = Writer => phase = "values"
  BY Begun, PhaseOf
<1>2. \A n \in Names : Primary(n) \in Groups /\ Primary(n) \in Threads /\ Primary(n) # None
                       /\ n \in Threads /\ n \notin Groups /\ n # Writer
  BY Constants
<1>3. \A n \in Names : Walked(n)' <=> Walked(n)
  BY DEF Walked
<1>4. CASE t \in Groups
  <2>1. phase = "primary" /\ Active(t) /\ t # Writer /\ t \notin Names
    BY <1>1, <1>4, Begun, Constants DEF Active, Inside
  <2>2. \A n \in Names : ~Walked(n)
    BY <2>1 DEF Walked
  <2>3. /\ fetched \in [Names -> Specs \cup {None}] /\ erred \in [Names -> SUBSET Nat]
    BY DEF TypeOK
  <2> SUFFICES ASSUME NEW n \in Names
               PROVE  /\ ~Active(Primary(n))' =>
                           /\ fetched'[n] = IF 1 \notin erred'[n] /\ Primary(n) \in holds[n]
                                            THEN Primary(n) ELSE None
                           /\ 1 \in erred'[n] <=> Primary(n) \in failed'
                      /\ Active(Primary(n))' =>
                           fetched'[n] = None /\ erred'[n] = {} /\ Primary(n) \notin failed'
                      /\ erred'[n] \subseteq {1}
    BY <1>3, <2>1, <2>2 DEF GroupInv, Answered, Primary
  <2>4. n \in Serves(t) <=> Primary(n) = t
    BY <1>4 DEF Serves
  <2>5. LinkOf(t) = 1
    BY <2>1 DEF LinkOf
  <2>6. CASE Primary(n) # t
    <3>1. thread'[Primary(n)] = thread[Primary(n)]
      BY <1>2, <2>6 DEF Moves
    <3>2. /\ fetched'[n] = fetched[n] /\ erred'[n] = erred[n]
          /\ Primary(n) \in failed' <=> Primary(n) \in failed
      <4>1. CASE \E to \in Inside : Inner(t, thread[t].at, to)
        BY <4>1 DEF Inner
      <4>2. CASE Failed(t)
        BY <1>4, <2>1, <2>3, <2>4, <2>6, <4>2 DEF Failed
      <4>3. CASE Replied(t)
        BY <1>4, <2>1, <2>3, <2>6, <4>3 DEF Replied
      <4> QED BY <4>1, <4>2, <4>3 DEF Kinds
    <3>3. Active(Primary(n))' <=> Active(Primary(n))
      BY <3>1 DEF Active, Primary
    <3> QED BY <2>1, <3>2, <3>3 DEF GroupInv, Answered
  <2>7. CASE Primary(n) = t
    <3>1. fetched[n] = None /\ erred[n] = {} /\ t \notin failed
      BY <2>1, <2>7 DEF GroupInv
    <3>2. CASE \E to \in Inside : Inner(t, thread[t].at, to)
      <4>1. fetched' = fetched /\ erred' = erred /\ failed' = failed /\ Active(t)'
        BY <3>2 DEF Inner, Active, Inside
      <4>2. Active(Primary(n))'
        BY <2>7, <4>1 DEF Primary
      <4> QED BY <2>7, <3>1, <4>1, <4>2
    <3>3. CASE Failed(t)
      <4>1. /\ thread'[t].at = "done" /\ fetched' = fetched /\ failed' = failed \cup {t}
            /\ erred'[n] = erred[n] \cup {1}
        BY <1>4, <2>1, <2>3, <2>4, <2>5, <2>7, <3>3 DEF Failed, Stopped
      <4>2. ~Active(Primary(n))'
        BY <2>7, <4>1 DEF Active, Primary
      <4> QED BY <2>7, <3>1, <4>1, <4>2
    <3>4. CASE Replied(t)
      <4>1. /\ thread'[t].at = "done" /\ erred' = erred /\ failed' = failed
            /\ fetched'[n] = IF t \in holds[n] THEN t ELSE fetched[n]
        BY <1>4, <2>1, <2>3, <2>7, <3>4 DEF Replied, Stopped
      <4>2. ~Active(Primary(n))'
        BY <2>7, <4>1 DEF Active, Primary
      <4> QED BY <2>7, <3>1, <4>1, <4>2
    <3> QED BY <3>2, <3>3, <3>4 DEF Kinds
  <2> QED BY <2>6, <2>7
<1>5. CASE t \notin Groups
  <2>1. fetched' = fetched /\ failed' = failed /\ phase # "primary"
    BY <1>1, <1>5 DEF Kinds, Inner, Failed, Replied, Threads
  <2>2. \A n \in Names : 1 \in erred'[n] <=> 1 \in erred[n]
    <3> SUFFICES ASSUME NEW n \in Names PROVE 1 \in erred'[n] <=> 1 \in erred[n]
      OBVIOUS
    <3>1. CASE erred' = erred
      BY <3>1
    <3>2. CASE Failed(t)
      <4>1. erred'[n] = IF n \in Serves(t) /\ t # Writer THEN erred[n] \cup {LinkOf(t)} ELSE erred[n]
        BY <3>2 DEF Failed
      <4>2. n \in Serves(t) /\ t # Writer => n = t
        BY <1>5 DEF Serves
      <4>3. n = t => LinkOf(t) # 1
        <5> SUFFICES ASSUME n = t PROVE thread[t].link # 1
          BY DEF LinkOf
        <5>1. Walked(t) /\ thread[t].at \in Inside
          BY <1>1, Begun DEF Walked
        <5>2. thread[t] # Idle
          BY <5>1, Begins DEF Inside
        <5>3. thread[t].link > 1 /\ thread[t].link \in Nat
          BY <5>1, <5>2, KeyTypes DEF WalkInv, ThreadStates
        <5> QED BY <5>3
      <4> QED BY <4>1, <4>2, <4>3
    <3> QED BY <3>1, <3>2 DEF Kinds, Inner, Replied
  <2> QED BY <1>3, <2>1, <2>2 DEF GroupInv, Answered, Primary
<1> QED BY <1>4, <1>5

\* A step of the resolving thread changes nothing that is known of a group.
LEMMA MainGroups ==
  ASSUME TypeOK, RequestInv, PhaseInv, GroupInv, Main
  PROVE  GroupInv'
<1>1. \A n \in Names : Primary(n) \in Groups /\ Primary(n) \in Threads
  BY Constants
<1>2. holds' = holds
  BY MainSteered DEF Steered
<1>3. CASE Construct
  <2>1. /\ phase = "construct" /\ phase' = "primary" /\ fetched' = fetched /\ failed' \subseteq Groups
        /\ \A t \in Threads : thread'[t] = IF t \in Groups \ failed' THEN [Idle EXCEPT !.at = "check"]
                                           ELSE thread[t]
        /\ erred' = [n \in Names |-> IF Primary(n) \in failed' THEN {1} ELSE {}]
    BY <1>3, ConstructFacts
  <2> SUFFICES ASSUME NEW n \in Names
               PROVE  /\ ~Active(Primary(n))' =>
                           /\ fetched'[n] = IF 1 \notin erred'[n] /\ Primary(n) \in holds'[n]
                                            THEN Primary(n) ELSE None
                           /\ 1 \in erred'[n] <=> Primary(n) \in failed'
                      /\ Active(Primary(n))' =>
                           fetched'[n] = None /\ erred'[n] = {} /\ Primary(n) \notin failed'
                      /\ erred'[n] \subseteq {1}
    BY <2>1 DEF GroupInv, Answered, Walked, Primary
  <2>2. fetched'[n] = None /\ erred'[n] = IF Primary(n) \in failed' THEN {1} ELSE {}
    BY <2>1 DEF PhaseInv
  <2>3. CASE Primary(n) \in failed'
    <3>1. thread'[Primary(n)] = thread[Primary(n)] /\ ~Active(Primary(n))
      BY <1>1, <2>1, <2>3 DEF PhaseInv
    <3>2. ~Active(Primary(n))'
      BY <3>1 DEF Active, Primary
    <3> QED BY <2>2, <2>3, <3>2
  <2>4. CASE Primary(n) \notin failed'
    <3>1. thread'[Primary(n)].at = "check"
      BY <1>1, <2>1, <2>4, Begins
    <3>2. Active(Primary(n))'
      BY <3>1 DEF Active, Primary
    <3> QED BY <2>2, <2>4, <3>2
  <2> QED BY <2>3, <2>4
<1>4. CASE JoinGroups
  <2>1. /\ phase = "primary" /\ phase' = "fallback" /\ UNCHANGED <<fetched, failed, erred>>
        /\ \A t \in Groups : ~Active(t)
    BY <1>4, JoinGroupsFacts
  <2>2. \A n \in Names : Answered(n)
    BY <1>1, <2>1 DEF Answered
  <2> QED BY <1>2, <2>1, <2>2 DEF GroupInv, Primary
<1>5. CASE StartWave
  <2>1. phase = "fallback" /\ UNCHANGED <<phase, fetched, failed, erred, outcome>>
    BY <1>5, StartWaveFacts
  <2> QED BY <1>2, <2>1 DEF GroupInv, Answered, Walked, Primary
<1>6. CASE Refuse \/ JoinFallbacks
  <2>1. /\ UNCHANGED <<fetched, failed, erred, outcome>>
        /\ (phase = "construct" /\ phase' = "failed") \/ (phase = "fallback" /\ phase' = "values")
    BY <1>6, QuietFacts
  <2>2. phase = "construct" => \A n \in Names : outcome[n] = None
    BY DEF PhaseInv
  <2> QED BY <1>2, <2>1, <2>2 DEF GroupInv, Answered, Walked, Primary
<1>7. CASE Decide \/ NotWritable \/ Generated
  <2>1. phase = "values" /\ phase' \in {"values", "done", "failed"} /\ UNCHANGED <<fetched, failed, erred>>
    BY <1>7, DecideFacts DEF Concludes, Aborts
  <2>2. \A n \in Names : Answered(n)
    BY <2>1 DEF Answered, Walked
  <2> QED BY <1>2, <2>1, <2>2 DEF GroupInv, Primary
<1> QED BY <1>3, <1>4, <1>5, <1>6, <1>7 DEF Main

----------------------------------------------------------------------------
(* The walks of the fallback chains *)

\* What is known of a secret depends on its own walk only.
LEMMA WalkSame ==
  ASSUME NEW n \in Names, WalkOk(n), SameWalk(n), UNCHANGED holds, erred'[n] = erred[n],
         thread'[n].at = "done" <=> thread[n].at = "done"
  PROVE  WalkOk(n)'
<1>1. Passed(n)' = Passed(n)
  BY DEF Passed, SameWalk, At
<1> QED BY <1>1 DEF WalkOk, SameWalk, At

\* A link that failed, or that does not have the value, is left behind.
LEMMA LinkLeft ==
  ASSUME TypeOK, NEW n \in Names, WalkOk(n), thread[n].at \in Inside, thread[n].link > 1, UNCHANGED holds,
         NEW h \in BOOLEAN, NEW e \in BOOLEAN, LinkPassed(n, h, e),
         \/ /\ erred'[n] = erred[n] \cup {thread[n].link} /\ e = TRUE /\ h = thread[n].healthy
         \/ /\ erred'[n] = erred[n] /\ h = TRUE /\ e = thread[n].err
            /\ Chain[n][thread[n].link] \notin holds[n]
  PROVE  WalkOk(n)' /\ thread'[n].link > 1 /\ thread'[n].at # "idle"
<1> DEFINE l == thread[n].link
<1>1. l \in 2..Len(Chain[n]) /\ Len(Chain[n]) \in Nat
  BY Constants DEF TypeOK
<1>2. thread[n].at # "done" /\ thread[n].found = None
  BY DEF WalkOk, At, Inside
<1>3. Passed(n) = {j \in 2..Len(Chain[n]) : j < l}
  BY <1>2 DEF Passed, At
<1>4. thread'[n].found = None /\ thread'[n].healthy = h /\ thread'[n].err = e
  BY <1>2 DEF LinkPassed
<1>5. Passed(n)' = Passed(n) \cup {l}
  <2>1. CASE thread[n].link < Len(Chain[n]) /\ Advanced(n)
    <3>1. thread'[n].link = l + 1 /\ thread'[n].at = "slot"
      BY <2>1 DEF Advanced
    <3>2. Passed(n)' = {j \in 2..Len(Chain[n]) : j < l + 1}
      BY <3>1, Zenon DEF Passed, At
    <3> QED BY <1>1, <1>3, <3>2
  <2>2. CASE thread[n].link = Len(Chain[n]) /\ Stopped(n)
    <3>1. thread'[n].link = l /\ thread'[n].at = "done"
      BY <2>2 DEF Stopped
    <3>2. Passed(n)' = {j \in 2..Len(Chain[n]) : j < l \/ j = l}
      BY <1>4, <3>1 DEF Passed, At
    <3> QED BY <1>1, <1>3, <3>2
  <2> QED BY <2>1, <2>2 DEF LinkPassed
<1>6. l \notin Passed(n) /\ l # 1
  BY <1>1, <1>3
<1>7. l \notin erred[n]
  BY <1>6 DEF WalkOk
<1>8. /\ thread'[n].at \in {"slot", "done"} /\ thread'[n].link \in {l, l + 1}
      /\ thread'[n].at = "done" => thread'[n].link = Len(Chain[n])
  BY DEF LinkPassed, Advanced, Stopped
<1>9. thread'[n].link > 1 /\ thread'[n].at # "idle"
  BY <1>1, <1>8
<1>10. erred'[n] \subseteq {1} \cup Passed(n)'
  BY <1>5 DEF WalkOk
<1>11. \A j \in Passed(n)' : Chain[n][j] \in holds[n] => j \in erred'[n]
  BY <1>5 DEF WalkOk
<1>12. e \/ Passed(n)' \cap erred'[n] = {}
  BY <1>5, <1>7 DEF WalkOk
<1>13. h => \E j \in Passed(n)' : j \notin erred'[n]
  BY <1>5, <1>6, <1>7 DEF WalkOk
<1> QED BY <1>4, <1>8, <1>9, <1>10, <1>11, <1>12, <1>13 DEF WalkOk, At

\* A step of a thread keeps what is known of every walk.
LEMMA StepWalks ==
  ASSUME TypeOK, PhaseInv, WalkInv, NEW t \in Threads, Kinds(t), Moves(t),
         UNCHANGED <<phase, holds, outcome, next>>
  PROVE  WalkInv'
<1>1. /\ t \in Groups => phase = "primary"
      /\ t \in Names => phase = "fallback"
      /\ t = Writer => phase = "values"
  BY Begun, PhaseOf
<1> SUFFICES ASSUME NEW n \in Names, Walked(n)'
             PROVE  /\ WalkOk(n)'
                    /\ IF fetched'[n] = None /\ HasFallback(n) THEN thread'[n].link > 1 /\ thread'[n].at # "idle"
                       ELSE thread'[n] = Idle
  BY DEF WalkInv, At, Idle
<1>2. /\ Walked(n) /\ WalkOk(n) /\ n \in Threads
      /\ IF fetched[n] = None /\ HasFallback(n) THEN thread[n].link > 1 /\ thread[n].at # "idle"
         ELSE thread[n] = Idle
  BY Constants DEF WalkInv, At, Walked
<1>3. t \notin Groups /\ (t \in Names \/ t = Writer)
  BY <1>1, <1>2 DEF Walked, Threads
<1>4. fetched' = fetched
  BY <1>3 DEF Kinds, Inner, Failed, Replied
<1>5. CASE n # t
  <2>1. thread'[n] = thread[n]
    BY <1>2, <1>5 DEF Moves
  <2>2. erred'[n] = erred[n]
    <3>1. n \notin Serves(t) \/ t = Writer
      BY <1>3, <1>5 DEF Serves
    <3> QED BY <3>1 DEF Kinds, Inner, Failed, Replied
  <2>3. SameWalk(n)
    BY <2>1 DEF SameWalk
  <2> QED BY <1>2, <1>4, <2>1, <2>2, <2>3, WalkSame
<1>6. CASE n = t
  <2>1. thread[n].at \in Inside
    BY <1>6, Begun
  <2>2. thread[n] # Idle /\ thread[n].at \notin {"idle", "done"}
    BY <2>1, Begins DEF Inside
  <2>3. thread[n].link > 1 /\ fetched'[n] = None /\ HasFallback(n)
    BY <1>2, <1>4, <2>2
  <2> SUFFICES WalkOk(n)' /\ thread'[n].link > 1 /\ thread'[n].at # "idle"
    BY <2>3
  <2>4. thread[n].healthy \in BOOLEAN /\ thread[n].err \in BOOLEAN /\ TRUE \in BOOLEAN
    BY <1>2, KeyTypes DEF ThreadStates
  <2>5. CASE \E to \in Inside : Inner(t, thread[t].at, to)
    <3>1. /\ SameWalk(n) /\ erred' = erred /\ thread'[n].at \in Inside
      BY <1>6, <2>5 DEF Inner
    <3>2. thread'[n].at \notin {"idle", "done"}
      BY <3>1 DEF Inside
    <3> QED BY <1>2, <2>2, <2>3, <3>1, <3>2, WalkSame DEF SameWalk
  <2>6. CASE Failed(t)
    <3>1. n \in Serves(t) /\ t # Writer /\ LinkOf(t) = thread[n].link
      BY <1>3, <1>6, Constants DEF Serves, LinkOf
    <3>2. LinkPassed(n, thread[n].healthy, TRUE) /\ erred'[n] = erred[n] \cup {thread[n].link}
      BY <1>6, <2>6, <3>1 DEF Failed
    <3> QED BY <1>2, <2>1, <2>3, <2>4, <3>2, LinkLeft
  <2>7. CASE Replied(t) /\ LinkPassed(n, TRUE, thread[n].err) /\ Chain[n][thread[n].link] \notin holds[n]
    <3>1. erred'[n] = erred[n]
      BY <2>7 DEF Replied
    <3> QED BY <1>2, <2>1, <2>3, <2>4, <2>7, <3>1, LinkLeft
  <2>8. CASE /\ Replied(t) /\ Chain[n][thread[n].link] \in holds[n] /\ Stopped(n)
             /\ thread'[n].found = Chain[n][thread[n].link]
             /\ thread'[n].healthy = thread[n].healthy /\ thread'[n].err = thread[n].err
    <3>1. /\ erred' = erred /\ thread'[n].link = thread[n].link /\ thread'[n].at = "done"
      BY <2>8 DEF Replied, Stopped
    <3>2. thread'[n].found # None
      <4>1. Chain[n][thread[n].link] \in Specs /\ None \notin Specs
        BY Constants DEF TypeOK
      <4> QED BY <2>8, <4>1
    <3>3. Passed(n)' = Passed(n)
      BY <2>2, <3>1, <3>2 DEF Passed, At
    <3>4. WalkOk(n)'
      BY <1>2, <2>3, <2>8, <3>1, <3>2, <3>3 DEF WalkOk, At
    <3> QED BY <2>3, <3>1, <3>4
  <2> QED BY <1>3, <1>6, <2>5, <2>6, <2>7, <2>8, Constants DEF Kinds, Replied
<1> QED BY <1>5, <1>6

\* A step of the resolving thread queues the walks, and disturbs none.
LEMMA MainWalks ==
  ASSUME TypeOK, RequestInv, PhaseInv, GroupInv, WalkInv, Main
  PROVE  WalkInv'
<1>1. holds' = holds
  BY MainSteered DEF Steered
<1> SUFFICES ASSUME NEW n \in Names, Walked(n)'
             PROVE  /\ WalkOk(n)'
                    /\ IF fetched'[n] = None /\ HasFallback(n) THEN thread'[n].link > 1 /\ thread'[n].at # "idle"
                       ELSE thread'[n] = Idle
  BY DEF WalkInv, At, Idle
<1>2. n \in Threads /\ n # Writer
  BY Constants
<1>3. ASSUME Walked(n), SameWalk(n), erred' = erred, fetched' = fetched,
             \/ thread'[n] = thread[n]
             \/ thread[n].at = "queued" /\ thread'[n].at = "slot"
      PROVE  /\ WalkOk(n)'
             /\ IF fetched'[n] = None /\ HasFallback(n) THEN thread'[n].link > 1 /\ thread'[n].at # "idle"
                ELSE thread'[n] = Idle
  <2>1. /\ WalkOk(n)
        /\ IF fetched[n] = None /\ HasFallback(n) THEN thread[n].link > 1 /\ thread[n].at # "idle"
           ELSE thread[n] = Idle
    BY <1>3 DEF WalkInv, At
  <2>2. WalkOk(n)'
    BY <1>1, <1>3, <2>1, WalkSame
  <2>3. thread[n].at = "queued" => thread[n] # Idle
    BY Begins
  <2> QED BY <1>3, <2>1, <2>2, <2>3 DEF SameWalk
<1>4. CASE JoinGroups
  <2>1. /\ phase = "primary" /\ fetched' = fetched /\ erred' = erred
        /\ thread'[n] = IF n \in Pending THEN [Idle EXCEPT !.at = "queued", !.link = 2] ELSE Idle
    BY <1>2, <1>4, JoinGroupsFacts
  <2>2. erred[n] \subseteq {1}
    BY <2>1 DEF GroupInv
  <2>3. /\ thread'[n].at \notin {"done"} /\ thread'[n].found = None /\ ~thread'[n].healthy
        /\ thread'[n].link \in {1, 2}
    BY <2>1, Begins
  <2>4. Passed(n)' = {}
    <3>1. Passed(n)' = {j \in 2..Len(Chain[n]) : j < thread'[n].link}
      BY <2>3 DEF Passed, At
    <3>2. Len(Chain[n]) \in Nat
      BY Constants
    <3> QED BY <2>3, <3>1, <3>2
  <2>5. WalkOk(n)'
    BY <2>1, <2>2, <2>3, <2>4 DEF WalkOk, At
  <2>6. n \in Pending => thread'[n].link > 1 /\ thread'[n].at # "idle"
    BY <2>1, Begins
  <2>7. n \in Pending <=> fetched[n] = None /\ HasFallback(n)
    BY DEF Pending
  <2> QED BY <2>1, <2>5, <2>6, <2>7
<1>5. CASE Construct
  <2>1. phase' = "primary"
    BY <1>5, ConstructFacts
  <2> QED BY <2>1 DEF Walked
<1>6. CASE StartWave
  <2>1. /\ phase = "fallback" /\ erred' = erred /\ fetched' = fetched /\ SameWalk(n)
        /\ thread'[n] = thread[n] \/ (thread[n].at = "queued" /\ thread'[n].at = "slot")
    BY <1>6, StartWaveFacts
  <2>2. Walked(n)
    BY <2>1 DEF Walked
  <2> QED BY <1>3, <2>1, <2>2
<1>7. CASE Refuse \/ JoinFallbacks
  <2>1. /\ thread' = thread /\ UNCHANGED <<fetched, erred, outcome>>
        /\ (phase = "construct" /\ phase' = "failed") \/ (phase = "fallback" /\ phase' = "values")
    BY <1>7, QuietFacts
  <2>2. phase # "construct"
    BY <2>1 DEF Walked, PhaseInv
  <2>3. Walked(n) /\ SameWalk(n)
    BY <2>1, <2>2 DEF Walked, SameWalk
  <2> QED BY <1>3, <2>1, <2>3
<1>8. CASE Decide \/ NotWritable \/ Generated
  <2>1. phase = "values" /\ thread'[n] = thread[n] /\ UNCHANGED <<fetched, erred>>
    BY <1>2, <1>8, DecideFacts
  <2>2. Walked(n) /\ SameWalk(n)
    BY <2>1 DEF Walked, SameWalk
  <2> QED BY <1>3, <2>1, <2>2
<1> QED BY <1>4, <1>5, <1>6, <1>7, <1>8 DEF Main

----------------------------------------------------------------------------
(* What is decided of the secrets *)

\* The verdict on a secret depends on its walk, its group and the failures.
LEMMA VerdictSame ==
  ASSUME NEW n \in Names, thread'[n] = thread[n], UNCHANGED <<fetched, failed>>
  PROVE  ValueOf(n)' = ValueOf(n) /\ (Missing(n)' <=> Missing(n))
<1>1. ValueOf(n)' = ValueOf(n)
  BY DEF ValueOf
<1>2. Unknown(n)' <=> Unknown(n)
  BY <1>1 DEF Unknown, ChainFailed, HasFallback, Primary
<1> QED BY <1>1, <1>2 DEF Missing

\* Secrets are decided only while no fetch and no walk runs.
LEMMA StepOutcomes ==
  ASSUME TypeOK, PhaseInv, OutcomeInv, NEW t \in Threads, Kinds(t), Moves(t),
         UNCHANGED <<phase, holds, outcome, next>>
  PROVE  OutcomeInv'
<1>1. /\ t \in Groups => phase = "primary"
      /\ t \in Names => phase = "fallback"
      /\ t = Writer => phase = "values"
  BY Begun, PhaseOf
<1>2. None \notin {"resolved", "error", "generate", "default", "omit"} /\ next \in Names
  BY PassAssumption DEF TypeOK
<1>3. CASE t # Writer
  <2>1. phase \in {"primary", "fallback"}
    BY <1>1, <1>3 DEF Threads
  <2>2. \A n \in Names : outcome'[n] = None
    BY <2>1 DEF PhaseInv
  <2> QED BY <1>2, <2>1, <2>2 DEF OutcomeInv
<1>4. CASE t = Writer
  <2>1. fetched' = fetched /\ failed' = failed
    BY <1>4, Constants DEF Kinds, Inner, Failed, Replied
  <2>2. \A n \in Names : thread'[n] = thread[n]
    BY <1>4, Constants DEF Moves
  <2>3. \A n \in Names : ValueOf(n)' = ValueOf(n) /\ (Missing(n)' <=> Missing(n))
    BY <2>1, <2>2, VerdictSame
  <2>4. phase = "values" /\ thread[t].at # "idle"
    BY <1>1, <1>4, Begun DEF Inside
  <2>5. Missing(next)
    BY <1>4, <2>4 DEF OutcomeInv, At
  <2>6. Missing(next)'
    BY <1>2, <2>3, <2>5 DEF Missing, Unknown, ValueOf, ChainFailed, HasFallback, Primary
  <2>7. \A n \in Names : /\ outcome'[n] = "resolved" => ValueOf(n)' # None
                         /\ outcome'[n] \in {"generate", "default", "error", "omit"} /\ phase' # "failed"
                              => Missing(n)'
    BY <2>3 DEF OutcomeInv
  <2> QED BY <2>6, <2>7 DEF OutcomeInv
<1> QED BY <1>3, <1>4

\* Every decision rests on what the pass has found.
LEMMA MainOutcomes ==
  ASSUME TypeOK, RequestInv, PhaseInv, OutcomeInv, Main
  PROVE  OutcomeInv'
<1>1. /\ None \notin {"resolved", "error", "generate", "default", "omit"} /\ next \in Names
      /\ outcome \in [Names -> {None, "resolved", "error", "generate", "default", "omit"}]
  BY PassAssumption DEF TypeOK
<1>2. CASE Construct \/ JoinGroups \/ StartWave \/ Refuse \/ JoinFallbacks
  <2>1. /\ outcome' = outcome /\ phase \in {"construct", "primary", "fallback"}
        /\ phase' = "values" => thread' = thread
    BY <1>2, ConstructFacts, JoinGroupsFacts, StartWaveFacts, QuietFacts
  <2>2. \A n \in Names : outcome'[n] = None
    BY <2>1 DEF PhaseInv
  <2>3. phase' = "values" => thread'[Writer].at = "idle"
    BY <2>1 DEF PhaseInv, At
  <2> QED BY <1>1, <2>2, <2>3 DEF OutcomeInv, At
<1>3. CASE Decide \/ NotWritable \/ Generated
  <2>1. /\ phase = "values" /\ UNCHANGED <<fetched, failed>>
        /\ \A n \in Names : thread'[n] = thread[n]
    BY <1>3, DecideFacts, Constants
  <2>2. \A n \in Names : ValueOf(n)' = ValueOf(n) /\ (Missing(n)' <=> Missing(n))
    BY <2>1, VerdictSame
  <2>3. \/ ValueOf(next) # None /\ Concludes("resolved") /\ thread'[Writer].at = "idle"
        \/ Missing(next) /\ Concludes(Policy[next]) /\ thread'[Writer].at = "idle"
        \/ Missing(next) /\ thread'[Writer].at = "check" /\ UNCHANGED <<phase, outcome, next>>
        \/ Aborts /\ thread'[Writer].at = "idle"
        \/ Missing(next) /\ Concludes("generate") /\ thread'[Writer].at = "idle"
    <3>1. thread[Writer].at = "done" => Missing(next)
      BY <2>1 DEF OutcomeInv, At
    <3> QED BY <1>3, <3>1, DecideFacts
  <2>4. Policy[next] \in {"generate", "default", "error", "omit"}
    BY <1>1, PassAssumption
  <2>5. ASSUME NEW n \in Names
        PROVE  /\ outcome'[n] = "resolved" => ValueOf(n) # None
               /\ outcome'[n] \in {"generate", "default", "error", "omit"} /\ phase' # "failed"
                    => Missing(n)
    <3>1. CASE outcome'[n] = outcome[n]
      BY <2>1, <3>1 DEF OutcomeInv
    <3>2. CASE n = next
      <4>1. CASE ValueOf(next) # None /\ Concludes("resolved")
        BY <1>1, <3>2, <4>1 DEF Concludes
      <4>2. CASE Missing(next) /\ \E o \in {"generate", "default", "error", "omit"} : Concludes(o)
        BY <1>1, <3>2, <4>2 DEF Concludes
      <4>3. CASE Aborts
        BY <1>1, <3>2, <4>3 DEF Aborts
      <4>4. CASE outcome' = outcome
        BY <3>1, <4>4
      <4> QED BY <2>3, <2>4, <4>1, <4>2, <4>3, <4>4
    <3>3. n # next => outcome'[n] = outcome[n]
      BY <1>1, <2>3 DEF Concludes, Aborts
    <3> QED BY <3>1, <3>2, <3>3
  <2>6. thread'[Writer].at # "idle" => Missing(next) /\ next' = next
    BY <2>3
  <2>7. thread'[Writer].at # "idle" => Missing(next)'
    BY <1>1, <2>2, <2>6 DEF Missing, Unknown, ValueOf, ChainFailed, HasFallback, Primary
  <2> QED BY <2>2, <2>5, <2>7 DEF OutcomeInv, At
<1> QED BY <1>2, <1>3 DEF Main

----------------------------------------------------------------------------
(* The theorems *)

\* A pass begins in the inductive invariant.
LEMMA InitIInv == ASSUME Init PROVE IInv
<1>1. /\ phase = "construct" /\ holds \in Stores /\ slots = <<>> /\ cells = <<>> /\ failed = {}
      /\ next = 1 /\ delivered = {} /\ faults = 0 /\ thread = [t \in Threads |-> Idle]
      /\ fetched = [n \in Names |-> None] /\ outcome = [n \in Names |-> None]
      /\ erred = [n \in Names |-> {}]
  BY DEF Init
<1>2. /\ \A t \in Threads : thread[t] = Idle
      /\ \A n \in Names : n \in Threads /\ Len(Chain[n]) \in Nat \ {0} /\ Primary(n) \in Threads
      /\ Groups \subseteq Threads /\ Writer \in Threads /\ 1 \in Names /\ MaxAttempts \in Nat \ {0}
      /\ MaxFaults \in Nat
  <2>1. \A t \in Threads : thread[t] = Idle
    BY <1>1
  <2>2. MaxAttempts \in Nat \ {0} /\ MaxFaults \in Nat
    BY PassAssumption
  <2> QED BY <2>1, <2>2, Constants
<1>3. \A t \in Threads : /\ thread[t].at = "idle" /\ thread[t].link = 1 /\ thread[t].slot = 0
                         /\ thread[t].cell = 0 /\ thread[t].attempt = 1 /\ thread[t].sent = 0
                         /\ thread[t].probes = 0
  BY <1>2, Begins
<1>4. cells \in Seq(Cells) /\ slots \in Seq(Slots) /\ Len(cells) = 0 /\ Len(slots) = 0
      /\ DOMAIN cells = {}
  BY <1>1
<1>5. TypeOK
  <2>1. holds \in [Names -> SUBSET Specs]
    BY <1>1, PassAssumption
  <2>2. thread \in [Threads -> ThreadStates]
    BY <1>1, IdleState
  <2>3. \A n \in Names : thread[n].link \in 1..Len(Chain[n])
    BY <1>2, <1>3
  <2>4. \A t \in Threads : thread[t].slot \in 0..Len(slots) /\ thread[t].cell \in 0..Len(cells)
    BY <1>3, <1>4
  <2>5. /\ fetched \in [Names -> Specs \cup {None}] /\ erred \in [Names -> SUBSET Nat]
        /\ outcome \in [Names -> {None, "resolved", "error", "generate", "default", "omit"}]
    BY <1>1
  <2>6. next \in Names /\ faults \in 0..MaxFaults /\ delivered \subseteq DOMAIN cells /\ failed \subseteq Groups
    BY <1>1, <1>2
  <2> QED BY <1>1, <1>4, <2>1, <2>2, <2>3, <2>4, <2>5, <2>6 DEF TypeOK
<1>6. SlotInv /\ CellInv /\ ProbeInv
  BY <1>1, <1>3, <1>4 DEF SlotInv, CellInv, ProbeInv, At
<1>7. RequestInv
  BY <1>2, <1>3 DEF RequestInv, RequestOk, At
<1>8. PhaseInv
  BY <1>1, <1>2, <1>3 DEF PhaseInv, At, Active
<1>9. GroupInv /\ WalkInv
  BY <1>1 DEF GroupInv, WalkInv, Answered, Walked
<1>10. OutcomeInv
  <2>1. \A n \in Names : outcome[n] = None
    BY <1>1
  <2>2. None \notin {"resolved", "error", "generate", "default", "omit"}
    BY PassAssumption
  <2> QED BY <1>1, <2>1, <2>2 DEF OutcomeInv
<1> QED BY <1>5, <1>6, <1>7, <1>8, <1>9, <1>10 DEF IInv

\* Every step keeps the inductive invariant.
LEMMA NextIInv == ASSUME IInv, [Next]_vars PROVE IInv'
<1> USE DEF IInv
<1>1. CASE Main
  BY <1>1, MainTypes, MainRequests, MainPhases, MainGroups, MainWalks, MainOutcomes
<1>2. ASSUME NEW t \in Threads, Step(t)
      PROVE  IInv'
  <2>1. Kinds(t) /\ Moves(t) /\ UNCHANGED <<phase, holds, outcome, next>>
    BY <1>2, StepKinds, StepAlone
  <2>2. TypeOK' /\ SlotInv' /\ CellInv' /\ ProbeInv' /\ RequestInv'
    BY <1>2, StepTypes, StepCells, StepProbes, StepRequests
  <2>3. PhaseInv' /\ GroupInv' /\ WalkInv' /\ OutcomeInv'
    BY <1>2, <2>1, StepPhases, StepGroups, StepWalks, StepOutcomes
  <2> QED BY <2>2, <2>3
<1>3. CASE UNCHANGED vars
  <2> USE <1>3 DEF vars
  <2>1. TypeOK' /\ SlotInv'
    BY DEF TypeOK, SlotInv
  <2>2. CellInv' /\ ProbeInv'
    BY DEF CellInv, ProbeInv, At, Key, SpecOf, Instance
  <2>3. RequestInv'
    BY DEF RequestInv, RequestOk, Settled, At, Key, SpecOf, Instance
  <2>4. PhaseInv' /\ GroupInv'
    BY DEF PhaseInv, GroupInv, Answered, Walked, At, Active
  <2>5. WalkInv' /\ OutcomeInv'
    BY DEF WalkInv, WalkOk, Passed, Walked, OutcomeInv, ValueOf, Missing, Unknown, ChainFailed, At
  <2> QED BY <2>1, <2>2, <2>3, <2>4, <2>5
<1> QED BY <1>1, <1>2, <1>3 DEF Next

\* The inductive invariant holds in every state a pass reaches.
THEOREM Invariance == Spec => []IInv
<1>1. Init => IInv
  BY InitIInv
<1>2. IInv /\ [Next]_vars => IInv'
  BY NextIInv
<1> QED BY <1>1, <1>2, PTL DEF Spec

\* The types of a pass: no index of a slot, a cell or a link is out of range.
THEOREM TypeCorrect == Spec => []TypeOK
<1>1. IInv => TypeOK
  BY DEF IInv
<1> QED BY <1>1, Invariance, PTL

\* For every chain, scope and number of threads: two probes of one
\* authentication scope never run together, and a failure that a check has
\* returned is gone from AuthCheckCache.
THEOREM ProbesAreShared == Spec => []ProbesShared
<1>1. IInv => ProbesShared
  <2> SUFFICES ASSUME IInv PROVE ProbesShared
    OBVIOUS
  <2> USE DEF IInv
  <2>1. \A i \in delivered : ~cells[i].live
    BY DEF CellInv
  <2>2. ASSUME NEW t \in Threads, NEW u \in Threads, At(t, "probe"), At(u, "probe"), t # u,
               cells[thread[t].cell].key = cells[thread[u].cell].key
        PROVE  FALSE
    <3>1. /\ thread[t].cell \in DOMAIN cells /\ thread[u].cell \in DOMAIN cells
          /\ cells[thread[t].cell].state = "running" /\ cells[thread[u].cell].state = "running"
      BY <2>2, CellOf DEF ProbeInv, At
    <3>2. cells[thread[t].cell].live /\ cells[thread[u].cell].live
      BY <3>1 DEF CellInv
    <3>3. thread[t].cell = thread[u].cell
      BY <2>2, <3>1, <3>2 DEF CellInv
    <3> QED BY <2>2, <3>3 DEF ProbeInv
  <2> QED BY <2>1, <2>2 DEF ProbesShared
<1> QED BY <1>1, Invariance, PTL

\* For every attempt limit: a read sends at most max_attempts requests and as
\* many probes, and a generated value is sent once where a replay is not safe.
THEOREM RequestsAreBounded == Spec => []RequestsBounded
<1>1. IInv => RequestsBounded
  <2> SUFFICES ASSUME IInv PROVE RequestsBounded
    OBVIOUS
  <2> USE DEF IInv
  <2>1. ASSUME NEW t \in Threads
        PROVE  /\ thread[t].sent <= thread[t].attempt /\ thread[t].probes <= MaxAttempts
               /\ thread[t].sent <= MaxAttempts
    <3>1. thread[t].sent <= thread[t].attempt /\ thread[t].probes <= MaxAttempts
      BY DEF RequestInv, RequestOk
    <3>2. /\ thread[t].sent \in Nat /\ thread[t].attempt \in 1..MaxAttempts /\ MaxAttempts \in Nat
      BY KeyTypes, Constants DEF ThreadStates
    <3> QED BY <3>1, <3>2
  <2>2. Primary(next) \notin RetrySafe => thread[Writer].sent <= 1
    BY <2>1, Constants DEF RequestInv
  <2> QED BY <2>1, <2>2 DEF RequestsBounded
<1> QED BY <1>1, Invariance, PTL

\* For every chain and every content of the providers: the first provider that
\* holds a secret and did not fail gives it, and a secret is missing only when
\* enough providers said so.
THEOREM ChainsDecide == Spec => []ChainDecides
<1>1. IInv => ChainDecides
  <2> SUFFICES ASSUME IInv, NEW n \in Names
               PROVE  /\ outcome[n] = "resolved" =>
                           \E i \in 1..Len(Chain[n]) :
                             /\ ValueOf(n) = Chain[n][i] /\ Chain[n][i] \in holds[n]
                             /\ \A j \in 1..(i - 1) : Chain[n][j] \in holds[n] => j \in erred[n]
                      /\ outcome[n] \in {"generate", "default", "error", "omit"} /\ phase # "failed" =>
                           /\ \A i \in 1..Len(Chain[n]) : Chain[n][i] \in holds[n] => i \in erred[n]
                           /\ 1 \notin erred[n]
                           /\ HasFallback(n) => \E i \in 2..Len(Chain[n]) : i \notin erred[n]
    BY DEF ChainDecides
  <2> USE DEF IInv
  <2>1. /\ Len(Chain[n]) \in Nat \ {0} /\ thread[n].link \in 1..Len(Chain[n])
        /\ Primary(n) = Chain[n][1] /\ Primary(n) # None /\ thread[n].link \in Nat
    BY Constants DEF TypeOK, Primary
  <2>2. outcome[n] # None => Walked(n) /\ phase \in {"values", "done", "failed"}
    BY DEF PhaseInv, Walked, TypeOK
  <2>3. None \notin {"resolved", "error", "generate", "default", "omit"}
    BY PassAssumption
  <2>4. Walked(n) => /\ fetched[n] = IF 1 \notin erred[n] /\ Primary(n) \in holds[n] THEN Primary(n) ELSE None
                     /\ 1 \in erred[n] <=> Primary(n) \in failed
                     /\ WalkOk(n)
                     /\ IF fetched[n] = None /\ HasFallback(n) THEN thread[n].link > 1 /\ ~At(n, "idle")
                        ELSE thread[n] = Idle
    BY DEF GroupInv, Answered, WalkInv
  <2>5. ASSUME outcome[n] = "resolved"
        PROVE  \E i \in 1..Len(Chain[n]) :
                 /\ ValueOf(n) = Chain[n][i] /\ Chain[n][i] \in holds[n]
                 /\ \A j \in 1..(i - 1) : Chain[n][j] \in holds[n] => j \in erred[n]
    <3>1. Walked(n) /\ ValueOf(n) # None
      BY <2>2, <2>3, <2>5 DEF OutcomeInv
    <3>2. CASE fetched[n] # None
      <4>1. ValueOf(n) = Chain[n][1] /\ Chain[n][1] \in holds[n]
        BY <2>1, <2>4, <3>1, <3>2 DEF ValueOf
      <4>2. 1 \in 1..Len(Chain[n]) /\ 1..(1 - 1) = {}
        BY <2>1
      <4> QED BY <4>1, <4>2
    <3>3. CASE fetched[n] = None
      <4> DEFINE l == thread[n].link
      <4>1. thread[n].found = ValueOf(n) /\ thread[n].found # None
        BY <3>1, <3>3 DEF ValueOf
      <4>2. l > 1 /\ ValueOf(n) = Chain[n][l] /\ Chain[n][l] \in holds[n]
        BY <2>4, <3>1, <4>1 DEF WalkOk
      <4>3. ASSUME NEW j \in 1..(l - 1), Chain[n][j] \in holds[n]
            PROVE  j \in erred[n]
        <5>1. CASE j = 1
          BY <2>1, <2>4, <3>1, <3>3, <4>3, <5>1
        <5>2. CASE j # 1
          <6>1. j \in Passed(n)
            BY <2>1, <4>3, <5>2 DEF Passed
          <6> QED BY <2>4, <3>1, <4>3, <6>1 DEF WalkOk
        <5> QED BY <5>1, <5>2
      <4> QED BY <2>1, <4>2, <4>3
    <3> QED BY <3>2, <3>3
  <2>6. ASSUME outcome[n] \in {"generate", "default", "error", "omit"}, phase # "failed"
        PROVE  /\ \A i \in 1..Len(Chain[n]) : Chain[n][i] \in holds[n] => i \in erred[n]
               /\ 1 \notin erred[n]
               /\ HasFallback(n) => \E i \in 2..Len(Chain[n]) : i \notin erred[n]
    <3>1. Walked(n) /\ Missing(n) /\ phase \in {"values", "done"}
      BY <2>2, <2>3, <2>6 DEF OutcomeInv
    <3>2. ValueOf(n) = None /\ ~ChainFailed(n) /\ Primary(n) \notin failed
      BY <3>1 DEF Missing, Unknown
    <3>3. fetched[n] = None /\ thread[n].found = None
      BY <3>2 DEF ValueOf
    <3>4. 1 \notin erred[n] /\ Chain[n][1] \notin holds[n]
      BY <2>1, <2>4, <3>1, <3>2, <3>3
    <3>5. CASE ~HasFallback(n)
      <4>1. Len(Chain[n]) = 1
        <5> DEFINE k == Len(Chain[n])
        <5>1. ~(k > 1) /\ k \in Nat \ {0}
          BY <2>1, <3>5 DEF HasFallback
        <5>2. k = 1
          <6> HIDE DEF k
          <6> QED BY <5>1
        <5> QED BY <5>2
      <4>2. \A i \in 1..Len(Chain[n]) : i = 1
        BY <4>1
      <4> QED BY <3>4, <3>5, <4>2
    <3>6. CASE HasFallback(n)
      <4>1. thread[n].at = "done"
        BY <2>4, <3>1, <3>3, <3>6 DEF PhaseInv, At
      <4>2. thread[n].link = Len(Chain[n])
        BY <2>4, <3>1, <3>3, <4>1 DEF WalkOk, At
      <4>3. Passed(n) = 2..Len(Chain[n])
        BY <2>1, <3>3, <4>1, <4>2 DEF Passed, At
      <4>4. \A i \in 1..Len(Chain[n]) : i = 1 \/ i \in Passed(n)
        BY <2>1, <4>3
      <4>5. \A i \in 1..Len(Chain[n]) : Chain[n][i] \in holds[n] => i \in erred[n]
        BY <2>4, <3>1, <3>4, <4>4 DEF WalkOk
      <4>6. \E i \in Passed(n) : i \notin erred[n]
        <5>1. CASE thread[n].healthy
          BY <2>4, <3>1, <5>1 DEF WalkOk
        <5>2. CASE ~thread[n].err
          <6>1. 2 \in Passed(n)
            BY <2>1, <3>6, <4>3 DEF HasFallback
          <6> QED BY <2>4, <3>1, <5>2, <6>1 DEF WalkOk
        <5> QED BY <3>2, <3>6, <5>1, <5>2 DEF ChainFailed
      <4> QED BY <3>4, <4>3, <4>5, <4>6
    <3> QED BY <3>5, <3>6
  <2> QED BY <2>5, <2>6
<1> QED BY <1>1, Invariance, PTL
=============================================================================
