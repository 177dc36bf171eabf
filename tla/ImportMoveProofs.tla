-------------------------- MODULE ImportMoveProofs --------------------------
(***************************************************************************)
(* Theorems about ImportMove, for every number of secrets, every layout of *)
(* their cells and any number of mishaps.  A plan acts on what it read     *)
(* some steps ago, so the invariant says how long that stays true: what    *)
(* was read is still there, unless others wrote, until the plan itself     *)
(* replaces it, and no entry replaces what another one relies on.          *)
(***************************************************************************)
EXTENDS ImportMove, TLAPS

\* The entry of secret n.
E(n) == plan.entries[n]

\* How far the plan is with secret n.
Reading == {"source", "target"}
Writing == {"copy", "sync", "verify", "delete", "done"}
TargetRead(n) ==
  \/ plan.at \in Writing \cup {"validate"}
  \/ plan.at \in Reading /\ n < plan.i
SourceRead(n) == TargetRead(n) \/ (plan.at = "target" /\ n = plan.i)
Unwritten(n) ==
  \/ plan.at \in Reading \cup {"validate"}
  \/ plan.at = "copy" /\ n >= plan.i
  \/ plan.at = "sync" /\ n > plan.i
PastCopy(n) ==
  \/ plan.at \in {"verify", "delete", "done"}
  \/ plan.at \in {"copy", "sync"} /\ n < plan.i
PastVerify(n) ==
  \/ plan.at = "delete"
  \/ plan.at = "done" /\ plan.deletes
  \/ plan.at = "verify" /\ n < plan.i
PastDelete(n) ==
  \/ plan.at = "done" /\ plan.deletes
  \/ plan.at = "delete" /\ n < plan.i

\* A source keeps what was read from it until it is deleted.
SourceOk(n) ==
  SourceRead(n) /\ E(n).source # None /\ Src(n) \notin touched =>
    \/ store[Src(n)] = E(n).source
    \/ plan.at \in {"delete", "done"} /\ plan.deletes /\ store[Src(n)] = None

\* A destination keeps what was read from it, nothing included, until the copy.
TargetOk(n) ==
  TargetRead(n) /\ Tgt(n) \notin touched /\ (E(n).target # None \/ Unwritten(n))
    => store[Tgt(n)] = E(n).target

\* A listing answers what the first read found.
ListOk(n) ==
  layout.lists =>
    /\ TargetRead(n) => plan.listing # Unlisted /\ plan.listing[Tgt(n)] = E(n).target
    /\ plan.at \in Reading /\ plan.listing # Unlisted /\ Tgt(n) \notin touched
         => plan.listing[Tgt(n)] = store[Tgt(n)]

\* What was missing is copied, and what was copied is verified.
CopiedOk(n) ==
  /\ E(n).copied => PastCopy(n) /\ E(n).source # None /\ E(n).target \in {None, E(n).source}
  /\ PastCopy(n) /\ E(n).source # None /\ E(n).target = None => E(n).copied
  /\ PastVerify(n) /\ E(n).source # None => E(n).target # None

\* What matches its destination is deleted.
DeletedOk(n) ==
  PastDelete(n) /\ Matches(E(n)) /\ Src(n) \notin touched => store[Src(n)] = None

EntryOk(n) == SourceOk(n) /\ TargetOk(n) /\ ListOk(n) /\ CopiedOk(n) /\ DeletedOk(n)
EntryInv == \A n \in Names : EntryOk(n)

\* A command starts from nothing.
IdleInv == At("idle") => plan = Idle

\* What the plan has checked before it writes.
ValidInv ==
  /\ plan.at \in Writing => ~TargetsCollide /\ (plan.deletes => ~CleanupCollides(plan.entries))
  /\ plan.deletes => ~SelfOverlap
  /\ plan.at \in {"verify", "delete"} => plan.deletes
  /\ At("validate") => plan.i = 1

\* Between a copy and the update of its cache.
SyncInv ==
  At("sync") =>
    /\ E(plan.i).source # None /\ E(plan.i).target = None
    /\ Tgt(plan.i) \notin touched \cup garbled => store[Tgt(plan.i)] = E(plan.i).source

PlanInv == EntryInv /\ IdleInv /\ ValidInv /\ SyncInv

IInv == TypeOK /\ PlanInv /\ NoValueLost /\ CacheFollowsDestination

USE ImportAssumption

----------------------------------------------------------------------------
(* Types *)

Plans == [at : Points, deletes : BOOLEAN, i : Names, entries : [Names -> Entry],
          listing : Listed \cup {Unlisted}]

\* The cells of a secret, and the plan's record.
LEMMA Types ==
  ASSUME TypeOK
  PROVE  /\ \A n \in Names : Src(n) \in Cells /\ Tgt(n) \in Cells
         /\ \A n \in Names : E(n) \in Entry
         /\ plan.i \in Names /\ plan.i \in Nat /\ plan.i <= N /\ 1 <= plan.i
         /\ plan.at \in Points /\ plan.deletes \in BOOLEAN
         /\ plan.entries \in [Names -> Entry]
         /\ plan.listing \in Listed \cup {Unlisted}
         /\ 1 \in Names
         /\ layout.lists \in BOOLEAN
         /\ N \in Nat
<1>1. layout \in Layouts
  BY DEF TypeOK
<1>2. layout.src \in [Names -> Cells] /\ layout.tgt \in [Names -> Cells] /\ layout.lists \in BOOLEAN
  BY <1>1
<1>3. plan \in Plans
  BY DEF TypeOK, Plans
<1>4. /\ plan.i \in Names /\ plan.at \in Points /\ plan.deletes \in BOOLEAN
      /\ plan.entries \in [Names -> Entry] /\ plan.listing \in Listed \cup {Unlisted}
  BY <1>3 DEF Plans
<1> QED BY <1>2, <1>4 DEF Src, Tgt, E, Names

\* Records with a field replaced keep their type.
LEMMA EntryRecords ==
  ASSUME NEW e \in Entry, NEW v \in Held \cup {None}
  PROVE  /\ [e EXCEPT !.source = v] \in Entry
         /\ [e EXCEPT !.target = v] \in Entry
         /\ [e EXCEPT !.copied = TRUE] \in Entry
BY DEF Entry

\* The plan's record with its place or its entries replaced is a plan.
LEMMA PlanRecords ==
  ASSUME NEW p \in Plans, NEW at \in Points, NEW i \in Names, NEW es \in [Names -> Entry]
  PROVE  /\ [p EXCEPT !.at = at] \in Plans
         /\ [p EXCEPT !.i = i, !.entries = es] \in Plans
         /\ [p EXCEPT !.i = i, !.at = at, !.entries = es] \in Plans
         /\ [p EXCEPT !.i = i, !.entries = es, !.at = at] \in Plans
<1>1. [p EXCEPT !.at = at] \in Plans
  BY DEF Plans
<1>2. [p EXCEPT !.i = i, !.entries = es] \in Plans
  BY DEF Plans
<1>3. [p EXCEPT !.i = i, !.at = at, !.entries = es] \in Plans
  BY DEF Plans
<1>4. [p EXCEPT !.i = i, !.entries = es, !.at = at] \in Plans
  BY DEF Plans
<1> QED BY <1>1, <1>2, <1>3, <1>4

\* No command is running.
LEMMA IdleFields ==
  /\ Idle \in Plans
  /\ Idle.at = "idle" /\ Idle.deletes = FALSE /\ Idle.i = 1 /\ Idle.listing = Unlisted
  /\ \A n \in Names : Idle.entries[n] = NoEntry
  /\ NoEntry.source = None /\ NoEntry.target = None /\ NoEntry.copied = FALSE
<1>1. NoEntry \in Entry
  BY DEF NoEntry, Entry
<1>2. 1 \in Names
  BY DEF Names
<1> QED BY <1>1, <1>2 DEF Idle, Plans, Points, NoEntry

\* The next entry of a loop, or the next loop.
LEMMA GoesEffects ==
  ASSUME TypeOK, NEW es \in [Names -> Entry], NEW next \in Points, Goes(es, next)
  PROVE  /\ plan' \in Plans
         /\ plan'.entries = es /\ plan'.deletes = plan.deletes /\ plan'.listing = plan.listing
         /\ plan.i < N => plan'.i = plan.i + 1 /\ plan'.at = plan.at
         /\ ~(plan.i < N) => plan'.i = 1 /\ plan'.at = next
<1>1. plan \in Plans
  BY DEF TypeOK, Plans
<1>2. CASE plan.i < N
  <2>1. plan' = [plan EXCEPT !.i = plan.i + 1, !.entries = es]
    BY <1>2 DEF Goes
  <2>2. plan.i + 1 \in Names
    BY <1>2, Types DEF Names
  <2> QED BY <1>1, <1>2, <2>1, <2>2 DEF Plans
<1>3. CASE ~(plan.i < N)
  <2>1. plan' = [plan EXCEPT !.i = 1, !.at = next, !.entries = es]
    BY <1>3 DEF Goes
  <2> QED BY <1>1, <1>3, <2>1, Types DEF Plans
<1> QED BY <1>2, <1>3

\* A command that ends, or that only starts over, keeps the plan's invariant.
LEMMA EndedPlan ==
  ASSUME plan' = Idle, layout' = layout
  PROVE  PlanInv'
<1>1. plan'.at = "idle" /\ plan'.deletes = FALSE
  BY IdleFields
<1>2. \A n \in Names : plan'.entries[n].copied = FALSE
  BY IdleFields
<1>3. ASSUME NEW n \in Names PROVE EntryOk(n)'
  <2>1. ~SourceRead(n)' /\ ~TargetRead(n)' /\ ~PastCopy(n)' /\ ~PastVerify(n)' /\ ~PastDelete(n)'
    BY <1>1 DEF SourceRead, TargetRead, PastCopy, PastVerify, PastDelete, Writing, Reading
  <2>2. plan'.at \notin Reading
    BY <1>1 DEF Reading
  <2>3. SourceOk(n)' /\ TargetOk(n)' /\ DeletedOk(n)'
    BY <2>1 DEF SourceOk, TargetOk, DeletedOk
  <2>4. CopiedOk(n)'
    BY <1>2, <2>1 DEF CopiedOk, E
  <2>5. ListOk(n)'
    BY <2>1, <2>2 DEF ListOk
  <2> QED BY <2>3, <2>4, <2>5 DEF EntryOk
<1>4. IdleInv'
  BY DEF IdleInv, Idle
<1>5. ValidInv'
  BY <1>1 DEF ValidInv, Writing, At
<1>6. SyncInv'
  BY <1>1 DEF SyncInv, At
<1> QED BY <1>3, <1>4, <1>5, <1>6 DEF PlanInv, EntryInv

\* What a step must keep of the types.
LEMMA TypeStep ==
  ASSUME TypeOK, layout' = layout, origin' = origin, plan' \in Plans,
         store' \in [Cells -> Held \cup {None}], cached' \in [Names -> Held \cup {None}],
         touched' \subseteq Cells, garbled' \subseteq Cells, mishaps' \in 0..MaxMishaps
  PROVE  TypeOK'
BY DEF TypeOK, Plans, Listed, Tgt

\* What the mishaps cost.
LEMMA Mishaps ==
  ASSUME TypeOK, Fails \/ Works
  PROVE  mishaps' \in 0..MaxMishaps
BY DEF TypeOK, Fails, Works

\* The listing of an instance, and the value it answers.
LEMMA Listings ==
  ASSUME TypeOK
  PROVE  /\ EnsureSecrets \in Listed \cup {Unlisted}
         /\ layout.lists => EnsureSecrets \in Listed /\ EnsureSecrets # Unlisted
         /\ \A n \in Names : GetTarget(n) \in Held \cup {None}
<1>1. store \in [Cells -> Held \cup {None}]
  BY DEF TypeOK
<1>2. {Tgt(n) : n \in Names} \subseteq Cells
  BY Types
<1>3. [c \in {Tgt(n) : n \in Names} |-> store[c]] \in Listed
  BY <1>1, <1>2 DEF Listed
<1>4. \A f \in Listed : f # Unlisted
  <2>1. ASSUME NEW f \in Listed, f = Unlisted PROVE FALSE
    <3>1. DOMAIN f = {Tgt(n) : n \in Names}
      BY DEF Listed
    <3>2. DOMAIN f = {}
      BY <2>1 DEF Unlisted
    <3>3. Tgt(1) \in {Tgt(n) : n \in Names}
      BY Types
    <3> QED BY <3>1, <3>2, <3>3
  <2> QED BY <2>1
<1>5. EnsureSecrets \in Listed \cup {Unlisted}
  BY <1>3, Types DEF EnsureSecrets
<1>6. layout.lists => EnsureSecrets \in Listed /\ EnsureSecrets # Unlisted
  BY <1>3, <1>4, Types DEF EnsureSecrets
<1>7. ASSUME NEW n \in Names PROVE GetTarget(n) \in Held \cup {None}
  <2>1. CASE layout.lists
    BY <1>6, <2>1 DEF GetTarget, Listed
  <2>2. CASE ~layout.lists
    BY <1>1, <2>2, Types DEF GetTarget
  <2> QED BY <2>1, <2>2
<1> QED BY <1>5, <1>6, <1>7

----------------------------------------------------------------------------
(* The steps of a plan.  Each lemma gives the fields a step leaves, and    *)
(* then what the invariant says of them.                                   *)

\* The plan's record.
LEMMA PlanIsRecord ==
  ASSUME TypeOK
  PROVE  plan \in Plans
BY DEF TypeOK, Plans

\* Starting a command, or refusing one that would delete what it wrote.
LEMMA StartPlan ==
  ASSUME IInv, NEW d \in BOOLEAN, Start(d)
  PROVE  plan' \in Plans /\ PlanInv'
<1> USE PlanIsRecord DEF IInv
<1>1. plan = Idle /\ layout' = layout
  BY DEF Start, PlanInv, IdleInv, Stays
<1>2. CASE d /\ SelfOverlap
  <2>1. plan' = Idle
    BY <1>1, <1>2 DEF Start
  <2> QED BY <1>1, <2>1, EndedPlan, IdleFields
<1>3. CASE ~(d /\ SelfOverlap)
  <2>1. plan' = [plan EXCEPT !.at = "source", !.deletes = d]
    BY <1>3 DEF Start
  <2>2. plan' \in Plans
    BY <2>1 DEF Plans, Points
  <2>3. /\ plan'.at = "source" /\ plan'.deletes = d /\ plan'.i = 1
        /\ plan'.listing = Unlisted /\ plan'.entries = plan.entries
    BY <1>1, <2>1, IdleFields DEF Plans
  <2>4. \A n \in Names : plan'.entries[n].copied = FALSE
    BY <1>1, <2>3, IdleFields
  <2>5. ASSUME NEW n \in Names PROVE EntryOk(n)'
    <3>1. ~SourceRead(n)' /\ ~TargetRead(n)' /\ ~PastCopy(n)' /\ ~PastVerify(n)' /\ ~PastDelete(n)'
      BY <2>3 DEF SourceRead, TargetRead, PastCopy, PastVerify, PastDelete, Writing, Reading, Names
    <3>2. SourceOk(n)' /\ TargetOk(n)' /\ DeletedOk(n)'
      BY <3>1 DEF SourceOk, TargetOk, DeletedOk
    <3>3. CopiedOk(n)'
      BY <2>4, <3>1 DEF CopiedOk, E
    <3>4. ListOk(n)'
      BY <2>3, <3>1 DEF ListOk
    <3> QED BY <3>2, <3>3, <3>4 DEF EntryOk
  <2>6. IdleInv'
    BY <2>3 DEF IdleInv, At
  <2>7. ValidInv'
    BY <1>1, <1>3, <2>3 DEF ValidInv, Writing, SelfOverlap, At, Src, Tgt
  <2>8. SyncInv'
    BY <2>3 DEF SyncInv, At
  <2> QED BY <2>2, <2>5, <2>6, <2>7, <2>8 DEF PlanInv, EntryInv
<1> QED BY <1>2, <1>3

\* A source is read.
LEMMA ReadSourcePlan ==
  ASSUME IInv, ReadSource
  PROVE  plan' \in Plans /\ PlanInv'
<1> DEFINE i == plan.i
<1> USE DEF IInv
<1>1. /\ plan.at = "source" /\ layout' = layout /\ store' = store /\ touched' = touched
      /\ plan' = [plan EXCEPT !.at = "target", !.entries[plan.i].source = store[Src(plan.i)]]
  BY DEF ReadSource, At, Stays
<1>2. plan \in Plans /\ i \in Names /\ plan.entries \in [Names -> Entry]
  BY PlanIsRecord, Types
<1>3. store[Src(i)] \in Held \cup {None}
  BY <1>2, Types DEF TypeOK
<1> HIDE DEF IInv
<1>4. /\ plan'.at = "target" /\ plan'.i = i /\ plan'.deletes = plan.deletes
      /\ plan'.listing = plan.listing
      /\ plan'.entries = [plan.entries EXCEPT ![i].source = store[Src(i)]]
  BY <1>1, <1>2 DEF Plans
<1>5. [plan.entries[i] EXCEPT !.source = store[Src(i)]] \in Entry
  BY <1>2, <1>3, EntryRecords
<1>6. plan'.entries = [plan.entries EXCEPT ![i] = [plan.entries[i] EXCEPT !.source = store[Src(i)]]]
  BY <1>4
<1>7. plan'.entries \in [Names -> Entry]
  BY <1>2, <1>5, <1>6
<1>8. plan' \in Plans
  BY <1>1, <1>2, <1>6, <1>7 DEF Plans, Points
<1>9. /\ \A n \in Names : n # i => plan'.entries[n] = plan.entries[n]
      /\ plan'.entries[i] = [plan.entries[i] EXCEPT !.source = store[Src(i)]]
  BY <1>2, <1>6
<1>10. /\ plan'.entries[i].source = store[Src(i)]
       /\ plan'.entries[i].target = plan.entries[i].target
       /\ plan'.entries[i].copied = plan.entries[i].copied
  BY <1>2, <1>9 DEF Entry
<1>11. PlanInv
  BY DEF IInv
<1>12. \A n \in Names : Src(n)' = Src(n) /\ Tgt(n)' = Tgt(n)
  BY <1>1 DEF Src, Tgt
<1>13. ASSUME NEW n \in Names PROVE EntryOk(n)'
  <2>0. EntryOk(n) /\ n \in Int /\ i \in Int
    BY <1>2, <1>11 DEF PlanInv, EntryInv, Names
  <2>1. /\ TargetRead(n)' <=> TargetRead(n)
        /\ SourceRead(n)' <=> (TargetRead(n) \/ n = i)
        /\ ~PastCopy(n)' /\ ~PastVerify(n)' /\ ~PastDelete(n)'
        /\ TargetRead(n) => n # i
    BY <1>1, <1>4, <2>0 DEF SourceRead, TargetRead, PastCopy, PastVerify, PastDelete, Writing, Reading
  <2>2. DeletedOk(n)'
    BY <2>1 DEF DeletedOk
  <2>3. SourceOk(n)'
    <3>1. CASE n = i
      BY <1>1, <1>10, <1>12, <3>1 DEF SourceOk, E
    <3>2. CASE n # i
      BY <1>1, <1>4, <1>9, <1>12, <2>0, <2>1, <3>2 DEF EntryOk, SourceOk, E, SourceRead
    <3> QED BY <3>1, <3>2
  <2>4. TargetOk(n)'
    <3>1. Unwritten(n)
      BY <1>1 DEF Unwritten, Reading
    <3> QED BY <1>1, <1>9, <1>12, <2>0, <2>1, <3>1 DEF EntryOk, TargetOk, E
  <2>5. ListOk(n)'
    BY <1>1, <1>4, <1>9, <1>12, <2>0, <2>1 DEF EntryOk, ListOk, E, Reading
  <2>6. CopiedOk(n)'
    <3>1. CASE n = i
      <4>1. plan.entries[i].copied = FALSE
        <5>1. ~PastCopy(i)
          BY <1>1 DEF PastCopy
        <5>2. CopiedOk(i) /\ plan.entries[i].copied \in BOOLEAN
          BY <1>2, <2>0, <3>1 DEF EntryOk, Entry
        <5> QED BY <5>1, <5>2 DEF CopiedOk, E
      <4> QED BY <1>10, <2>1, <3>1, <4>1 DEF CopiedOk, E
    <3>2. CASE n # i
      <4>1. ~PastCopy(n)
        BY <1>1 DEF PastCopy
      <4> QED BY <1>9, <2>0, <2>1, <3>2, <4>1 DEF EntryOk, CopiedOk, E
    <3> QED BY <3>1, <3>2
  <2> QED BY <2>2, <2>3, <2>4, <2>5, <2>6 DEF EntryOk
<1>14. IdleInv' /\ SyncInv'
  BY <1>4 DEF IdleInv, SyncInv, At
<1>15. ValidInv'
  BY <1>1, <1>4, <1>11, <1>12 DEF PlanInv, ValidInv, Writing, SelfOverlap, At
<1> QED BY <1>8, <1>13, <1>14, <1>15 DEF PlanInv, EntryInv

\* A destination is read, the first one with the listing of the instance.
LEMMA ReadTargetPlan ==
  ASSUME IInv, ReadTarget
  PROVE  plan' \in Plans /\ PlanInv'
<1> DEFINE i == plan.i
<1> DEFINE e == [plan.entries[plan.i] EXCEPT !.target = GetTarget(plan.i)]
<1>1. /\ plan.at = "target" /\ layout' = layout /\ store' = store /\ touched' = touched
      /\ \/ plan' = Idle
         \/ plan' = [plan EXCEPT !.entries[plan.i] = e, !.listing = EnsureSecrets,
                                 !.i = IF plan.i < N THEN @ + 1 ELSE 1,
                                 !.at = IF plan.i < N THEN "source" ELSE "validate"]
  BY DEF ReadTarget, At, Stays, Ends
<1>2. CASE plan' = Idle
  BY <1>1, <1>2, EndedPlan, IdleFields
<1>3. CASE plan' = [plan EXCEPT !.entries[plan.i] = e, !.listing = EnsureSecrets,
                                !.i = IF plan.i < N THEN @ + 1 ELSE 1,
                                !.at = IF plan.i < N THEN "source" ELSE "validate"]
  <2>1. TypeOK /\ PlanInv
    BY DEF IInv
  <2>2. /\ plan \in Plans /\ i \in Names /\ plan.entries \in [Names -> Entry] /\ i \in Int
        /\ i <= N /\ N \in Nat /\ 1 <= i /\ layout.lists \in BOOLEAN
    BY <2>1, PlanIsRecord, Types
  <2>3. GetTarget(i) \in Held \cup {None} /\ EnsureSecrets \in Listed \cup {Unlisted}
    BY <2>1, <2>2, Listings
  <2>4. e \in Entry
    BY <2>2, <2>3, EntryRecords
  <2>5. e.source = plan.entries[i].source /\ e.target = GetTarget(i) /\ e.copied = plan.entries[i].copied
    BY <2>2 DEF Entry
  <2> HIDE DEF e, i
  <2>6. /\ plan'.entries = [plan.entries EXCEPT ![i] = e]
        /\ plan'.listing = EnsureSecrets /\ plan'.deletes = plan.deletes
        /\ plan'.i = IF i < N THEN i + 1 ELSE 1
        /\ plan'.at = IF i < N THEN "source" ELSE "validate"
    BY <1>3, <2>2 DEF Plans, i
  <2>7. plan'.entries \in [Names -> Entry]
    BY <2>2, <2>4, <2>6
  <2>8. (IF i < N THEN i + 1 ELSE 1) \in Names
    BY <2>2 DEF Names
  <2>9. plan' \in Plans
    <3>1. [plan.entries EXCEPT ![i] = e] \in [Names -> Entry]
      BY <2>6, <2>7
    <3>2. (IF i < N THEN "source" ELSE "validate") \in Points
      BY DEF Points
    <3>3. plan' = [plan EXCEPT !.entries = [plan.entries EXCEPT ![i] = e],
                               !.listing = EnsureSecrets,
                               !.i = IF i < N THEN i + 1 ELSE 1,
                               !.at = IF i < N THEN "source" ELSE "validate"]
      BY <1>3, <2>2 DEF Plans, i
    <3> HIDE DEF Plans
    <3> QED BY <2>2, <2>3, <2>8, <3>1, <3>2, <3>3 DEF Plans
  <2>10. /\ \A n \in Names : n # i => plan'.entries[n] = plan.entries[n]
         /\ plan'.entries[i] = e
    BY <2>2, <2>6
  <2>11. \A n \in Names : Src(n)' = Src(n) /\ Tgt(n)' = Tgt(n)
    BY <1>1 DEF Src, Tgt
  <2>12. \A n \in Names : EntryOk(n)
    BY <2>1 DEF PlanInv, EntryInv
  <2>13. ASSUME NEW n \in Names, layout.lists
         PROVE  /\ EnsureSecrets # Unlisted
                /\ Tgt(n) \notin touched => EnsureSecrets[Tgt(n)] = store[Tgt(n)]
                /\ TargetRead(n) => EnsureSecrets[Tgt(n)] = E(n).target
    <3>1. EnsureSecrets # Unlisted
      BY <2>1, <2>13, Listings
    <3>2. CASE plan.listing = Unlisted
      <4>1. EnsureSecrets = [c \in {Tgt(m) : m \in Names} |-> store[c]]
        BY <2>13, <3>2 DEF EnsureSecrets
      <4>2. EnsureSecrets[Tgt(n)] = store[Tgt(n)]
        BY <4>1
      <4>3. ~TargetRead(n)
        BY <2>12, <2>13, <3>2 DEF EntryOk, ListOk
      <4> QED BY <3>1, <4>2, <4>3
    <3>3. CASE plan.listing # Unlisted
      <4>1. EnsureSecrets = plan.listing
        BY <3>3 DEF EnsureSecrets
      <4> QED BY <1>1, <2>12, <2>13, <3>1, <3>3, <4>1 DEF EntryOk, ListOk, Reading
    <3> QED BY <3>2, <3>3
  <2>14. ASSUME NEW n \in Names PROVE EntryOk(n)'
    <3>0. EntryOk(n) /\ n \in Int /\ 1 <= n /\ n <= N
      BY <2>2, <2>12 DEF Names
    <3>1. TargetRead(n)' <=> TargetRead(n) \/ n = i
      <4>1. CASE i < N
        BY <1>1, <2>2, <2>6, <3>0, <4>1 DEF TargetRead, Writing, Reading, i
      <4>2. CASE ~(i < N)
        BY <1>1, <2>2, <2>6, <3>0, <4>2 DEF TargetRead, Writing, Reading, i
      <4> QED BY <4>1, <4>2
    <3>2. SourceRead(n)' <=> SourceRead(n)
      <4>1. SourceRead(n)' <=> TargetRead(n)'
        BY <2>6 DEF SourceRead
      <4> QED BY <1>1, <3>1, <4>1 DEF SourceRead, i
    <3>3. /\ ~PastCopy(n)' /\ ~PastVerify(n)' /\ ~PastDelete(n)' /\ Unwritten(n)
          /\ ~PastCopy(n)
      BY <1>1, <2>6 DEF PastCopy, PastVerify, PastDelete, Unwritten, Reading
    <3>4. plan'.entries[n].source = E(n).source /\ plan'.entries[n].copied = E(n).copied
      BY <2>5, <2>10 DEF E
    <3>5. DeletedOk(n)'
      BY <3>3 DEF DeletedOk
    <3>6. CopiedOk(n)'
      BY <3>0, <3>3, <3>4 DEF EntryOk, CopiedOk, E
    <3>7. SourceOk(n)'
      BY <1>1, <2>11, <3>0, <3>2, <3>4 DEF EntryOk, SourceOk, E
    <3>8. CASE n = i
      <4>1. plan'.entries[n].target = GetTarget(i)
        BY <2>5, <2>10, <3>8
      <4>2. Tgt(n) \notin touched => GetTarget(i) = store[Tgt(n)]
        BY <2>2, <2>13, <3>8 DEF GetTarget
      <4>3. TargetOk(n)'
        BY <1>1, <2>11, <4>1, <4>2 DEF TargetOk, E
      <4>4. layout.lists => EnsureSecrets[Tgt(n)] = GetTarget(i)
        BY <3>8 DEF GetTarget
      <4>5. ListOk(n)'
        BY <1>1, <2>6, <2>11, <2>13, <4>1, <4>4 DEF ListOk, E
      <4> QED BY <3>5, <3>6, <3>7, <4>3, <4>5 DEF EntryOk
    <3>9. CASE n # i
      <4>1. plan'.entries[n].target = E(n).target
        BY <2>10, <3>9 DEF E
      <4>3. TargetOk(n)'
        BY <1>1, <2>11, <3>0, <3>1, <3>3, <3>9, <4>1 DEF EntryOk, TargetOk, E
      <4>5. ListOk(n)'
        BY <1>1, <2>6, <2>11, <2>13, <3>1, <3>9, <4>1 DEF ListOk, E
      <4> QED BY <3>5, <3>6, <3>7, <4>3, <4>5 DEF EntryOk
    <3> QED BY <3>8, <3>9
  <2>15. IdleInv' /\ SyncInv'
    BY <2>6 DEF IdleInv, SyncInv, At
  <2>16. ValidInv'
    BY <2>1, <2>6, <2>11 DEF PlanInv, ValidInv, Writing, SelfOverlap, At
  <2> QED BY <2>9, <2>14, <2>15, <2>16 DEF PlanInv, EntryInv
<1> QED BY <1>1, <1>2, <1>3

\* The entries are validated before anything is written.
LEMMA ValidatePlan ==
  ASSUME IInv, Validate
  PROVE  plan' \in Plans /\ PlanInv'
<1>1. plan.at = "validate" /\ layout' = layout /\ store' = store /\ touched' = touched
  BY DEF Validate, At, Stays
<1>2. CASE plan' = Idle
  BY <1>1, <1>2, EndedPlan, IdleFields
<1>3. CASE /\ ~TargetsCollide /\ (plan.deletes => ~CleanupCollides(plan.entries))
           /\ plan' = [plan EXCEPT !.at = "copy"]
  <2>1. TypeOK /\ PlanInv /\ plan \in Plans
    BY PlanIsRecord DEF IInv
  <2>2. plan' \in Plans
    BY <1>3, <2>1 DEF Plans, Points
  <2>3. /\ plan'.at = "copy" /\ plan'.i = plan.i /\ plan'.entries = plan.entries
        /\ plan'.deletes = plan.deletes /\ plan'.listing = plan.listing
    BY <1>3, <2>1 DEF Plans
  <2>4. \A n \in Names : Src(n)' = Src(n) /\ Tgt(n)' = Tgt(n)
    BY <1>1 DEF Src, Tgt
  <2>5. plan.i = 1
    BY <1>1, <2>1 DEF PlanInv, ValidInv, At
  <2>6. ASSUME NEW n \in Names PROVE EntryOk(n)'
    <3>1. EntryOk(n) /\ n \in Int /\ 1 <= n
      BY <2>1 DEF PlanInv, EntryInv, Names
    <3>2. /\ TargetRead(n) /\ TargetRead(n)' /\ SourceRead(n) /\ SourceRead(n)'
          /\ Unwritten(n) /\ Unwritten(n)'
          /\ ~PastCopy(n)' /\ ~PastVerify(n)' /\ ~PastDelete(n)' /\ ~PastCopy(n)
      BY <1>1, <2>3, <2>5, <3>1
         DEF TargetRead, SourceRead, Unwritten, PastCopy, PastVerify, PastDelete, Writing, Reading
    <3>3. plan'.at \notin Reading
      BY <2>3 DEF Reading
    <3>4. SourceOk(n)' /\ TargetOk(n)' /\ DeletedOk(n)' /\ CopiedOk(n)'
      BY <1>1, <2>3, <2>4, <3>1, <3>2
         DEF EntryOk, SourceOk, TargetOk, DeletedOk, CopiedOk, E
    <3>5. ListOk(n)'
      BY <1>1, <2>3, <2>4, <3>1, <3>2, <3>3 DEF EntryOk, ListOk, E
    <3> QED BY <3>4, <3>5 DEF EntryOk
  <2>7. IdleInv' /\ SyncInv'
    BY <2>3 DEF IdleInv, SyncInv, At
  <2>8. ValidInv'
    BY <1>3, <2>1, <2>3, <2>4
       DEF PlanInv, ValidInv, At, SelfOverlap, TargetsCollide, CleanupCollides
  <2> QED BY <2>2, <2>6, <2>7, <2>8 DEF PlanInv, EntryInv
<1> QED BY <1>2, <1>3 DEF Validate, Ends

\* How the loop over the copies moves on.
LEMMA CopyWalk ==
  ASSUME TypeOK, plan.at \in {"copy", "sync"}, plan'.deletes = plan.deletes,
         plan.i < N => plan'.i = plan.i + 1 /\ plan'.at = "copy",
         ~(plan.i < N) => plan'.i = 1 /\ plan'.at = AfterCopies,
         NEW n \in Names
  PROVE  /\ PastCopy(n)' <=> PastCopy(n) \/ n = plan.i
         /\ Unwritten(n)' => Unwritten(n) /\ n # plan.i
         /\ ~PastVerify(n)' /\ ~PastDelete(n)'
         /\ TargetRead(n) /\ TargetRead(n)' /\ SourceRead(n) /\ SourceRead(n)'
         /\ plan'.at \in {"copy", "verify", "done"} /\ (plan'.at = "verify" => plan'.deletes)
<1>1. plan.i \in Int /\ 1 <= plan.i /\ plan.i <= N /\ N \in Nat /\ n \in Int /\ 1 <= n /\ n <= N
  BY Types DEF Names
<1>2. /\ plan'.at \in {"copy", "verify", "done"} /\ (plan'.at = "verify" => plan'.deletes)
      /\ plan'.at = "done" => ~plan'.deletes
  BY DEF AfterCopies
<1>3. TargetRead(n) /\ TargetRead(n)' /\ SourceRead(n) /\ SourceRead(n)'
  BY <1>2 DEF TargetRead, SourceRead, Writing
<1>4. CASE plan.i < N
  BY <1>1, <1>2, <1>3, <1>4 DEF PastCopy, Unwritten, PastVerify, PastDelete, Reading
<1>5. CASE ~(plan.i < N)
  <2>1. plan'.at \in {"verify", "done"} /\ plan'.i = 1
    BY <1>5 DEF AfterCopies
  <2> QED BY <1>1, <1>2, <1>3, <1>5, <2>1 DEF PastCopy, Unwritten, PastVerify, PastDelete, Reading
<1> QED BY <1>4, <1>5

\* How the loops over the verifications and the deletions move on.
LEMMA LaterWalk ==
  ASSUME TypeOK, plan'.deletes = plan.deletes, plan.deletes,
         \/ plan.at = "verify" /\ (~(plan.i < N) => plan'.i = 1 /\ plan'.at = "delete")
         \/ plan.at = "delete" /\ (~(plan.i < N) => plan'.i = 1 /\ plan'.at = "done"),
         plan.i < N => plan'.i = plan.i + 1 /\ plan'.at = plan.at,
         NEW n \in Names
  PROVE  /\ PastCopy(n) /\ PastCopy(n)' /\ ~Unwritten(n)'
         /\ plan.at = "verify" => (PastVerify(n)' <=> PastVerify(n) \/ n = plan.i) /\ ~PastDelete(n)'
         /\ plan.at = "delete" => PastVerify(n) /\ (PastDelete(n)' <=> PastDelete(n) \/ n = plan.i)
         /\ TargetRead(n) /\ TargetRead(n)' /\ SourceRead(n) /\ SourceRead(n)'
         /\ plan'.at \in {"verify", "delete", "done"}
         /\ plan.at = "delete" => plan'.at \in {"delete", "done"}
<1>1. plan.i \in Int /\ 1 <= plan.i /\ plan.i <= N /\ N \in Nat /\ n \in Int /\ 1 <= n /\ n <= N
  BY Types DEF Names
<1>2. plan'.at \in {"verify", "delete", "done"} /\ (plan.at = "delete" => plan'.at \in {"delete", "done"})
  OBVIOUS
<1>3. TargetRead(n) /\ TargetRead(n)' /\ SourceRead(n) /\ SourceRead(n)'
  BY <1>2 DEF TargetRead, SourceRead, Writing
<1>4. PastCopy(n) /\ PastCopy(n)' /\ ~Unwritten(n)'
  BY <1>2 DEF PastCopy, Unwritten, Reading
<1>5. CASE plan.at = "verify"
  BY <1>1, <1>2, <1>3, <1>4, <1>5 DEF PastVerify, PastDelete
<1>6. CASE plan.at = "delete"
  BY <1>1, <1>2, <1>3, <1>4, <1>6 DEF PastVerify, PastDelete
<1> QED BY <1>5, <1>6

\* What has been read is not read again: the rest of a plan keeps its checks.
LEMMA ChecksKept ==
  ASSUME PlanInv, layout' = layout, plan.at \in Writing, plan'.at \in Writing,
         plan'.deletes = plan.deletes, plan'.at \in {"verify", "delete"} => plan.deletes,
         \A n \in Names : WillDelete(plan'.entries[n]) => WillDelete(plan.entries[n])
  PROVE  ValidInv' /\ IdleInv'
<1>1. \A n \in Names : Src(n)' = Src(n) /\ Tgt(n)' = Tgt(n)
  BY DEF Src, Tgt
<1>2. ~TargetsCollide'
  BY <1>1 DEF PlanInv, ValidInv, TargetsCollide
<1>3. plan.deletes => ~SelfOverlap'
  BY <1>1 DEF PlanInv, ValidInv, SelfOverlap
<1>4. plan.deletes => ~CleanupCollides(plan.entries)'
  BY <1>1 DEF PlanInv, ValidInv, CleanupCollides
<1> QED BY <1>2, <1>3, <1>4 DEF ValidInv, IdleInv, At, Writing

\* An entry with nothing to copy.
LEMMA CopySkipPlan ==
  ASSUME IInv, CopySkip
  PROVE  plan' \in Plans /\ PlanInv'
<1> DEFINE i == plan.i
<1>1. /\ plan.at = "copy" /\ layout' = layout /\ store' = store /\ touched' = touched
      /\ Skips(plan.entries[i]) /\ Goes(plan.entries, AfterCopies)
  BY DEF CopySkip, At, Stays
<1>2. TypeOK /\ PlanInv /\ AfterCopies \in Points /\ plan.entries \in [Names -> Entry]
  BY Types DEF IInv, AfterCopies, Points
<1>3. /\ plan' \in Plans /\ plan'.entries = plan.entries /\ plan'.deletes = plan.deletes
      /\ plan'.listing = plan.listing
      /\ plan.i < N => plan'.i = plan.i + 1 /\ plan'.at = "copy"
      /\ ~(plan.i < N) => plan'.i = 1 /\ plan'.at = AfterCopies
  BY <1>1, <1>2, GoesEffects
<1>4. \A n \in Names : Src(n)' = Src(n) /\ Tgt(n)' = Tgt(n)
  BY <1>1 DEF Src, Tgt
<1>5. ASSUME NEW n \in Names PROVE EntryOk(n)'
  <2>1. EntryOk(n)
    BY <1>2 DEF PlanInv, EntryInv
  <2>2. /\ PastCopy(n)' <=> PastCopy(n) \/ n = i
        /\ Unwritten(n)' => Unwritten(n) /\ n # i
        /\ ~PastVerify(n)' /\ ~PastDelete(n)'
        /\ TargetRead(n) /\ TargetRead(n)' /\ SourceRead(n) /\ SourceRead(n)'
        /\ plan'.at \in {"copy", "verify", "done"}
    BY <1>1, <1>2, <1>3, CopyWalk
  <2>3. SourceOk(n)'
    BY <1>1, <1>3, <1>4, <2>1, <2>2 DEF EntryOk, SourceOk, E
  <2>4. TargetOk(n)'
    BY <1>1, <1>3, <1>4, <2>1, <2>2 DEF EntryOk, TargetOk, E
  <2>5. ListOk(n)'
    BY <1>1, <1>3, <1>4, <2>1, <2>2 DEF EntryOk, ListOk, E, Reading
  <2>6. CopiedOk(n)'
    BY <1>1, <1>3, <2>1, <2>2 DEF EntryOk, CopiedOk, E, Skips
  <2>7. DeletedOk(n)'
    BY <2>2 DEF DeletedOk
  <2> QED BY <2>3, <2>4, <2>5, <2>6, <2>7 DEF EntryOk
<1>6. plan'.at \in {"copy", "verify", "done"} /\ (plan'.at = "verify" => plan'.deletes)
  BY <1>1, <1>3 DEF AfterCopies
<1>7. ValidInv' /\ IdleInv'
  <2>1. plan.at \in Writing /\ plan'.at \in Writing
    BY <1>1, <1>6 DEF Writing
  <2> QED BY <1>1, <1>2, <1>3, <1>6, <2>1, ChecksKept
<1>8. SyncInv'
  BY <1>6 DEF SyncInv, At
<1> QED BY <1>3, <1>5, <1>7, <1>8 DEF PlanInv, EntryInv

\* Before its copy, a destination of others' making is what the plan read.
LEMMA CopyMeetsNothing ==
  ASSUME IInv, plan.at = "copy", ~Skips(plan.entries[plan.i])
  PROVE  /\ plan.i \in Names /\ E(plan.i).source # None /\ E(plan.i).target = None
         /\ Tgt(plan.i) \notin touched => store[Tgt(plan.i)] = None
         /\ \A n \in Names : n # plan.i => Tgt(n) # Tgt(plan.i)
         /\ \A n \in Names : E(n).source # None /\ Src(n) \notin touched => Src(n) # Tgt(plan.i)
<1> DEFINE i == plan.i
<1>1. TypeOK /\ PlanInv
  BY DEF IInv
<1>2. i \in Names /\ i \in Int
  BY <1>1, Types
<1>3. E(i).source # None /\ E(i).target = None
  BY DEF Skips, E
<1>4. Tgt(i) \notin touched => store[Tgt(i)] = None
  <2>1. TargetRead(i) /\ Unwritten(i)
    BY <1>2 DEF TargetRead, Unwritten, Writing
  <2> QED BY <1>1, <1>2, <1>3, <2>1 DEF PlanInv, EntryInv, EntryOk, TargetOk
<1>5. \A n \in Names : n # i => Tgt(n) # Tgt(i)
  BY <1>1, <1>2 DEF PlanInv, ValidInv, Writing, TargetsCollide
<1>6. ASSUME NEW n \in Names, E(n).source # None, Src(n) \notin touched PROVE Src(n) # Tgt(i)
  <2>1. SourceRead(n) /\ SourceOk(n)
    BY <1>1 DEF PlanInv, EntryInv, EntryOk, SourceRead, TargetRead, Writing
  <2>2. store[Src(n)] = E(n).source
    BY <1>6, <2>1 DEF SourceOk
  <2> QED BY <1>4, <1>6, <2>2
<1> QED BY <1>2, <1>3, <1>4, <1>5, <1>6

\* A copy.
LEMMA CopyPlan ==
  ASSUME IInv, Copy
  PROVE  plan' \in Plans /\ PlanInv'
<1> DEFINE i == plan.i
<1>1. /\ plan.at = "copy" /\ layout' = layout /\ touched' = touched
      /\ ~Skips(plan.entries[i]) /\ plan' = [plan EXCEPT !.at = "sync"]
  BY DEF Copy, At, Stays
<1>2. TypeOK /\ PlanInv /\ plan \in Plans /\ i \in Int
  BY Types, PlanIsRecord DEF IInv
<1>3. /\ i \in Names /\ E(i).source # None /\ E(i).target = None
      /\ Tgt(i) \notin touched => store[Tgt(i)] = None
      /\ \A n \in Names : n # i => Tgt(n) # Tgt(i)
      /\ \A n \in Names : E(n).source # None /\ Src(n) \notin touched => Src(n) # Tgt(i)
  BY <1>1, CopyMeetsNothing
<1>4. /\ plan' \in Plans /\ plan'.at = "sync" /\ plan'.i = i /\ plan'.entries = plan.entries
      /\ plan'.deletes = plan.deletes /\ plan'.listing = plan.listing
  BY <1>1, <1>2 DEF Plans, Points
<1>5. \A n \in Names : Src(n)' = Src(n) /\ Tgt(n)' = Tgt(n)
  BY <1>1 DEF Src, Tgt
<1>6. PICK w : store' = [store EXCEPT ![Tgt(i)] = w]
  BY DEF Copy
<1>7. store \in [Cells -> Held \cup {None}] /\ \A n \in Names : Src(n) \in Cells /\ Tgt(n) \in Cells
  BY <1>2, Types DEF TypeOK
<1>8. \A c \in Cells : c # Tgt(i) => store'[c] = store[c]
  BY <1>6, <1>7
<1>9. ASSUME NEW n \in Names PROVE EntryOk(n)'
  <2>1. EntryOk(n) /\ n \in Int
    BY <1>2 DEF PlanInv, EntryInv, Names
  <2>2. /\ PastCopy(n)' <=> PastCopy(n)
        /\ Unwritten(n)' => Unwritten(n) /\ n # i
        /\ ~PastVerify(n)' /\ ~PastDelete(n)'
        /\ TargetRead(n) /\ TargetRead(n)' /\ SourceRead(n) /\ SourceRead(n)'
    BY <1>1, <1>2, <1>4, <2>1
       DEF TargetRead, SourceRead, Unwritten, PastCopy, PastVerify, PastDelete, Writing, Reading
  <2>3. SourceOk(n)'
    BY <1>1, <1>3, <1>4, <1>5, <1>7, <1>8, <2>1, <2>2 DEF EntryOk, SourceOk, E
  <2>4. TargetOk(n)'
    BY <1>1, <1>3, <1>4, <1>5, <1>7, <1>8, <2>1, <2>2 DEF EntryOk, TargetOk, E
  <2>5. ListOk(n)'
    BY <1>1, <1>4, <1>5, <2>1, <2>2 DEF EntryOk, ListOk, E, Reading
  <2>6. CopiedOk(n)'
    BY <1>1, <1>4, <2>1, <2>2 DEF EntryOk, CopiedOk, E
  <2>7. DeletedOk(n)'
    BY <2>2 DEF DeletedOk
  <2> QED BY <2>3, <2>4, <2>5, <2>6, <2>7 DEF EntryOk
<1>10. ValidInv' /\ IdleInv'
  <2>1. plan.at \in Writing /\ plan'.at \in Writing
    BY <1>1, <1>4 DEF Writing
  <2> QED BY <1>1, <1>2, <1>4, <2>1, ChecksKept
<1>11. SyncInv'
  <2>1. \/ store' = [store EXCEPT ![Tgt(i)] = E(i).source]
        \/ garbled' = garbled \cup {Tgt(i)}
    BY DEF Copy, E
  <2>2. store'[Tgt(i)] = E(i).source \/ Tgt(i) \in garbled'
    BY <1>3, <1>7, <2>1
  <2> QED BY <1>1, <1>3, <1>4, <1>5, <2>2 DEF SyncInv, E
<1> QED BY <1>4, <1>9, <1>10, <1>11 DEF PlanInv, EntryInv

\* The cache is updated and the entry counts as copied.
LEMMA SyncPlan ==
  ASSUME IInv, SyncCacheAfterWrite
  PROVE  plan' \in Plans /\ PlanInv'
<1> DEFINE i == plan.i
<1> DEFINE es == [plan.entries EXCEPT ![plan.i].copied = TRUE]
<1>1. /\ plan.at = "sync" /\ layout' = layout /\ store' = store /\ touched' = touched
      /\ plan' = IF plan.i < N
                 THEN [plan EXCEPT !.i = @ + 1, !.entries = es, !.at = "copy"]
                 ELSE [plan EXCEPT !.i = 1, !.entries = es, !.at = AfterCopies]
  BY DEF SyncCacheAfterWrite, At, Stays
<1>2. /\ TypeOK /\ PlanInv /\ plan \in Plans /\ i \in Names /\ i \in Int /\ 1 <= i /\ i <= N /\ N \in Nat
      /\ plan.entries \in [Names -> Entry] /\ AfterCopies \in Points
  BY Types, PlanIsRecord DEF IInv, AfterCopies, Points
<1>3. E(i).source # None /\ E(i).target = None
  BY <1>1, <1>2 DEF PlanInv, SyncInv, At
<1>4. [plan.entries[i] EXCEPT !.copied = TRUE] \in Entry
  <2>1. plan.entries[i] \in Entry /\ None \in Held \cup {None}
    BY <1>2
  <2> QED BY <2>1, EntryRecords
<1>5. es = [plan.entries EXCEPT ![i] = [plan.entries[i] EXCEPT !.copied = TRUE]]
  OBVIOUS
<1>6. es \in [Names -> Entry]
  BY <1>2, <1>4, <1>5
<1>7. /\ \A n \in Names : n # i => es[n] = plan.entries[n]
      /\ es[i] = [plan.entries[i] EXCEPT !.copied = TRUE]
  BY <1>2, <1>5
<1>8. es[i].source = E(i).source /\ es[i].target = E(i).target /\ es[i].copied = TRUE
  BY <1>2, <1>7 DEF Entry, E
<1> HIDE DEF es
<1>9. /\ plan' \in Plans /\ plan'.entries = es /\ plan'.deletes = plan.deletes
      /\ plan'.listing = plan.listing
      /\ plan.i < N => plan'.i = plan.i + 1 /\ plan'.at = "copy"
      /\ ~(plan.i < N) => plan'.i = 1 /\ plan'.at = AfterCopies
  <2>1. CASE plan.i < N
    <3>1. plan.i + 1 \in Names /\ "copy" \in Points
      BY <1>2, <2>1 DEF Names, Points
    <3>2. plan' = [plan EXCEPT !.i = plan.i + 1, !.entries = es, !.at = "copy"]
      BY <1>1, <2>1
    <3> QED BY <1>2, <1>6, <2>1, <3>1, <3>2 DEF Plans
  <2>2. CASE ~(plan.i < N)
    <3>1. plan' = [plan EXCEPT !.i = 1, !.entries = es, !.at = AfterCopies]
      BY <1>1, <2>2
    <3>2. 1 \in Names
      BY <1>2 DEF Names
    <3> QED BY <1>2, <1>6, <2>2, <3>1, <3>2 DEF Plans
  <2> QED BY <2>1, <2>2
<1>10. \A n \in Names : Src(n)' = Src(n) /\ Tgt(n)' = Tgt(n)
  BY <1>1 DEF Src, Tgt
<1>11. \A n \in Names : plan'.entries[n].source = E(n).source /\ plan'.entries[n].target = E(n).target
  BY <1>7, <1>8, <1>9 DEF E
<1>12. \A n \in Names : n # i => plan'.entries[n].copied = E(n).copied
  BY <1>7, <1>9 DEF E
<1>13. ASSUME NEW n \in Names PROVE EntryOk(n)'
  <2>1. EntryOk(n)
    BY <1>2 DEF PlanInv, EntryInv
  <2>2. /\ PastCopy(n)' <=> PastCopy(n) \/ n = i
        /\ Unwritten(n)' => Unwritten(n) /\ n # i
        /\ ~PastVerify(n)' /\ ~PastDelete(n)'
        /\ TargetRead(n) /\ TargetRead(n)' /\ SourceRead(n) /\ SourceRead(n)'
        /\ plan'.at \in {"copy", "verify", "done"}
    BY <1>1, <1>2, <1>9, CopyWalk
  <2>3. SourceOk(n)'
    BY <1>1, <1>9, <1>10, <1>11, <2>1, <2>2 DEF EntryOk, SourceOk, E
  <2>4. TargetOk(n)'
    BY <1>1, <1>9, <1>10, <1>11, <2>1, <2>2 DEF EntryOk, TargetOk, E
  <2>5. ListOk(n)'
    BY <1>1, <1>9, <1>10, <1>11, <2>1, <2>2 DEF EntryOk, ListOk, E, Reading
  <2>6. CopiedOk(n)'
    <3>1. CASE n = i
      BY <1>3, <1>8, <1>9, <1>11, <2>2, <3>1 DEF CopiedOk, E
    <3>2. CASE n # i
      BY <1>11, <1>12, <2>1, <2>2, <3>2 DEF EntryOk, CopiedOk, E
    <3> QED BY <3>1, <3>2
  <2>7. DeletedOk(n)'
    BY <2>2 DEF DeletedOk
  <2> QED BY <2>3, <2>4, <2>5, <2>6, <2>7 DEF EntryOk
<1>14. plan'.at \in {"copy", "verify", "done"} /\ (plan'.at = "verify" => plan'.deletes)
  BY <1>1, <1>9 DEF AfterCopies
<1>15. ValidInv' /\ IdleInv'
  <2>1. plan.at \in Writing /\ plan'.at \in Writing
    BY <1>1, <1>14 DEF Writing
  <2>2. \A n \in Names : WillDelete(plan'.entries[n]) => WillDelete(plan.entries[n])
    BY <1>11 DEF WillDelete, E
  <2> QED BY <1>1, <1>2, <1>9, <1>14, <2>1, <2>2, ChecksKept
<1>16. SyncInv'
  BY <1>14 DEF SyncInv, At
<1> QED BY <1>9, <1>13, <1>15, <1>16 DEF PlanInv, EntryInv

\* An entry that was not copied is not verified.
LEMMA VerifySkipPlan ==
  ASSUME IInv, VerifySkip
  PROVE  plan' \in Plans /\ PlanInv'
<1> DEFINE i == plan.i
<1>1. /\ plan.at = "verify" /\ layout' = layout /\ store' = store /\ touched' = touched
      /\ ~plan.entries[i].copied /\ Goes(plan.entries, "delete")
  BY DEF VerifySkip, At, Stays
<1>2. /\ TypeOK /\ PlanInv /\ plan.entries \in [Names -> Entry] /\ "delete" \in Points
      /\ plan.deletes
  BY <1>1, Types DEF IInv, Points, PlanInv, ValidInv
<1>3. /\ plan' \in Plans /\ plan'.entries = plan.entries /\ plan'.deletes = plan.deletes
      /\ plan'.listing = plan.listing
      /\ plan.i < N => plan'.i = plan.i + 1 /\ plan'.at = plan.at
      /\ ~(plan.i < N) => plan'.i = 1 /\ plan'.at = "delete"
  BY <1>1, <1>2, GoesEffects
<1>4. \A n \in Names : Src(n)' = Src(n) /\ Tgt(n)' = Tgt(n)
  BY <1>1 DEF Src, Tgt
<1>5. ASSUME NEW n \in Names PROVE EntryOk(n)'
  <2>1. EntryOk(n)
    BY <1>2 DEF PlanInv, EntryInv
  <2>2. /\ PastCopy(n) /\ PastCopy(n)' /\ ~Unwritten(n)'
        /\ PastVerify(n)' <=> PastVerify(n) \/ n = i
        /\ ~PastDelete(n)'
        /\ TargetRead(n) /\ TargetRead(n)' /\ SourceRead(n) /\ SourceRead(n)'
        /\ plan'.at \in {"verify", "delete", "done"}
    BY <1>1, <1>2, <1>3, LaterWalk
  <2>3. SourceOk(n)'
    BY <1>1, <1>3, <1>4, <2>1, <2>2 DEF EntryOk, SourceOk, E
  <2>4. TargetOk(n)'
    BY <1>1, <1>3, <1>4, <2>1, <2>2 DEF EntryOk, TargetOk, E
  <2>5. ListOk(n)'
    BY <1>1, <1>3, <1>4, <2>1, <2>2 DEF EntryOk, ListOk, E, Reading
  <2>6. CopiedOk(n)'
    BY <1>1, <1>3, <2>1, <2>2 DEF EntryOk, CopiedOk, E
  <2>7. DeletedOk(n)'
    BY <2>2 DEF DeletedOk
  <2> QED BY <2>3, <2>4, <2>5, <2>6, <2>7 DEF EntryOk
<1>6. plan'.at \in {"verify", "delete"}
  BY <1>1, <1>3
<1>7. ValidInv' /\ IdleInv'
  <2>1. plan.at \in Writing /\ plan'.at \in Writing
    BY <1>1, <1>6 DEF Writing
  <2> QED BY <1>1, <1>2, <1>3, <1>6, <2>1, ChecksKept
<1>8. SyncInv'
  BY <1>6 DEF SyncInv, At
<1> QED BY <1>3, <1>5, <1>7, <1>8 DEF PlanInv, EntryInv

\* A copy is read back.  A provider that answers from its listing says the
\* destination is empty, so nothing passes but what the store answers.
LEMMA VerifyPlan ==
  ASSUME IInv, Verify
  PROVE  plan' \in Plans /\ PlanInv'
<1> DEFINE i == plan.i
<1> DEFINE es == [plan.entries EXCEPT ![plan.i].target = GetTarget(plan.i)]
<1>1. /\ plan.at = "verify" /\ layout' = layout /\ store' = store /\ touched' = touched
      /\ plan.entries[i].copied
      /\ \/ plan' = Idle
         \/ /\ GetTarget(i) = plan.entries[i].source
            /\ Goes(es, "delete")
  BY DEF Verify, At, Stays, Ends
<1>2. CASE plan' = Idle
  BY <1>1, <1>2, EndedPlan, IdleFields
<1>3. CASE GetTarget(i) = plan.entries[i].source /\ Goes(es, "delete")
  <2>1. /\ TypeOK /\ PlanInv /\ plan.entries \in [Names -> Entry] /\ "delete" \in Points
        /\ plan.deletes /\ i \in Names
    BY <1>1, Types DEF IInv, Points, PlanInv, ValidInv
  <2>2. \A n \in Names : EntryOk(n)
    BY <2>1 DEF PlanInv, EntryInv
  <2>3. /\ E(i).source # None /\ E(i).target \in {None, E(i).source}
        /\ GetTarget(i) = E(i).source
    BY <1>1, <1>3, <2>1, <2>2 DEF EntryOk, CopiedOk, E
  <2>4. layout.lists => E(i).target = E(i).source
    <3>1. TargetRead(i)
      BY <1>1 DEF TargetRead, Writing
    <3>2. layout.lists => plan.listing # Unlisted /\ plan.listing[Tgt(i)] = E(i).target
      BY <2>1, <2>2, <3>1 DEF EntryOk, ListOk
    <3>3. layout.lists => GetTarget(i) = plan.listing[Tgt(i)]
      BY <3>2 DEF GetTarget, EnsureSecrets
    <3> QED BY <2>3, <3>2, <3>3
  <2>5. ~layout.lists => store[Tgt(i)] = E(i).source
    BY <2>3 DEF GetTarget
  <2>6. [plan.entries[i] EXCEPT !.target = GetTarget(i)] \in Entry
    BY <2>1, Listings, EntryRecords
  <2>7. es = [plan.entries EXCEPT ![i] = [plan.entries[i] EXCEPT !.target = GetTarget(i)]]
    OBVIOUS
  <2>8. es \in [Names -> Entry]
    BY <2>1, <2>6, <2>7
  <2>9. /\ \A n \in Names : n # i => es[n] = plan.entries[n]
        /\ es[i] = [plan.entries[i] EXCEPT !.target = GetTarget(i)]
    BY <2>1, <2>7
  <2>10. es[i].source = E(i).source /\ es[i].target = E(i).source /\ es[i].copied = E(i).copied
    BY <2>1, <2>3, <2>9 DEF Entry, E
  <2> HIDE DEF es
  <2>11. /\ plan' \in Plans /\ plan'.entries = es /\ plan'.deletes = plan.deletes
         /\ plan'.listing = plan.listing
         /\ plan.i < N => plan'.i = plan.i + 1 /\ plan'.at = plan.at
         /\ ~(plan.i < N) => plan'.i = 1 /\ plan'.at = "delete"
    BY <1>3, <2>1, <2>8, GoesEffects
  <2>12. \A n \in Names : Src(n)' = Src(n) /\ Tgt(n)' = Tgt(n)
    BY <1>1 DEF Src, Tgt
  <2>13. \A n \in Names : plan'.entries[n].source = E(n).source /\ plan'.entries[n].copied = E(n).copied
    BY <2>9, <2>10, <2>11 DEF E
  <2>14. /\ \A n \in Names : n # i => plan'.entries[n].target = E(n).target
         /\ plan'.entries[i].target = E(i).source
    BY <2>9, <2>10, <2>11 DEF E
  <2>15. ASSUME NEW n \in Names PROVE EntryOk(n)'
    <3>1. EntryOk(n)
      BY <2>2
    <3>2. /\ PastCopy(n) /\ PastCopy(n)' /\ ~Unwritten(n)'
          /\ PastVerify(n)' <=> PastVerify(n) \/ n = i
          /\ ~PastDelete(n)'
          /\ TargetRead(n) /\ TargetRead(n)' /\ SourceRead(n) /\ SourceRead(n)'
          /\ plan'.at \in {"verify", "delete", "done"}
      BY <1>1, <2>1, <2>11, LaterWalk
    <3>3. SourceOk(n)'
      BY <1>1, <2>11, <2>12, <2>13, <3>1, <3>2 DEF EntryOk, SourceOk, E
    <3>4. DeletedOk(n)'
      BY <3>2 DEF DeletedOk
    <3>5. CASE n # i
      <4>1. TargetOk(n)'
        BY <1>1, <2>11, <2>12, <2>14, <3>1, <3>2, <3>5 DEF EntryOk, TargetOk, E
      <4>2. ListOk(n)'
        BY <1>1, <2>11, <2>12, <2>14, <3>1, <3>2, <3>5 DEF EntryOk, ListOk, E, Reading
      <4>3. CopiedOk(n)'
        BY <1>1, <2>11, <2>13, <2>14, <3>1, <3>2, <3>5 DEF EntryOk, CopiedOk, E
      <4> QED BY <3>3, <3>4, <4>1, <4>2, <4>3 DEF EntryOk
    <3>6. CASE n = i
      <4>1. TargetOk(n)'
        <5>1. CASE layout.lists
          BY <1>1, <2>3, <2>4, <2>11, <2>12, <2>14, <3>1, <3>2, <3>6, <5>1 DEF EntryOk, TargetOk, E
        <5>2. CASE ~layout.lists
          BY <1>1, <2>5, <2>12, <2>14, <3>6, <5>2 DEF TargetOk, E
        <5> QED BY <5>1, <5>2
      <4>2. ListOk(n)'
        BY <1>1, <2>4, <2>11, <2>12, <2>14, <3>1, <3>2, <3>6 DEF EntryOk, ListOk, E, Reading
      <4>3. CopiedOk(n)'
        BY <2>3, <2>13, <2>14, <3>1, <3>2, <3>6 DEF EntryOk, CopiedOk, E
      <4> QED BY <3>3, <3>4, <4>1, <4>2, <4>3 DEF EntryOk
    <3> QED BY <3>5, <3>6
  <2>16. plan'.at \in {"verify", "delete"}
    BY <1>1, <2>11
  <2>17. ValidInv' /\ IdleInv'
    <3>1. plan.at \in Writing /\ plan'.at \in Writing
      BY <1>1, <2>16 DEF Writing
    <3>2. \A n \in Names : WillDelete(plan'.entries[n]) => WillDelete(plan.entries[n])
      BY <2>3, <2>13, <2>14 DEF WillDelete, E
    <3> QED BY <1>1, <2>1, <2>11, <2>16, <3>1, <3>2, ChecksKept
  <2>18. SyncInv'
    BY <2>16 DEF SyncInv, At
  <2> QED BY <2>11, <2>15, <2>17, <2>18 DEF PlanInv, EntryInv
<1> QED BY <1>1, <1>2, <1>3

\* An entry whose destination differs keeps its source.
LEMMA DeleteSkipPlan ==
  ASSUME IInv, DeleteSkip
  PROVE  plan' \in Plans /\ PlanInv'
<1> DEFINE i == plan.i
<1>1. /\ plan.at = "delete" /\ layout' = layout /\ store' = store /\ touched' = touched
      /\ ~Matches(plan.entries[i]) /\ Goes(plan.entries, "done")
  BY DEF DeleteSkip, At, Stays
<1>2. /\ TypeOK /\ PlanInv /\ plan.entries \in [Names -> Entry] /\ "done" \in Points
      /\ plan.deletes
  BY <1>1, Types DEF IInv, Points, PlanInv, ValidInv
<1>3. /\ plan' \in Plans /\ plan'.entries = plan.entries /\ plan'.deletes = plan.deletes
      /\ plan'.listing = plan.listing
      /\ plan.i < N => plan'.i = plan.i + 1 /\ plan'.at = plan.at
      /\ ~(plan.i < N) => plan'.i = 1 /\ plan'.at = "done"
  BY <1>1, <1>2, GoesEffects
<1>4. \A n \in Names : Src(n)' = Src(n) /\ Tgt(n)' = Tgt(n)
  BY <1>1 DEF Src, Tgt
<1>5. ASSUME NEW n \in Names PROVE EntryOk(n)'
  <2>1. EntryOk(n)
    BY <1>2 DEF PlanInv, EntryInv
  <2>2. /\ PastCopy(n) /\ PastCopy(n)' /\ ~Unwritten(n)' /\ PastVerify(n)
        /\ PastDelete(n)' <=> PastDelete(n) \/ n = i
        /\ TargetRead(n) /\ TargetRead(n)' /\ SourceRead(n) /\ SourceRead(n)'
        /\ plan'.at \in {"delete", "done"}
    BY <1>1, <1>2, <1>3, LaterWalk
  <2>3. SourceOk(n)'
    BY <1>1, <1>2, <1>3, <1>4, <2>1, <2>2 DEF EntryOk, SourceOk, E
  <2>4. TargetOk(n)'
    BY <1>1, <1>3, <1>4, <2>1, <2>2 DEF EntryOk, TargetOk, E
  <2>5. ListOk(n)'
    BY <1>1, <1>3, <1>4, <2>1, <2>2 DEF EntryOk, ListOk, E, Reading
  <2>6. CopiedOk(n)'
    BY <1>1, <1>3, <2>1, <2>2 DEF EntryOk, CopiedOk, E
  <2>7. DeletedOk(n)'
    BY <1>1, <1>3, <1>4, <2>1, <2>2 DEF EntryOk, DeletedOk, E
  <2> QED BY <2>3, <2>4, <2>5, <2>6, <2>7 DEF EntryOk
<1>6. plan'.at \in {"delete", "done"}
  BY <1>1, <1>3
<1>7. ValidInv' /\ IdleInv'
  <2>1. plan.at \in Writing /\ plan'.at \in Writing
    BY <1>1, <1>6 DEF Writing
  <2> QED BY <1>1, <1>2, <1>3, <1>6, <2>1, ChecksKept
<1>8. SyncInv'
  BY <1>6 DEF SyncInv, At
<1> QED BY <1>3, <1>5, <1>7, <1>8 DEF PlanInv, EntryInv

\* A source that may be deleted is no destination, and its value is in its own.
LEMMA DeleteSpares ==
  ASSUME IInv, plan.at = "delete", Matches(plan.entries[plan.i])
  PROVE  /\ plan.i \in Names /\ E(plan.i).source # None /\ E(plan.i).target = E(plan.i).source
         /\ plan.deletes
         /\ \A n \in Names : Tgt(n) # Src(plan.i)
         /\ Src(plan.i) \notin touched => store[Src(plan.i)] \in {E(plan.i).source, None}
         /\ Tgt(plan.i) \notin touched => store[Tgt(plan.i)] = E(plan.i).source
<1> DEFINE i == plan.i
<1>1. TypeOK /\ PlanInv
  BY DEF IInv
<1>2. i \in Names
  BY <1>1, Types
<1>3. E(i).source # None /\ E(i).target = E(i).source
  BY DEF Matches, E
<1>4. plan.deletes /\ ~SelfOverlap /\ ~CleanupCollides(plan.entries)
  BY <1>1 DEF PlanInv, ValidInv, Writing
<1>5. WillDelete(plan.entries[i])
  BY <1>3 DEF WillDelete, E
<1>6. \A n \in Names : Tgt(n) # Src(i)
  BY <1>2, <1>4, <1>5 DEF SelfOverlap, CleanupCollides
<1>7. SourceRead(i) /\ TargetRead(i) /\ EntryOk(i)
  BY <1>1, <1>2 DEF SourceRead, TargetRead, Writing, PlanInv, EntryInv
<1>8. Src(i) \notin touched => store[Src(i)] \in {E(i).source, None}
  BY <1>3, <1>7 DEF EntryOk, SourceOk
<1>9. Tgt(i) \notin touched => store[Tgt(i)] = E(i).source
  BY <1>3, <1>7 DEF EntryOk, TargetOk
<1> QED BY <1>2, <1>3, <1>4, <1>6, <1>8, <1>9

\* A source is deleted.
LEMMA DeletePlan ==
  ASSUME IInv, Delete
  PROVE  plan' \in Plans /\ PlanInv'
<1> DEFINE i == plan.i
<1>1. /\ plan.at = "delete" /\ layout' = layout /\ touched' = touched
      /\ store' = [store EXCEPT ![Src(i)] = None]
      /\ Matches(plan.entries[i]) /\ Goes(plan.entries, "done")
  BY DEF Delete, At, Stays
<1>2. /\ TypeOK /\ PlanInv /\ plan.entries \in [Names -> Entry] /\ "done" \in Points
  BY <1>1, Types DEF IInv, Points
<1>3. i \in Names /\ plan.deletes /\ \A n \in Names : Tgt(n) # Src(i)
  BY <1>1, DeleteSpares
<1>4. /\ plan' \in Plans /\ plan'.entries = plan.entries /\ plan'.deletes = plan.deletes
      /\ plan'.listing = plan.listing
      /\ plan.i < N => plan'.i = plan.i + 1 /\ plan'.at = plan.at
      /\ ~(plan.i < N) => plan'.i = 1 /\ plan'.at = "done"
  BY <1>1, <1>2, GoesEffects
<1>5. \A n \in Names : Src(n)' = Src(n) /\ Tgt(n)' = Tgt(n)
  BY <1>1 DEF Src, Tgt
<1>6. store \in [Cells -> Held \cup {None}] /\ \A n \in Names : Src(n) \in Cells /\ Tgt(n) \in Cells
  BY <1>2, Types DEF TypeOK
<1>7. \A c \in Cells : (c # Src(i) => store'[c] = store[c]) /\ (c = Src(i) => store'[c] = None)
  BY <1>1, <1>6
<1>8. ASSUME NEW n \in Names PROVE EntryOk(n)'
  <2>1. EntryOk(n)
    BY <1>2 DEF PlanInv, EntryInv
  <2>2. /\ PastCopy(n) /\ PastCopy(n)' /\ ~Unwritten(n)' /\ PastVerify(n)
        /\ PastDelete(n)' <=> PastDelete(n) \/ n = i
        /\ TargetRead(n) /\ TargetRead(n)' /\ SourceRead(n) /\ SourceRead(n)'
        /\ plan'.at \in {"delete", "done"}
    BY <1>1, <1>2, <1>3, <1>4, LaterWalk
  <2>3. SourceOk(n)'
    BY <1>1, <1>3, <1>4, <1>5, <1>6, <1>7, <2>1, <2>2 DEF EntryOk, SourceOk, E
  <2>4. TargetOk(n)'
    BY <1>1, <1>3, <1>4, <1>5, <1>6, <1>7, <2>1, <2>2 DEF EntryOk, TargetOk, E
  <2>5. ListOk(n)'
    BY <1>1, <1>4, <1>5, <2>1, <2>2 DEF EntryOk, ListOk, E, Reading
  <2>6. CopiedOk(n)'
    BY <1>1, <1>4, <2>1, <2>2 DEF EntryOk, CopiedOk, E
  <2>7. DeletedOk(n)'
    BY <1>1, <1>4, <1>5, <1>6, <1>7, <2>1, <2>2 DEF EntryOk, DeletedOk, E
  <2> QED BY <2>3, <2>4, <2>5, <2>6, <2>7 DEF EntryOk
<1>9. plan'.at \in {"delete", "done"}
  BY <1>1, <1>4
<1>10. ValidInv' /\ IdleInv'
  <2>1. plan.at \in Writing /\ plan'.at \in Writing
    BY <1>1, <1>9 DEF Writing
  <2> QED BY <1>1, <1>2, <1>3, <1>4, <1>9, <2>1, ChecksKept
<1>11. SyncInv'
  BY <1>9 DEF SyncInv, At
<1> QED BY <1>4, <1>8, <1>10, <1>11 DEF PlanInv, EntryInv

\* Nothing is said of a cell that another program has written.
LEMMA RivalPlan ==
  ASSUME IInv, NEW c \in Used(layout), Rival(c)
  PROVE  plan' \in Plans /\ PlanInv'
<1>1. TypeOK /\ PlanInv /\ plan \in Plans
  BY PlanIsRecord DEF IInv
<1>2. /\ layout' = layout /\ plan' = plan /\ garbled' = garbled
      /\ touched' = touched \cup {c}
  BY DEF Rival
<1>3. PICK v : store' = [store EXCEPT ![c] = v]
  BY DEF Rival
<1>4. store \in [Cells -> Held \cup {None}] /\ \A n \in Names : Src(n) \in Cells /\ Tgt(n) \in Cells
  BY <1>1, Types DEF TypeOK
<1>5. \A d \in Cells : d \notin touched' => d \notin touched /\ store'[d] = store[d]
  BY <1>2, <1>3, <1>4
<1>6. \A n \in Names : Src(n)' = Src(n) /\ Tgt(n)' = Tgt(n)
  BY <1>2 DEF Src, Tgt
<1>7. ASSUME NEW n \in Names PROVE EntryOk(n)'
  <2>1. EntryOk(n) /\ Src(n) \in Cells /\ Tgt(n) \in Cells
    BY <1>1, <1>4 DEF PlanInv, EntryInv
  <2>2. /\ E(n)' = E(n) /\ SourceRead(n)' = SourceRead(n) /\ TargetRead(n)' = TargetRead(n)
        /\ Unwritten(n)' = Unwritten(n) /\ PastCopy(n)' = PastCopy(n)
        /\ PastVerify(n)' = PastVerify(n) /\ PastDelete(n)' = PastDelete(n)
    BY <1>2 DEF E, SourceRead, TargetRead, Unwritten, PastCopy, PastVerify, PastDelete
  <2>3. SourceOk(n)'
    BY <1>2, <1>5, <1>6, <2>1, <2>2 DEF EntryOk, SourceOk
  <2>4. TargetOk(n)'
    BY <1>2, <1>5, <1>6, <2>1, <2>2 DEF EntryOk, TargetOk
  <2>5. ListOk(n)'
    BY <1>2, <1>5, <1>6, <2>1, <2>2 DEF EntryOk, ListOk
  <2>6. CopiedOk(n)'
    BY <2>1, <2>2 DEF EntryOk, CopiedOk
  <2>7. DeletedOk(n)'
    BY <1>2, <1>5, <1>6, <2>1, <2>2 DEF EntryOk, DeletedOk
  <2> QED BY <2>3, <2>4, <2>5, <2>6, <2>7 DEF EntryOk
<1>8. IdleInv'
  BY <1>1, <1>2 DEF PlanInv, IdleInv, At
<1>9. ValidInv'
  <2>1. CleanupCollides(plan.entries)' = CleanupCollides(plan.entries)
    BY <1>2, <1>6 DEF CleanupCollides
  <2> QED BY <1>1, <1>2, <1>6, <2>1 DEF PlanInv, ValidInv, At, SelfOverlap, TargetsCollide
<1>10. SyncInv'
  <2>1. plan.i \in Names
    BY <1>1, Types
  <2> QED BY <1>1, <1>2, <1>4, <1>5, <1>6, <2>1 DEF PlanInv, SyncInv, At, E
<1> QED BY <1>1, <1>2, <1>7, <1>8, <1>9, <1>10 DEF PlanInv, EntryInv

----------------------------------------------------------------------------
(* What the steps do to the stores.                                        *)

\* Steps that write no store.
Reads ==
  \/ ReadSource \/ ReadTarget \/ Validate \/ CopySkip \/ SyncCacheAfterWrite
  \/ VerifySkip \/ Verify \/ DeleteSkip \/ Report \/ Aborts

\* The plan of every step.
LEMMA PlanStep ==
  ASSUME IInv, Next
  PROVE  plan' \in Plans /\ PlanInv'
<1>1. ASSUME NEW d \in BOOLEAN, Start(d) PROVE plan' \in Plans /\ PlanInv'
  BY <1>1, StartPlan
<1>2. ASSUME CopyFails \/ DeleteFails \/ Report \/ Aborts PROVE plan' \in Plans /\ PlanInv'
  BY <1>2, EndedPlan, IdleFields DEF CopyFails, DeleteFails, Report, Aborts, Ends, Stays
<1>3. ASSUME NEW c \in Used(layout), Rival(c) PROVE plan' \in Plans /\ PlanInv'
  BY <1>3, RivalPlan
<1> QED
  BY <1>1, <1>2, <1>3, ReadSourcePlan, ReadTargetPlan, ValidatePlan, CopySkipPlan, CopyPlan,
     SyncPlan, VerifySkipPlan, VerifyPlan, DeleteSkipPlan, DeletePlan DEF Next, Step

\* The home of a value stays one.
LEMMA SameHomes ==
  ASSUME layout' = layout
  PROVE  \A n \in Names : Src(n)' = Src(n) /\ Tgt(n)' = Tgt(n) /\ Homes(n)' = Homes(n)
BY DEF Homes, Src, Tgt

\* The cells a value may be kept in are cells.
LEMMA HomesAreCells ==
  ASSUME TypeOK
  PROVE  \A n \in Names : Homes(n) \subseteq Cells /\ Src(n) \in Homes(n)
BY Types DEF Homes

\* A step that leaves the stores alone.
LEMMA KeptValues ==
  ASSUME NoValueLost, layout' = layout, origin' = origin, store' = store, touched' = touched
  PROVE  NoValueLost'
BY SameHomes DEF NoValueLost

\* A write to a cell that held nothing, or that others write.
LEMMA WrittenValues ==
  ASSUME TypeOK, NoValueLost, layout' = layout, origin' = origin, touched' = touched,
         NEW c \in Cells, NEW w \in Held \cup {None}, store' = [store EXCEPT ![c] = w],
         c \notin touched => store[c] \in {None, w}
  PROVE  NoValueLost'
<1> SUFFICES ASSUME NEW n \in Names, origin[Src(n)] # None, Homes(n) \cap touched = {}
             PROVE  \E h \in Homes(n) : store'[h] = origin[Src(n)]
  BY SameHomes DEF NoValueLost
<1>1. PICK h \in Homes(n) : store[h] = origin[Src(n)]
  BY DEF NoValueLost
<1>2. h \in Cells /\ h \notin touched /\ store \in [Cells -> Held \cup {None}]
  BY HomesAreCells DEF TypeOK
<1>3. store'[h] = store[h]
  BY <1>1, <1>2
<1> QED BY <1>1, <1>3

\* The deletion of a source whose value is in its destination.
LEMMA DeletedValues ==
  ASSUME TypeOK, NoValueLost, layout' = layout, origin' = origin, touched' = touched,
         NEW i \in Names, store' = [store EXCEPT ![Src(i)] = None],
         \A n \in Names : Tgt(n) # Src(i),
         NEW v,
         Src(i) \notin touched => store[Src(i)] \in {v, None},
         Tgt(i) \notin touched => store[Tgt(i)] = v
  PROVE  NoValueLost'
<1> SUFFICES ASSUME NEW n \in Names, origin[Src(n)] # None, Homes(n) \cap touched = {}
             PROVE  \E h \in Homes(n) : store'[h] = origin[Src(n)]
  BY SameHomes DEF NoValueLost
<1>1. PICK h \in Homes(n) : store[h] = origin[Src(n)]
  BY DEF NoValueLost
<1>2. /\ h \in Cells /\ h \notin touched /\ store \in [Cells -> Held \cup {None}]
      /\ Src(i) \in Cells /\ Tgt(i) \in Cells
  BY HomesAreCells, Types DEF TypeOK
<1>3. CASE h # Src(i)
  <2>1. store'[h] = store[h]
    BY <1>2, <1>3
  <2> QED BY <1>1, <2>1
<1>4. CASE h = Src(i)
  <2>1. h = Src(n)
    BY <1>1, <1>4 DEF Homes
  <2>2. Tgt(i) \in Homes(n)
    BY <1>4, <2>1 DEF Homes
  <2>3. store[Src(i)] = v /\ store[Tgt(i)] = v
    BY <1>1, <1>2, <1>4, <2>2
  <2>4. store'[Tgt(i)] = store[Tgt(i)]
    BY <1>2
  <2> QED BY <1>1, <1>4, <2>2, <2>3, <2>4
<1> QED BY <1>3, <1>4

\* A write of another program takes its cell out of the promise.
LEMMA RivalValues ==
  ASSUME TypeOK, NoValueLost, NEW c, Rival(c)
  PROVE  NoValueLost'
<1>1. layout' = layout /\ origin' = origin /\ touched' = touched \cup {c}
  BY DEF Rival
<1>2. PICK v : store' = [store EXCEPT ![c] = v]
  BY DEF Rival
<1> SUFFICES ASSUME NEW n \in Names, origin[Src(n)] # None, Homes(n) \cap touched' = {}
             PROVE  \E h \in Homes(n) : store'[h] = origin[Src(n)]
  BY <1>1, SameHomes DEF NoValueLost
<1>3. PICK h \in Homes(n) : store[h] = origin[Src(n)]
  BY <1>1 DEF NoValueLost
<1>4. h \in Cells /\ h # c /\ store \in [Cells -> Held \cup {None}]
  BY <1>1, HomesAreCells DEF TypeOK
<1>5. store'[h] = store[h]
  BY <1>2, <1>4
<1> QED BY <1>3, <1>5

\* No step loses a value.
LEMMA ValuesStep ==
  ASSUME IInv, Next
  PROVE  NoValueLost'
<1>0. TypeOK /\ NoValueLost
  BY DEF IInv
<1>1. ASSUME Reads \/ \E d \in BOOLEAN : Start(d) PROVE NoValueLost'
  <2>1. layout' = layout /\ origin' = origin /\ store' = store /\ touched' = touched
    BY <1>1 DEF Reads, Start, ReadSource, ReadTarget, Validate, CopySkip, SyncCacheAfterWrite,
                VerifySkip, Verify, DeleteSkip, Report, Aborts, Stays
  <2> QED BY <1>0, <2>1, KeptValues
<1>2. ASSUME Copy \/ CopyFails PROVE NoValueLost'
  <2>1. layout' = layout /\ origin' = origin /\ touched' = touched
        /\ plan.at = "copy" /\ ~Skips(plan.entries[plan.i])
    BY <1>2 DEF Copy, CopyFails, At, Stays
  <2>2. plan.i \in Names /\ (Tgt(plan.i) \notin touched => store[Tgt(plan.i)] = None)
    BY <2>1, CopyMeetsNothing
  <2>3. /\ Tgt(plan.i) \in Cells /\ store[Tgt(plan.i)] \in Held \cup {None}
        /\ plan.entries[plan.i].source \in Held \cup {None}
        /\ Garbled \in Held \cup {None}
    BY <1>0, <2>2, Types DEF TypeOK, Entry, E, Held
  <2>4. PICK w \in Held \cup {None} : store' = [store EXCEPT ![Tgt(plan.i)] = w]
    BY <1>2, <2>3 DEF Copy, CopyFails
  <2> QED BY <1>0, <2>1, <2>2, <2>3, <2>4, WrittenValues
<1>3. ASSUME Delete \/ DeleteFails PROVE NoValueLost'
  <2>1. layout' = layout /\ origin' = origin /\ touched' = touched
        /\ plan.at = "delete" /\ Matches(plan.entries[plan.i])
    BY <1>3 DEF Delete, DeleteFails, At, Stays
  <2>2. CASE store' = [store EXCEPT ![Src(plan.i)] = None]
    <3>1. /\ plan.i \in Names
          /\ \A n \in Names : Tgt(n) # Src(plan.i)
          /\ Src(plan.i) \notin touched => store[Src(plan.i)] \in {E(plan.i).source, None}
          /\ Tgt(plan.i) \notin touched => store[Tgt(plan.i)] = E(plan.i).source
      BY <2>1, DeleteSpares
    <3> QED BY <1>0, <2>1, <2>2, <3>1, DeletedValues
  <2>3. CASE store' = [store EXCEPT ![Src(plan.i)] = store[Src(plan.i)]]
    <3>1. store' = store
      BY <1>0, <2>3 DEF TypeOK
    <3> QED BY <1>0, <2>1, <3>1, KeptValues
  <2> QED BY <1>3, <2>2, <2>3 DEF Delete, DeleteFails
<1>4. ASSUME NEW c \in Used(layout), Rival(c) PROVE NoValueLost'
  BY <1>0, <1>4, RivalValues
<1> QED BY <1>1, <1>2, <1>3, <1>4 DEF Next, Step, Reads

\* The cache of a route holds what its destination does.
LEMMA CacheStep ==
  ASSUME IInv, Next
  PROVE  CacheFollowsDestination'
<1>0. TypeOK /\ PlanInv /\ CacheFollowsDestination
  BY DEF IInv
<1>a. /\ layout' = layout /\ touched \subseteq touched' /\ garbled \subseteq garbled'
  BY DEF Next, Step, Start, ReadSource, ReadTarget, Validate, CopySkip, Copy, CopyFails,
         SyncCacheAfterWrite, VerifySkip, Verify, DeleteSkip, Delete, DeleteFails, Report,
         Aborts, Rival, Stays
<1>b. \A n \in Names : Tgt(n)' = Tgt(n)
  BY <1>a DEF Tgt
<1>c. /\ store \in [Cells -> Held \cup {None}] /\ cached \in [Names -> Held \cup {None}]
      /\ \A n \in Names : Src(n) \in Cells /\ Tgt(n) \in Cells
      /\ plan.i \in Names
  BY <1>0, Types DEF TypeOK
<1>1. ASSUME \/ Reads /\ ~SyncCacheAfterWrite
             \/ \E d \in BOOLEAN : Start(d)
      PROVE  CacheFollowsDestination'
  <2>1. store' = store /\ cached' = cached
    BY <1>1 DEF Reads, Start, ReadSource, ReadTarget, Validate, CopySkip,
                VerifySkip, Verify, DeleteSkip, Report, Aborts, Stays
  <2> QED BY <1>0, <1>a, <1>b, <2>1 DEF CacheFollowsDestination
<1>2. ASSUME SyncCacheAfterWrite PROVE CacheFollowsDestination'
  <2>1. store' = store /\ touched' = touched /\ garbled' = garbled
    BY <1>2 DEF SyncCacheAfterWrite, Stays
  <2>2. Tgt(plan.i) \notin touched \cup garbled => store[Tgt(plan.i)] = E(plan.i).source
    BY <1>0, <1>2 DEF SyncCacheAfterWrite, PlanInv, SyncInv
  <2>3. cached'[plan.i] \in {E(plan.i).source, None} /\ \A n \in Names : n # plan.i => cached'[n] = cached[n]
    BY <1>2, <1>c DEF SyncCacheAfterWrite, E
  <2> QED BY <1>0, <1>b, <2>1, <2>2, <2>3 DEF CacheFollowsDestination
<1>3. ASSUME Copy \/ CopyFails PROVE CacheFollowsDestination'
  <2>1. cached' = cached /\ plan.at = "copy" /\ ~Skips(plan.entries[plan.i])
    BY <1>3 DEF Copy, CopyFails, At
  <2>2. /\ Tgt(plan.i) \notin touched => store[Tgt(plan.i)] = None
        /\ \A n \in Names : n # plan.i => Tgt(n) # Tgt(plan.i)
    BY <2>1, CopyMeetsNothing
  <2>3. PICK w : store' = [store EXCEPT ![Tgt(plan.i)] = w]
    BY <1>3 DEF Copy, CopyFails
  <2>4. \A n \in Names : n # plan.i => store'[Tgt(n)] = store[Tgt(n)]
    BY <1>c, <2>2, <2>3
  <2>5. Tgt(plan.i) \notin touched' \cup garbled' => cached[plan.i] = None
    BY <1>0, <1>a, <1>c, <2>2 DEF CacheFollowsDestination
  <2> QED BY <1>0, <1>a, <1>b, <2>1, <2>4, <2>5 DEF CacheFollowsDestination
<1>4. ASSUME Delete \/ DeleteFails PROVE CacheFollowsDestination'
  <2>1. cached' = cached /\ plan.at = "delete" /\ Matches(plan.entries[plan.i])
    BY <1>4 DEF Delete, DeleteFails, At
  <2>2. \A n \in Names : Tgt(n) # Src(plan.i)
    BY <2>1, DeleteSpares
  <2>3. PICK w : store' = [store EXCEPT ![Src(plan.i)] = w]
    BY <1>4 DEF Delete, DeleteFails
  <2>4. \A n \in Names : store'[Tgt(n)] = store[Tgt(n)]
    BY <1>c, <2>2, <2>3
  <2> QED BY <1>0, <1>a, <1>b, <2>1, <2>4 DEF CacheFollowsDestination
<1>5. ASSUME NEW c \in Used(layout), Rival(c) PROVE CacheFollowsDestination'
  <2>1. cached' = cached /\ touched' = touched \cup {c}
    BY <1>5 DEF Rival
  <2>2. PICK w : store' = [store EXCEPT ![c] = w]
    BY <1>5 DEF Rival
  <2>3. \A n \in Names : Tgt(n) \notin touched' => store'[Tgt(n)] = store[Tgt(n)]
    BY <1>c, <2>1, <2>2
  <2> QED BY <1>0, <1>a, <1>b, <2>1, <2>3 DEF CacheFollowsDestination
<1> QED BY <1>1, <1>2, <1>3, <1>4, <1>5 DEF Next, Step, Reads

\* Every step keeps the types.
LEMMA TypesKept ==
  ASSUME IInv, Next
  PROVE  TypeOK'
<1>0. TypeOK /\ plan' \in Plans
  BY PlanStep DEF IInv
<1>1. layout' = layout /\ origin' = origin /\ (Fails \/ Works)
  BY DEF Next, Step, Start, ReadSource, ReadTarget, Validate, CopySkip, Copy, CopyFails,
         SyncCacheAfterWrite, VerifySkip, Verify, DeleteSkip, Delete, DeleteFails, Report,
         Aborts, Rival, Stays
<1>2. mishaps' \in 0..MaxMishaps
  BY <1>0, <1>1, Mishaps
<1>3. /\ store \in [Cells -> Held \cup {None}] /\ cached \in [Names -> Held \cup {None}]
      /\ touched \subseteq Cells /\ garbled \subseteq Cells
      /\ \A n \in Names : Src(n) \in Cells /\ Tgt(n) \in Cells
      /\ plan.i \in Names /\ E(plan.i).source \in Held \cup {None}
      /\ Garbled \in Held /\ Values \subseteq Held
  <2>1. plan.i \in Names /\ E(plan.i) \in Entry
    BY <1>0, Types
  <2> QED BY <1>0, <2>1, Types DEF TypeOK, Entry, Held
<1>4. Used(layout) \subseteq Cells
  BY <1>3 DEF Used, Src, Tgt
<1>5. store' \in [Cells -> Held \cup {None}]
  <2>1. \/ store' = store
        \/ \E c \in Cells, v \in Held \cup {None} : store' = [store EXCEPT ![c] = v]
    <3>1. ASSUME Copy \/ CopyFails
          PROVE  \E v \in Held \cup {None} : store' = [store EXCEPT ![Tgt(plan.i)] = v]
      BY <1>3, <3>1 DEF Copy, CopyFails, E
    <3>2. ASSUME Delete \/ DeleteFails
          PROVE  \E v \in Held \cup {None} : store' = [store EXCEPT ![Src(plan.i)] = v]
      BY <1>3, <3>2 DEF Delete, DeleteFails
    <3>3. ASSUME NEW c \in Used(layout), Rival(c)
          PROVE  \E d \in Cells, v \in Held \cup {None} : store' = [store EXCEPT ![d] = v]
      BY <1>3, <1>4, <3>3 DEF Rival
    <3>4. ASSUME Reads \/ \E d \in BOOLEAN : Start(d) PROVE store' = store
      BY <3>4 DEF Reads, Start, ReadSource, ReadTarget, Validate, CopySkip, SyncCacheAfterWrite,
                  VerifySkip, Verify, DeleteSkip, Report, Aborts
    <3> QED BY <1>3, <3>1, <3>2, <3>3, <3>4 DEF Next, Step, Reads
  <2> QED BY <1>3, <2>1
<1>6. cached' \in [Names -> Held \cup {None}]
  <2>1. ASSUME SyncCacheAfterWrite
        PROVE  \E v \in Held \cup {None} : cached' = [cached EXCEPT ![plan.i] = v]
    BY <1>3, <2>1 DEF SyncCacheAfterWrite, E
  <2>2. cached' = cached \/ SyncCacheAfterWrite
    BY DEF Next, Step, Start, ReadSource, ReadTarget, Validate, CopySkip, Copy, CopyFails,
           VerifySkip, Verify, DeleteSkip, Delete, DeleteFails, Report, Aborts, Rival
  <2> QED BY <1>3, <2>1, <2>2
<1>7. touched' \subseteq Cells
  <2>1. \/ touched' = touched
        \/ \E c \in Used(layout) : touched' = touched \cup {c}
    BY DEF Next, Step, Start, ReadSource, ReadTarget, Validate, CopySkip, Copy, CopyFails,
           SyncCacheAfterWrite, VerifySkip, Verify, DeleteSkip, Delete, DeleteFails, Report,
           Aborts, Rival, Stays
  <2> QED BY <1>3, <1>4, <2>1
<1>8. garbled' \subseteq Cells
  <2>1. garbled' = garbled \/ garbled' = garbled \cup {Tgt(plan.i)}
    BY DEF Next, Step, Start, ReadSource, ReadTarget, Validate, CopySkip, Copy, CopyFails,
           SyncCacheAfterWrite, VerifySkip, Verify, DeleteSkip, Delete, DeleteFails, Report,
           Aborts, Rival
  <2> QED BY <1>3, <2>1
<1> QED BY <1>0, <1>1, <1>2, <1>5, <1>6, <1>7, <1>8, TypeStep

----------------------------------------------------------------------------
(* The theorems *)

\* Before the first command nothing has been moved.
LEMMA InitIInv == Init => IInv
<1> SUFFICES ASSUME Init PROVE IInv
  OBVIOUS
<1>1. layout \in Layouts /\ store \in Stores /\ origin = store /\ plan = Idle
      /\ cached = [n \in Names |-> None] /\ touched = {} /\ garbled = {} /\ mishaps = 0
  BY DEF Init
<1>2. store \in [Cells -> Values \cup {None}]
  BY <1>1
<1>3. store \in [Cells -> Held \cup {None}] /\ cached \in [Names -> Held \cup {None}]
  BY <1>1, <1>2 DEF Held
<1>4. plan \in Plans
  BY <1>1, IdleFields
<1>5. TypeOK
  BY <1>1, <1>2, <1>3, <1>4 DEF TypeOK, Plans
<1>6. plan.at = "idle" /\ plan.deletes = FALSE /\ \A n \in Names : plan.entries[n].copied = FALSE
  BY <1>1, IdleFields
<1>7. ASSUME NEW n \in Names PROVE EntryOk(n)
  <2>1. ~SourceRead(n) /\ ~TargetRead(n) /\ ~PastCopy(n) /\ ~PastVerify(n) /\ ~PastDelete(n)
    BY <1>6 DEF SourceRead, TargetRead, PastCopy, PastVerify, PastDelete, Writing, Reading
  <2> QED BY <1>6, <2>1 DEF EntryOk, SourceOk, TargetOk, ListOk, CopiedOk, DeletedOk, E, Reading
<1>8. PlanInv
  BY <1>1, <1>6, <1>7 DEF PlanInv, EntryInv, IdleInv, ValidInv, SyncInv, At, Writing
<1>9. NoValueLost
  BY <1>1, <1>5, HomesAreCells DEF NoValueLost
<1>10. CacheFollowsDestination
  BY <1>1 DEF CacheFollowsDestination
<1> QED BY <1>5, <1>8, <1>9, <1>10 DEF IInv

\* Nothing changes in a stuttering step.
LEMMA Stuttering ==
  ASSUME IInv, UNCHANGED vars
  PROVE  IInv'
<1> USE DEF vars
<1>1. \A n \in Names : Src(n)' = Src(n) /\ Tgt(n)' = Tgt(n) /\ E(n)' = E(n)
  BY DEF Src, Tgt, E
<1>2. TypeOK'
  BY DEF IInv, TypeOK, Listed, Tgt
<1>3. ASSUME NEW n \in Names PROVE EntryOk(n)'
  <2>1. /\ SourceRead(n)' = SourceRead(n) /\ TargetRead(n)' = TargetRead(n)
        /\ Unwritten(n)' = Unwritten(n) /\ PastCopy(n)' = PastCopy(n)
        /\ PastVerify(n)' = PastVerify(n) /\ PastDelete(n)' = PastDelete(n)
    BY DEF SourceRead, TargetRead, Unwritten, PastCopy, PastVerify, PastDelete
  <2>2. EntryOk(n)
    BY DEF IInv, PlanInv, EntryInv
  <2> QED BY <1>1, <2>1, <2>2 DEF EntryOk, SourceOk, TargetOk, ListOk, CopiedOk, DeletedOk
<1>4. ValidInv'
  <2>1. CleanupCollides(plan.entries)' = CleanupCollides(plan.entries)
    BY <1>1 DEF CleanupCollides
  <2> QED BY <1>1, <2>1 DEF IInv, PlanInv, ValidInv, At, SelfOverlap, TargetsCollide
<1>5. IdleInv' /\ SyncInv'
  <2>1. plan.i \in Names
    BY Types DEF IInv
  <2> QED BY <1>1, <2>1 DEF IInv, PlanInv, IdleInv, SyncInv, At
<1>6. NoValueLost'
  BY KeptValues DEF IInv
<1>7. CacheFollowsDestination'
  BY <1>1 DEF IInv, CacheFollowsDestination
<1> QED BY <1>2, <1>3, <1>4, <1>5, <1>6, <1>7 DEF IInv, PlanInv, EntryInv

(***************************************************************************)
(* The inductive invariant: what a plan read is still so, unless others    *)
(* wrote, until the plan itself replaces it.                               *)
(***************************************************************************)
THEOREM Invariance == Spec => []IInv
<1>1. Init => IInv
  BY InitIInv
<1>2. IInv /\ [Next]_vars => IInv'
  BY PlanStep, ValuesStep, CacheStep, TypesKept, Stuttering DEF IInv
<1> QED BY <1>1, <1>2, PTL DEF Spec

(***************************************************************************)
(* The commands' state keeps its types, and every secret of a plan has a   *)
(* stored value or none.                                                   *)
(***************************************************************************)
THEOREM TypeCorrect == Spec => []TypeOK
<1>1. IInv => TypeOK
  BY DEF IInv
<1> QED BY <1>1, Invariance, PTL

(***************************************************************************)
(* `import --delete-source` deletes a source only when its destination     *)
(* holds the value, whatever fails and whenever a command dies.            *)
(***************************************************************************)
THEOREM MovesLoseNothing == Spec => []NoValueLost
<1>1. IInv => NoValueLost
  BY DEF IInv
<1> QED BY <1>1, Invariance, PTL

(***************************************************************************)
(* The cache written after a copy holds what the destination holds: no     *)
(* later step of a plan empties a destination or replaces what it has.     *)
(***************************************************************************)
THEOREM CachesFollow == Spec => []CacheFollowsDestination
<1>1. IInv => CacheFollowsDestination
  BY DEF IInv
<1> QED BY <1>1, Invariance, PTL

(***************************************************************************)
(* A move that reports success has emptied every source it read a value    *)
(* from, except where the destination holds another value.                 *)
(***************************************************************************)
THEOREM SuccessIsReal == Spec => []SuccessMeansMoved
<1>1. ASSUME IInv PROVE SuccessMeansMoved
  <2> SUFFICES ASSUME plan.at = "done", plan.deletes, NEW n \in Names,
                      Src(n) \notin touched, Tgt(n) \notin touched, E(n).source # None
               PROVE  store[Src(n)] = None \/ store[Tgt(n)] \notin {None, store[Src(n)]}
    BY DEF SuccessMeansMoved, At, E
  <2>1. EntryOk(n)
    BY <1>1 DEF IInv, PlanInv, EntryInv
  <2>2. SourceRead(n) /\ TargetRead(n) /\ PastVerify(n) /\ PastDelete(n)
    BY DEF SourceRead, TargetRead, PastVerify, PastDelete, Writing
  <2>3. store[Src(n)] \in {E(n).source, None}
    BY <2>1, <2>2 DEF EntryOk, SourceOk
  <2>4. E(n).target # None /\ store[Tgt(n)] = E(n).target
    BY <2>1, <2>2 DEF EntryOk, CopiedOk, TargetOk
  <2>5. CASE E(n).target = E(n).source
    BY <2>1, <2>2, <2>5 DEF EntryOk, DeletedOk, Matches
  <2>6. CASE E(n).target # E(n).source
    BY <2>3, <2>4, <2>6
  <2> QED BY <2>5, <2>6
<1> QED BY <1>1, Invariance, PTL
=============================================================================
